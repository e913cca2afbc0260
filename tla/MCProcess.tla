----------------------------- MODULE MCProcess ------------------------------
(* A shell with one background process in its group and, where the run says so, one that has
   left the group. *)
EXTENDS Callers

MCMembers == {"bg"}
MCEscapees == {"daemon"}
MCNone == {}
=============================================================================

---------------------------- MODULE MCGmailPoll -----------------------------
(* A source with two labels, or with none, in a mailbox that also uses a third label. *)
EXTENDS GmailPoll

MCLabelLists == {<<"inbox", "work">>, <<>>}
=============================================================================

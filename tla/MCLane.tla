------------------------------- MODULE MCLane -------------------------------
(* A lane small enough for TLC: two sources share a throttled command, a third asks for a
   command the lane has no executor for. *)
EXTENDS Lane, TLC

CONSTANTS s1, s2, s3, a, b

MCSources == {s1, s2, s3}
MCCommands == {a, b}
MCConfigured == {a}
MCInterval == (a :> 2)
MCCmdOf == (s1 :> a) @@ (s2 :> a) @@ (s3 :> b)
=============================================================================

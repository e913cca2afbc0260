----------------------------- MODULE MCPipeline -----------------------------
(* A debounced source and a resume source, each with a command of its own in one lane, so that
   one waits behind the other; the debounced source's command is throttled. *)
EXTENDS Pipeline, TLC

CONSTANTS s1, s2, a, b

MCSources == {s1, s2}
MCResume == {s2}
MCCommands == {a, b}
MCInterval == (a :> 1) @@ (b :> 0)
MCCmdOf == (s1 :> a) @@ (s2 :> b)
=============================================================================

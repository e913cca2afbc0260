------------------------------ MODULE Callers -------------------------------
(***************************************************************************)
(* Who runs shell commands, and what each of them makes of the ShellRun:   *)
(* the executor of a lane and test-command (src/command.rs), the auth      *)
(* helpers (run_secret_command of src/auth.rs) and the reader of an        *)
(* fs_state source (ShellStateReader of src/fs_state.rs).  The run is      *)
(* module Process; its conf says which of them asked for it.               *)
(***************************************************************************)
EXTENDS Process

VARIABLE answer  (* what the caller goes on with, or "none" *)

callerVars == <<vars, answer>>

Exits == {"success", "reauth", "failure"}
Commands == {"command", "test"}
Answers == {"ok", "failed", "timedout", "cancelled", "limit", "secret", "state", "error", "reauth",
            "panic"}

(* Helpers and readers capture stdout alone, with a limit; a command captures both streams or
   none.  Helpers and test-command pass no shutdown receiver. *)
Caller ==
  CASE conf.captured = {"stdout"} -> IF conf.stoppable THEN "reader" ELSE "helper"
    [] OTHER -> IF conf.stoppable THEN "command" ELSE "test"

(* What the stdout that was kept may say: nothing can be made of no output, and output may be
   nothing but line ends. *)
Texts == IF output["stdout"] = 0 THEN {"empty"} ELSE {"empty", "text", "garbled"}

(* Mutant: the reader takes the state from whatever was kept. *)
RunStateCmdPartial(exit, text) ==
  IF exit = "success" /\ text # "garbled" THEN "state" ELSE "error"

(* An exit code is one of a run that completed; the command's output decides nothing. *)
CommandOutcome(exit) ==
  IF result # "completed" THEN result ELSE IF exit = "success" THEN "ok" ELSE "failed"

(* The helper of an account must leave a secret; exit code 78 asks for new authorisation. *)
RunSecretCommand(exit, text) ==
  IF result = "cancelled" THEN "panic"
  ELSE IF result = "completed" /\ exit = "reauth" THEN "reauth"
  ELSE IF result = "completed" /\ exit = "success" /\ text = "text" THEN "secret"
  ELSE "error"

(* An empty state is a state. *)
RunStateCmd(exit, text) ==
  IF result = "completed" /\ exit = "success" /\ text # "garbled" THEN "state" ELSE "error"

Report ==
  /\ pc = "done" /\ answer = "none"
  /\ \E exit \in Exits, text \in Texts :
       answer' = CASE Caller = "helper" -> RunSecretCommand(exit, text)
                   [] Caller = "reader" -> RunStateCmd(exit, text)
                   [] OTHER -> CommandOutcome(exit)
  /\ UNCHANGED vars

CallersInit == Init /\ answer = "none"
CallersNext == Report \/ (Next /\ UNCHANGED answer)
CallersSafety == CallersInit /\ [][CallersNext]_callerVars
CallersSpec == CallersSafety /\ Fairness /\ WF_callerVars(Report)

-----------------------------------------------------------------------------
(* Properties.                                                             *)

CallersTypeOK == ProcessTypeOK /\ answer \in Answers \cup {"none"}

(* A secret is a helper's whole stdout and a state a reader's: no byte of it was cut off, left
   in the pipe or is still to come from a process in the background, and no deadline or
   shutdown ended it early.  A command is said to have succeeded only if nothing of its captured
   output was cut off, and a helper is never cancelled (unreachable! in auth.rs). *)
AnswerIsWhole ==
  /\ answer \in {"secret", "state"} =>
       end = "completed" /\ written["stdout"] = output["stdout"] /\ Writers("stdout") = {}
  /\ answer = "ok" =>
       \A s \in conf.captured : written[s] = output[s] /\ Writers(s) = {}
  /\ answer # "panic"
=============================================================================

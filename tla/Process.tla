------------------------------ MODULE Process -------------------------------
(***************************************************************************)
(* One shell command: run_shell_process_with_streams of src/process.rs,    *)
(* under which configured commands, state_cmd and the auth helpers run.    *)
(*                                                                         *)
(* The shell and the processes it starts in the background share a process *)
(* group, except those that leave it with setsid (Escapees).  Each         *)
(* inherits the captured pipes and may close them.  One task per captured  *)
(* stream reads its pipe, and the calling task waits for the shell, for    *)
(* the deadline, for shutdown and for the readers' word that there is too  *)
(* much output.  Output is counted in units; what it says does not matter. *)
(***************************************************************************)
EXTENDS Naturals, FiniteSets, Sequences

CONSTANTS
  Members,   (* processes the shell may start in its own group *)
  Escapees,  (* processes that leave the group *)
  Limit,     (* max_bytes, in units *)
  MaxOut     (* bound on the units written to each stream *)

Shell == "sh"
Group == {Shell} \cup Members
Procs == Group \cup Escapees
Streams == {"stdout", "stderr"}

ASSUME ProcessAssumption ==
  /\ Limit \in Nat /\ MaxOut \in Nat
  /\ Shell \notin Members \cup Escapees
  /\ Members \cap Escapees = {}

VARIABLES
  conf,      (* captured streams, whether a shutdown receiver was passed *)
  alive,     (* running processes *)
  fresh,     (* processes not started yet *)
  holds,     (* processes that have inherited each pipe and not closed it *)
  unread,    (* units in each pipe *)
  written,   (* units written to each stream so far *)
  reader,    (* each reader task: "absent", "reading", "eof", "toolarge" *)
  output,    (* units each reader has kept *)
  used,      (* SharedOutputLimit::used *)
  limits,    (* PipeLimitExceeded messages not yet received *)
  pc, end,   (* where the calling task is, and how the run ends *)
  expired,   (* the deadline has passed *)
  shutdown,
  result     (* the ShellRun, or "none" *)

procs == <<alive, fresh, holds, unread, written>>
readers == <<reader, output, used, limits>>
vars == <<conf, procs, readers, pc, end, expired, shutdown, result>>

Ends == {"completed", "timedout", "cancelled", "limit"}
Points == {"waiting", "collecting", "terminating", "killing", "draining", "done"}

(* Both streams are captured with a limit, or (auth helpers, state_cmd) only stdout, or none. *)
Init ==
  /\ conf \in [captured : {{}, {"stdout"}, Streams}, stoppable : BOOLEAN]
  /\ alive = {Shell} /\ fresh = Procs \ {Shell}
  /\ holds = [s \in Streams |-> IF s \in conf.captured THEN {Shell} ELSE {}]
  /\ unread = [s \in Streams |-> 0] /\ written = [s \in Streams |-> 0]
  /\ reader = [s \in Streams |-> IF s \in conf.captured THEN "reading" ELSE "absent"]
  /\ output = [s \in Streams |-> 0] /\ used = 0 /\ limits = <<>>
  /\ pc = "waiting" /\ end = "none" /\ result = "none"
  /\ expired = FALSE /\ shutdown = FALSE

-----------------------------------------------------------------------------
(* The command.                                                            *)

(* The processes that can write to stream s. *)
Writers(s) == holds[s] \cap alive

Spawn(q, p) ==
  /\ q \in alive \cap Group
  /\ p \in fresh
  /\ alive' = alive \cup {p} /\ fresh' = fresh \ {p}
  /\ holds' = [s \in Streams |-> IF q \in holds[s] THEN holds[s] \cup {p} ELSE holds[s]]
  /\ UNCHANGED <<conf, unread, written, readers, pc, end, expired, shutdown, result>>

Close(p, s) ==
  /\ p \in Writers(s)
  /\ holds' = [holds EXCEPT ![s] = @ \ {p}]
  /\ UNCHANGED <<conf, alive, fresh, unread, written, readers, pc, end, expired, shutdown, result>>

Write(s) ==
  /\ Writers(s) # {}
  /\ reader[s] = "reading"
  /\ written[s] < MaxOut
  /\ written' = [written EXCEPT ![s] = @ + 1]
  /\ unread' = [unread EXCEPT ![s] = @ + 1]
  /\ UNCHANGED <<conf, alive, fresh, holds, readers, pc, end, expired, shutdown, result>>

(* Of its own accord, on SIGTERM or on SIGPIPE; never, if it chooses so. *)
Exit(p) ==
  /\ p \in alive
  /\ alive' = alive \ {p}
  /\ UNCHANGED <<conf, fresh, holds, unread, written, readers, pc, end, expired, shutdown, result>>

Deadline ==
  /\ ~expired
  /\ expired' = TRUE
  /\ UNCHANGED <<conf, procs, readers, pc, end, shutdown, result>>

Shutdown ==
  /\ ~shutdown
  /\ shutdown' = TRUE
  /\ UNCHANGED <<conf, procs, readers, pc, end, expired, result>>

-----------------------------------------------------------------------------
(* read_pipe.                                                              *)

(* Mutant: the reservation is not capped. *)
ReserveAll(n) == n

(* SharedOutputLimit::reserve. *)
Reserve(n) == IF n <= Limit - used THEN n ELSE Limit - used

(* Mutant: each reader measures its own stream against the limit. *)
ReadSeparately(s) ==
  /\ reader[s] = "reading"
  /\ \E n \in 1..unread[s] :
       LET allowed == IF n <= Limit - output[s] THEN n ELSE Limit - output[s] IN
       /\ unread' = [unread EXCEPT ![s] = @ - n]
       /\ output' = [output EXCEPT ![s] = @ + allowed]
       /\ used' = used
       /\ reader' = [reader EXCEPT ![s] = IF allowed < n THEN "toolarge" ELSE @]
       /\ limits' = IF allowed < n THEN Append(limits, s) ELSE limits
  /\ UNCHANGED <<conf, alive, fresh, holds, written, pc, end, expired, shutdown, result>>

(* Some of what the pipe holds is read and kept as far as the shared limit allows. *)
Read(s) ==
  /\ reader[s] = "reading"
  /\ \E n \in 1..unread[s] :
       LET allowed == Reserve(n) IN
       /\ unread' = [unread EXCEPT ![s] = @ - n]
       /\ output' = [output EXCEPT ![s] = @ + allowed]
       /\ used' = used + allowed
       /\ reader' = [reader EXCEPT ![s] = IF allowed < n THEN "toolarge" ELSE @]
       /\ limits' = IF allowed < n THEN Append(limits, s) ELSE limits
  /\ UNCHANGED <<conf, alive, fresh, holds, written, pc, end, expired, shutdown, result>>

(* End of file: nobody has the writing end any more. *)
ReadEof(s) ==
  /\ reader[s] = "reading"
  /\ unread[s] = 0
  /\ Writers(s) = {}
  /\ reader' = [reader EXCEPT ![s] = "eof"]
  /\ UNCHANGED <<conf, procs, output, used, limits, pc, end, expired, shutdown, result>>

-----------------------------------------------------------------------------
(* wait_for_child and collect_after_child_exit.                            *)

(* try_wait finds that the shell has exited, and reaps it. *)
ChildExited ==
  /\ pc = "waiting"
  /\ Shell \notin alive
  /\ pc' = "collecting" /\ end' = "completed"
  /\ UNCHANGED <<conf, procs, readers, expired, shutdown, result>>

(* terminate_process_group begins: SIGTERM to the group, which may ignore it. *)
Terminate(why) ==
  /\ pc \in {"waiting", "collecting"}
  /\ pc' = "terminating" /\ end' = why
  /\ UNCHANGED <<conf, procs, expired, shutdown, result>>

TimeOut == expired /\ Terminate("timedout") /\ UNCHANGED readers

Cancel == conf.stoppable /\ shutdown /\ Terminate("cancelled") /\ UNCHANGED readers

ExceedLimit ==
  /\ limits # <<>>
  /\ limits' = Tail(limits)
  /\ Terminate("limit")
  /\ UNCHANGED <<reader, output, used>>

KillGroup == alive' = alive \ Group

(* Mutant: the shell is gone after SIGTERM, so the group is taken to be gone too. *)
ShellGoneOnly ==
  /\ pc = "terminating"
  /\ Shell \notin alive
  /\ pc' = "draining"
  /\ UNCHANGED <<conf, procs, readers, end, expired, shutdown, result>>

(* The shell is gone within the grace time, or was before: SIGKILL to what is left. *)
ShellGone ==
  /\ pc = "terminating"
  /\ Shell \notin alive
  /\ KillGroup
  /\ pc' = "draining"
  /\ UNCHANGED <<conf, fresh, holds, unread, written, readers, end, expired, shutdown, result>>

(* The grace time is over: SIGKILL to the group. *)
GraceOver ==
  /\ pc = "terminating"
  /\ Shell \in alive
  /\ KillGroup
  /\ pc' = "killing"
  /\ UNCHANGED <<conf, fresh, holds, unread, written, readers, end, expired, shutdown, result>>

(* The shell is reaped; SIGKILL once more for what was forked meanwhile. *)
Reap ==
  /\ pc = "killing"
  /\ Shell \notin alive
  /\ KillGroup
  /\ pc' = "draining"
  /\ UNCHANGED <<conf, fresh, holds, unread, written, readers, end, expired, shutdown, result>>

TooLarge == \E s \in Streams : reader[s] = "toolarge"

(* Mutant: an end other than the limit hides that output was cut off. *)
FinishShellRunByEnd == end

(* finish_shell_run: output cut off wins over every other end. *)
FinishShellRun == IF end = "limit" \/ TooLarge THEN "limit" ELSE end

(* collect_captured_output: both readers are done. *)
Collect ==
  /\ pc \in {"collecting", "draining"}
  /\ \A s \in Streams : reader[s] # "reading"
  /\ pc' = "done"
  /\ result' = FinishShellRun
  /\ UNCHANGED <<conf, procs, readers, end, expired, shutdown>>

Terminated == pc = "done" /\ UNCHANGED vars

CallerStep ==
  ChildExited \/ TimeOut \/ Cancel \/ ExceedLimit \/ ShellGone \/ GraceOver \/ Reap \/ Collect

ReaderStep(s) == Read(s) \/ ReadEof(s)

Next ==
  \/ \E p \in Procs : Exit(p)
  \/ \E p, q \in Procs : Spawn(q, p)
  \/ \E p \in Procs, s \in Streams : Close(p, s)
  \/ \E s \in Streams : Write(s) \/ ReaderStep(s)
  \/ Deadline \/ Shutdown
  \/ CallerStep
  \/ Terminated

(* The tasks are scheduled and the deadline comes.  Nothing makes a process exit. *)
Fairness ==
  /\ WF_vars(CallerStep)
  /\ \A s \in Streams : WF_vars(ReaderStep(s))
  /\ WF_vars(Deadline)

Safety == Init /\ [][Next]_vars
Spec == Safety /\ Fairness

-----------------------------------------------------------------------------
(* Properties.                                                             *)

(* Every variable has its type; the shared budget is never overdrawn. *)
ProcessTypeOK ==
  /\ conf \in [captured : SUBSET Streams, stoppable : BOOLEAN]
  /\ alive \in SUBSET Procs /\ fresh \in SUBSET Procs
  /\ holds \in [Streams -> SUBSET Procs]
  /\ unread \in [Streams -> Nat] /\ written \in [Streams -> Nat]
  /\ reader \in [Streams -> {"absent", "reading", "eof", "toolarge"}]
  /\ output \in [Streams -> Nat] /\ used \in 0..Limit
  /\ limits \in Seq(Streams)
  /\ pc \in Points /\ end \in Ends \cup {"none"}
  /\ expired \in BOOLEAN /\ shutdown \in BOOLEAN
  /\ result \in Ends \cup {"none"}

(* What is kept of both streams together never exceeds max_bytes, and output is only cut off
   when the limit is used up: the two readers share one budget. *)
CapturedWithinLimit ==
  /\ output["stdout"] + output["stderr"] <= Limit
  /\ TooLarge => output["stdout"] + output["stderr"] = Limit

(* A run whose output was cut off is never taken for completed, timed out or cancelled, in
   whatever order the shell's exit and the readers' message are seen; and a run is only said
   to have exceeded the limit when it did. *)
OverflowReported == pc = "done" => (result = "limit" <=> TooLarge)

(* A run that timed out or was cancelled leaves no process of its group behind. *)
NoGroupLeft == pc = "done" /\ end \in {"timedout", "cancelled"} => alive \cap Group = {}

(* What a run is said to have come to has happened: nothing is called a timeout before the deadline,
   a cancellation without a shutdown, or completed while the shell lives (finish_shell_run,
   process.rs:247). *)
ResultHasCause ==
  /\ result = "timedout" => expired
  /\ result = "cancelled" => conf.stoppable /\ shutdown
  /\ result = "completed" => Shell \notin alive /\ ~TooLarge

(* Once the group is killed a run waits for nobody but processes that have left the group with a
   captured pipe: the half of BoundedRuntime that is safety (terminate_process_group,
   process.rs:568). *)
HeldByEscapeesOnly ==
  pc \in {"killing", "draining"} => \A s \in Streams : Writers(s) \subseteq Escapees

(* docs/design.md: commands "have a bounded runtime": once the deadline has passed the run
   ends. *)
BoundedRuntime == expired ~> (pc = "done")

(* docs/operations.md: on timeout, output limit or shutdown the group is terminated. *)
LimitLeavesNoGroup == pc = "done" /\ result = "limit" => alive \cap Group = {}
=============================================================================

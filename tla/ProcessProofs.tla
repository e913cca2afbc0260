--------------------------- MODULE ProcessProofs ----------------------------
(***************************************************************************)
(* The safety of one shell command, for any processes it starts, any limit *)
(* and any amount of output.  The invariant relates what the two readers,  *)
(* the shared budget and the calling task each know:                       *)
(*   Budget     used is what the readers keep together, and it is all      *)
(*              spent once a reader has cut something off;                 *)
(*   Knows      the calling task has heard of too much output only if some *)
(*              reader has;                                                *)
(*   Cleared    from the SIGKILL on, nothing of the group is left.         *)
(*                                                                         *)
(* And what a caller goes on with is the whole of what was written.  On    *)
(* top of that invariant, the argument follows the bytes:                  *)
(*   Known     nobody holds a pipe before it is started, and only captured *)
(*             streams have readers;                                       *)
(*   Flow      what was written is kept or still in the pipe, unless the   *)
(*             reader has cut something off;                               *)
(*   Ended     after the end of a pipe nobody can write to it any more;    *)
(*   Answered  an answer that claims success comes of a completed run.     *)
(***************************************************************************)
EXTENDS Callers, TLAPS

Budget ==
  /\ used = output["stdout"] + output["stderr"]
  /\ TooLarge => used = Limit

Knows ==
  /\ limits # <<>> => TooLarge
  /\ end = "limit" => TooLarge
  /\ pc = "done" => \A s \in Streams : reader[s] # "reading"
  /\ pc = "done" => result = FinishShellRun

Cleared ==
  /\ pc # "waiting" => end \in Ends
  /\ pc = "collecting" => end = "completed"
  /\ pc \in {"killing", "draining"} => alive \cap Group = {}
  /\ pc = "done" /\ end # "completed" => alive \cap Group = {}

ProcessInv == ProcessTypeOK /\ Budget /\ Knows /\ Cleared

(* The initial states satisfy the invariant. *)
LEMMA ProcessInit == Init => ProcessInv
<1> SUFFICES ASSUME Init PROVE ProcessInv
    OBVIOUS
<1> USE ProcessAssumption DEF Init
<1>1. \A s \in Streams : reader[s] \in {"reading", "absent"} OBVIOUS
<1>2. ~TooLarge BY <1>1 DEF TooLarge
<1>3. ProcessTypeOK
    <2>1. conf \in [captured : SUBSET Streams, stoppable : BOOLEAN] BY DEF Streams
    <2>2. Shell \in Procs BY DEF Procs, Group
    <2>3. alive \in SUBSET Procs /\ fresh \in SUBSET Procs /\ holds \in [Streams -> SUBSET Procs]
        BY <2>2
    <2>4. used \in 0..Limit OBVIOUS
    <2>5. limits \in Seq(Streams) OBVIOUS
    <2>6. pc \in Points /\ end \in Ends \cup {"none"} /\ result \in Ends \cup {"none"}
        BY DEF Points, Ends
    <2>7. reader \in [Streams -> {"absent", "reading", "eof", "toolarge"}] OBVIOUS
    <2> QED BY <2>1, <2>3, <2>4, <2>5, <2>6, <2>7 DEF ProcessTypeOK
<1>4. Budget BY <1>2 DEF Budget, Streams
<1>5. Knows BY <1>2 DEF Knows
<1>6. Cleared BY DEF Cleared
<1> QED BY <1>3, <1>4, <1>5, <1>6 DEF ProcessInv

(* What a read takes from the budget is there, and is less than asked for only if it is the
   rest. *)
LEMMA ReserveBounds ==
  ASSUME ProcessTypeOK, NEW n \in Nat
  PROVE  /\ Reserve(n) \in Nat /\ Reserve(n) <= n /\ used + Reserve(n) <= Limit
         /\ Reserve(n) < n => used + Reserve(n) = Limit
BY ProcessAssumption DEF ProcessTypeOK, Reserve

(* What is kept of one stream counts in the sum of both. *)
LEMMA OneMore ==
  ASSUME NEW f \in [Streams -> Nat], NEW s \in Streams, NEW m \in Nat
  PROVE  /\ [f EXCEPT ![s] = @ + m] \in [Streams -> Nat]
         /\ [f EXCEPT ![s] = @ + m]["stdout"] + [f EXCEPT ![s] = @ + m]["stderr"]
              = (f["stdout"] + f["stderr"]) + m
<1> DEFINE g == [f EXCEPT ![s] = @ + m]
<1>1. f["stdout"] \in Nat /\ f["stderr"] \in Nat /\ g \in [Streams -> Nat]
    BY DEF Streams
<1>2. \/ g["stdout"] = f["stdout"] + m /\ g["stderr"] = f["stderr"]
      \/ g["stderr"] = f["stderr"] + m /\ g["stdout"] = f["stdout"]
    BY DEF Streams
<1>3. \A a, b \in Nat : (a + m) + b = (a + b) + m /\ a + (b + m) = (a + b) + m
    OBVIOUS
<1>4. g["stdout"] + g["stderr"] = (f["stdout"] + f["stderr"]) + m
    <2> HIDE DEF g
    <2> QED BY <1>1, <1>2, <1>3
<1> QED BY <1>1, <1>4

(* Reading keeps the invariant. *)
LEMMA ReadStep ==
  ASSUME ProcessInv, NEW s \in Streams, Read(s)
  PROVE  ProcessInv'
<1>p. PICK n \in 1..unread[s] :
       /\ unread' = [unread EXCEPT ![s] = @ - n]
       /\ output' = [output EXCEPT ![s] = @ + Reserve(n)]
       /\ used' = used + Reserve(n)
       /\ reader' = [reader EXCEPT ![s] = IF Reserve(n) < n THEN "toolarge" ELSE @]
       /\ limits' = IF Reserve(n) < n THEN Append(limits, s) ELSE limits
    BY DEF Read
<1>0. /\ reader[s] = "reading"
      /\ UNCHANGED <<conf, alive, fresh, holds, written, pc, end, expired, shutdown, result>>
    BY DEF Read
<1>1. n \in Nat /\ n <= unread[s] BY DEF ProcessInv, ProcessTypeOK
<1>2. /\ Reserve(n) \in Nat /\ Reserve(n) <= n /\ used + Reserve(n) <= Limit
      /\ Reserve(n) < n => used + Reserve(n) = Limit
    BY <1>1, ReserveBounds DEF ProcessInv
<1>8. output \in [Streams -> Nat] BY DEF ProcessInv, ProcessTypeOK
<1>10. output' = [output EXCEPT ![s] = @ + Reserve(n)]
    BY <1>p
<1>9. /\ output' \in [Streams -> Nat]
      /\ output'["stdout"] + output'["stderr"] = (output["stdout"] + output["stderr"]) + Reserve(n)
    BY <1>2, <1>8, <1>10, OneMore
<1> USE <1>0, <1>p DEF ProcessInv, ProcessTypeOK
<1>3. ProcessTypeOK'
    <2>1. unread' \in [Streams -> Nat]
        <3>1. unread[s] \in Nat /\ unread[s] - n \in Nat BY <1>1
        <3> QED BY <3>1
    <2>3. used' \in 0..Limit BY <1>2, ProcessAssumption
    <2>4. reader' \in [Streams -> {"absent", "reading", "eof", "toolarge"}] OBVIOUS
    <2>5. limits' \in Seq(Streams)
        <3>1. limits' = limits \/ limits' = Append(limits, s) BY Zenon
        <3> QED BY <3>1
    <2> QED BY <1>9, <2>1, <2>3, <2>4, <2>5
<1>4. TooLarge' <=> TooLarge \/ Reserve(n) < n
    BY DEF TooLarge
<1>5. Budget'
    <2>2. used' = output'["stdout"] + output'["stderr"] BY <1>9 DEF Budget
    <2>3. ~TooLarge /\ ~(Reserve(n) < n) => ~TooLarge' BY <1>4
    <2>4. TooLarge => used' = Limit BY <1>2, ProcessAssumption DEF Budget
    <2> QED BY <1>2, <1>4, <2>2, <2>4 DEF Budget
<1>6. Knows'
    <2>1. pc # "done" BY DEF Knows
    <2> QED BY <1>4, <2>1 DEF Knows
<1>7. Cleared' BY DEF Cleared
<1> QED BY <1>3, <1>5, <1>6, <1>7

(* So does every step of the command, the deadline and the shutdown. *)
LEMMA CommandStep ==
  ASSUME ProcessInv,
         \/ \E p \in Procs : Exit(p)
         \/ \E p, q \in Procs : Spawn(q, p)
         \/ \E p \in Procs, s \in Streams : Close(p, s)
         \/ \E s \in Streams : Write(s)
         \/ Deadline \/ Shutdown
  PROVE  ProcessInv'
<1> USE DEF ProcessInv, readers
<1>1. /\ UNCHANGED <<conf, readers, pc, end, result>>
      /\ alive' \cap Group \subseteq alive \cap Group \/ alive \cap Group # {}
    BY DEF Exit, Spawn, Close, Write, Deadline, Shutdown, procs
<1>2. ProcessTypeOK'
    <2> USE <1>1 DEF ProcessTypeOK
    <2>1. ASSUME NEW p \in Procs, Exit(p) PROVE ProcessTypeOK' BY <2>1 DEF Exit
    <2>2. ASSUME NEW p \in Procs, NEW q \in Procs, Spawn(q, p) PROVE ProcessTypeOK'
        BY <2>2 DEF Spawn
    <2>3. ASSUME NEW p \in Procs, NEW s \in Streams, Close(p, s) PROVE ProcessTypeOK'
        BY <2>3 DEF Close
    <2>4. ASSUME NEW s \in Streams, Write(s) PROVE ProcessTypeOK'
        <3>1. UNCHANGED <<conf, alive, fresh, holds, reader, output, used, limits, pc, end, expired, shutdown, result>>
            BY <2>4 DEF Write
        <3>2. written' \in [Streams -> Nat]
            <4>1. written[s] + 1 \in Nat /\ written' = [written EXCEPT ![s] = @ + 1] BY <2>4 DEF Write
            <4> QED BY <4>1
        <3>3. unread' \in [Streams -> Nat]
            <4>1. unread[s] + 1 \in Nat /\ unread' = [unread EXCEPT ![s] = @ + 1] BY <2>4 DEF Write
            <4> QED BY <4>1
        <3> QED BY <3>1, <3>2, <3>3
    <2>5. CASE Deadline \/ Shutdown BY <2>5 DEF Deadline, Shutdown, procs
    <2> QED BY <2>1, <2>2, <2>3, <2>4, <2>5
<1>3. TooLarge' <=> TooLarge BY <1>1 DEF TooLarge
<1>4. Budget' BY <1>1, <1>3 DEF Budget
<1>5. Knows' BY <1>1, <1>3 DEF Knows, FinishShellRun
<1>6. Cleared' BY <1>1 DEF Cleared
<1> QED BY <1>2, <1>4, <1>5, <1>6

(* A reader that meets the end of its pipe learns nothing about the limit. *)
LEMMA EofStep ==
  ASSUME ProcessInv, NEW s \in Streams, ReadEof(s)
  PROVE  ProcessInv'
<1> USE DEF ProcessInv, procs, ReadEof
<1>1. ProcessTypeOK' BY DEF ProcessTypeOK
<1>2. TooLarge' <=> TooLarge BY DEF TooLarge, ProcessTypeOK
<1>3. Budget' BY <1>2 DEF Budget
<1>4. Knows' BY <1>2 DEF Knows
<1>5. Cleared' BY DEF Cleared
<1> QED BY <1>1, <1>3, <1>4, <1>5

(* The calling task: each way out of the waits either has the shell's exit or clears the
   group before it collects the output. *)
LEMMA CallerStepKeeps ==
  ASSUME ProcessInv, CallerStep
  PROVE  ProcessInv'
<1> USE DEF ProcessInv, procs, readers
<1>1. CASE ChildExited
    <2>1. UNCHANGED <<reader, output, used, limits, alive, result>> BY <1>1 DEF ChildExited
    <2>2. ProcessTypeOK' BY <1>1 DEF ChildExited, ProcessTypeOK, Points, Ends
    <2>3. TooLarge' <=> TooLarge BY <2>1 DEF TooLarge
    <2>4. Budget' BY <2>1, <2>3 DEF Budget
    <2>5. Knows' BY <1>1, <2>3 DEF ChildExited, Knows
    <2>6. Cleared' BY <1>1 DEF ChildExited, Cleared, Ends
    <2> QED BY <2>2, <2>4, <2>5, <2>6
<1>2. CASE TimeOut \/ Cancel
    <2>1. UNCHANGED <<reader, output, used, limits, alive, result>>
        BY <1>2 DEF TimeOut, Cancel, Terminate
    <2>2. ProcessTypeOK' BY <1>2 DEF TimeOut, Cancel, Terminate, ProcessTypeOK, Points, Ends
    <2>3. TooLarge' <=> TooLarge BY <2>1 DEF TooLarge
    <2>4. Budget' BY <2>1, <2>3 DEF Budget
    <2>5. Knows' BY <1>2, <2>1, <2>3 DEF TimeOut, Cancel, Terminate, Knows
    <2>6. Cleared' BY <1>2 DEF TimeOut, Cancel, Terminate, Cleared, Ends
    <2> QED BY <2>2, <2>4, <2>5, <2>6
<1>3. CASE ExceedLimit
    <2>1. UNCHANGED <<reader, output, used, alive, result>>
        BY <1>3 DEF ExceedLimit, Terminate
    <2>2. ProcessTypeOK'
        <3>1. limits' \in Seq(Streams) BY <1>3 DEF ExceedLimit, ProcessTypeOK
        <3>2. pc' \in Points /\ end' \in Ends BY <1>3 DEF ExceedLimit, Terminate, Points, Ends
        <3>3. UNCHANGED <<conf, alive, fresh, holds, unread, written, reader, output, used,
                          expired, shutdown, result>>
            BY <1>3 DEF ExceedLimit, Terminate, procs
        <3> QED BY <3>1, <3>2, <3>3 DEF ProcessTypeOK
    <2>3. TooLarge' <=> TooLarge BY <2>1 DEF TooLarge
    <2>4. TooLarge BY <1>3 DEF ExceedLimit, Knows
    <2>5. Budget' BY <2>1, <2>3 DEF Budget
    <2>6. Knows' BY <1>3, <2>3, <2>4 DEF ExceedLimit, Terminate, Knows
    <2>7. Cleared' BY <1>3 DEF ExceedLimit, Terminate, Cleared, Ends
    <2> QED BY <2>2, <2>5, <2>6, <2>7
<1>4. CASE ShellGone \/ GraceOver \/ Reap
    <2>1. UNCHANGED <<reader, output, used, limits, end, result>>
        BY <1>4 DEF ShellGone, GraceOver, Reap
    <2>2. alive' = alive \ Group /\ pc' \in {"killing", "draining"}
        BY <1>4 DEF ShellGone, GraceOver, Reap, KillGroup
    <2>3. ProcessTypeOK'
        BY <1>4 DEF ShellGone, GraceOver, Reap, KillGroup, ProcessTypeOK, Points
    <2>4. TooLarge' <=> TooLarge BY <2>1 DEF TooLarge
    <2>5. Budget' BY <2>1, <2>4 DEF Budget
    <2>6. Knows' BY <2>1, <2>2, <2>4 DEF Knows
    <2>7. Cleared'
        <3>1. end \in Ends BY <1>4 DEF ShellGone, GraceOver, Reap, Cleared
        <3> QED BY <2>1, <2>2, <3>1 DEF Cleared
    <2> QED BY <2>3, <2>5, <2>6, <2>7
<1>5. CASE Collect
    <2>1. UNCHANGED <<reader, output, used, limits, alive, end>> /\ pc' = "done"
        BY <1>5 DEF Collect
    <2>2. FinishShellRun \in Ends
        <3>1. end \in Ends BY <1>5 DEF Collect, Cleared
        <3> QED BY <3>1 DEF FinishShellRun, Ends
    <2>3. ProcessTypeOK' BY <1>5, <2>2 DEF Collect, ProcessTypeOK, Points
    <2>4. TooLarge' <=> TooLarge BY <2>1 DEF TooLarge
    <2>5. Budget' BY <2>1, <2>4 DEF Budget
    <2>6. Knows' BY <1>5, <2>4 DEF Collect, Knows, FinishShellRun
    <2>7. Cleared' BY <1>5 DEF Collect, Cleared
    <2> QED BY <2>3, <2>5, <2>6, <2>7
<1> QED BY <1>1, <1>2, <1>3, <1>4, <1>5 DEF CallerStep

(* The invariant holds throughout. *)
LEMMA ProcessInvariant == Safety => []ProcessInv
<1>1. ProcessInv /\ [Next]_vars => ProcessInv'
    <2> SUFFICES ASSUME ProcessInv, [Next]_vars PROVE ProcessInv'
        OBVIOUS
    <2>1. CASE UNCHANGED vars
        <3> USE <2>1 DEF vars, procs, readers
        <3>1. ProcessTypeOK' BY DEF ProcessInv, ProcessTypeOK
        <3>2. Budget' /\ Knows' BY DEF ProcessInv, Budget, Knows, TooLarge, FinishShellRun
        <3>3. Cleared' BY DEF ProcessInv, Cleared
        <3> QED BY <3>1, <3>2, <3>3 DEF ProcessInv
    <2> QED BY <2>1, CommandStep, ReadStep, EofStep, CallerStepKeeps
            DEF Next, ReaderStep, Terminated
<1> QED BY <1>1, ProcessInit, PTL DEF Safety

(* Every variable of a run keeps its type, and SharedOutputLimit is never overdrawn. *)
THEOREM ProcessTypeCorrect == Safety => []ProcessTypeOK
BY ProcessInvariant, PTL DEF ProcessInv

(* The two readers together never keep more than max_bytes, and cut off nothing before. *)
THEOREM ProcessWithinLimit == Safety => []CapturedWithinLimit
<1>1. ProcessInv => CapturedWithinLimit
    BY ProcessAssumption DEF ProcessInv, ProcessTypeOK, Budget, CapturedWithinLimit
<1> QED BY <1>1, ProcessInvariant, PTL

(* A run is reported to have exceeded its limit exactly if it has, whichever of the shell's
   exit, the deadline, the shutdown and the readers' messages is seen first. *)
THEOREM ProcessReportsOverflow == Safety => []OverflowReported
<1>1. ProcessInv => OverflowReported
    BY DEF ProcessInv, Knows, OverflowReported, FinishShellRun
<1> QED BY <1>1, ProcessInvariant, PTL

(* A run that timed out or was cancelled leaves nothing of its process group. *)
THEOREM ProcessLeavesNoGroup == Safety => []NoGroupLeft
<1>1. ProcessInv => NoGroupLeft
    BY DEF ProcessInv, Cleared, NoGroupLeft
<1> QED BY <1>1, ProcessInvariant, PTL

(* Only who has left the group can keep a run from ending once it has been killed. *)
THEOREM ProcessHeldByEscapees == Safety => []HeldByEscapeesOnly
<1>1. ProcessInv => HeldByEscapeesOnly
    BY DEF ProcessInv, ProcessTypeOK, Cleared, HeldByEscapeesOnly, Writers, Procs
<1> QED BY <1>1, ProcessInvariant, PTL

(* Every end has its cause, and causes last: the deadline and the shutdown are not taken back, the
   shell does not come back to life. *)
Caused ==
  /\ Shell \notin fresh
  /\ end = "timedout" => expired
  /\ end = "cancelled" => conf.stoppable /\ shutdown
  /\ end = "completed" => Shell \notin alive

LEMMA CausedStep ==
  ASSUME Caused, [Next]_vars
  PROVE  Caused'
<1> USE DEF Caused, procs, readers
<1>1. ASSUME NEW p \in Procs, Exit(p) PROVE Caused'
  BY <1>1 DEF Exit
<1>2. ASSUME NEW p \in Procs, NEW q \in Procs, Spawn(q, p) PROVE Caused'
  BY <1>2 DEF Spawn
<1>3. ASSUME NEW p \in Procs, NEW s \in Streams, Close(p, s) PROVE Caused'
  BY <1>3 DEF Close
<1>4. ASSUME NEW s \in Streams, Write(s) \/ Read(s) \/ ReadEof(s) PROVE Caused'
  BY <1>4 DEF Write, Read, ReadEof
<1>5. CASE Deadline \/ Shutdown
  BY <1>5 DEF Deadline, Shutdown
<1>6. CASE ChildExited
  BY <1>6 DEF ChildExited
<1>7. CASE TimeOut \/ Cancel \/ ExceedLimit
  BY <1>7 DEF TimeOut, Cancel, ExceedLimit, Terminate
<1>8. CASE ShellGone \/ GraceOver \/ Reap
  BY <1>8 DEF ShellGone, GraceOver, Reap, KillGroup
<1>9. CASE Collect \/ Terminated \/ UNCHANGED vars
  BY <1>9 DEF Collect, Terminated, vars
<1> QED BY <1>1, <1>2, <1>3, <1>4, <1>5, <1>6, <1>7, <1>8, <1>9 DEF Next, ReaderStep, CallerStep

(* No result is reported before done. *)
Unreported == pc # "done" => result = "none"

LEMMA UnreportedStep ==
  ASSUME Unreported, [Next]_vars
  PROVE  Unreported'
BY DEF Unreported, Next, Exit, Spawn, Close, Write, ReaderStep, Read, ReadEof, Deadline, Shutdown,
       CallerStep, ChildExited, TimeOut, Cancel, ExceedLimit, Terminate, ShellGone, GraceOver, Reap,
       Collect, Terminated, vars

(* Whatever is seen first, a run is not given an end that has not happened. *)
THEOREM ProcessResultHasCause == Safety => []ResultHasCause
<1>1. Init => Caused /\ Unreported
  BY ProcessAssumption DEF Init, Caused, Unreported
<1>2. ProcessInv /\ Caused /\ Unreported => ResultHasCause
  BY DEF ProcessInv, Knows, Caused, Unreported, ResultHasCause, FinishShellRun
<1> QED BY <1>1, <1>2, ProcessInvariant, CausedStep, UnreportedStep, PTL DEF Safety

-----------------------------------------------------------------------------
(* The callers.                                                            *)

Known ==
  /\ \A s \in Streams : holds[s] \cap fresh = {}
  /\ \A s \in Streams : s \in conf.captured <=> reader[s] # "absent"
  /\ conf.captured \in {{}, {"stdout"}, Streams}
  /\ end = "cancelled" => conf.stoppable

Flow ==
  \A s \in Streams : reader[s] \in {"reading", "eof"} => written[s] = output[s] + unread[s]

Ended == \A s \in Streams : reader[s] = "eof" => unread[s] = 0 /\ Writers(s) = {}

Answered ==
  /\ answer \in {"secret", "state", "ok"} => pc = "done" /\ result = "completed"
  /\ answer \in {"secret", "state"} => conf.captured = {"stdout"}
  /\ answer # "panic"

CallersInv == Known /\ Flow /\ Ended /\ Answered

(* The initial states satisfy the invariant. *)
LEMMA CallersStart == CallersInit => CallersInv
<1> SUFFICES ASSUME CallersInit PROVE CallersInv
    OBVIOUS
<1> USE ProcessAssumption DEF CallersInit, Init
<1>1. Known
    <2>1. \A s \in Streams : holds[s] \subseteq {Shell} OBVIOUS
    <2>2. fresh \cap {Shell} = {} OBVIOUS
    <2>3. conf.captured \in {{}, {"stdout"}, Streams} OBVIOUS
    <2>4. \A s \in Streams : s \in conf.captured <=> reader[s] # "absent" OBVIOUS
    <2> QED BY <2>1, <2>2, <2>3, <2>4 DEF Known
<1>2. Flow BY DEF Flow
<1>3. Ended BY DEF Ended
<1>4. Answered BY DEF Answered
<1> QED BY <1>1, <1>2, <1>3, <1>4 DEF CallersInv

(* Every process that starts gets the pipes of one that is running, so a pipe nobody can write
   to stays one. *)
LEMMA WritersShrink ==
  ASSUME ProcessTypeOK, Known, NEW s \in Streams, Writers(s) = {},
         \/ \E p \in Procs : Exit(p)
         \/ \E p, q \in Procs : Spawn(q, p)
         \/ \E p \in Procs, t \in Streams : Close(p, t)
  PROVE  Writers(s)' = {}
<1> USE DEF ProcessTypeOK, Writers
<1>1. ASSUME NEW p \in Procs, Exit(p) PROVE Writers(s)' = {} BY <1>1 DEF Exit
<1>2. ASSUME NEW p \in Procs, NEW q \in Procs, Spawn(q, p) PROVE Writers(s)' = {}
    <2>1. q \in alive /\ p \in fresh /\ alive' = alive \cup {p} BY <1>2 DEF Spawn
    <2>2. q \notin holds[s] /\ p \notin holds[s] BY <2>1 DEF Known
    <2>3. holds'[s] = holds[s] BY <1>2, <2>2 DEF Spawn
    <2> QED BY <2>1, <2>2, <2>3
<1>3. ASSUME NEW p \in Procs, NEW t \in Streams, Close(p, t) PROVE Writers(s)' = {}
    BY <1>3 DEF Close
<1> QED BY <1>1, <1>2, <1>3

(* The command's own steps. *)
LEMMA CommandFlows ==
  ASSUME ProcessInv, CallersInv, UNCHANGED answer,
         \/ \E p \in Procs : Exit(p)
         \/ \E p, q \in Procs : Spawn(q, p)
         \/ \E p \in Procs, s \in Streams : Close(p, s)
         \/ \E s \in Streams : Write(s)
         \/ Deadline \/ Shutdown
  PROVE  CallersInv'
<1> USE DEF CallersInv, readers, procs
<1>0. ProcessTypeOK BY DEF ProcessInv
<1>1. /\ UNCHANGED <<conf, readers, pc, end, result, answer>>
      /\ fresh' \subseteq fresh
    BY DEF Exit, Spawn, Close, Write, Deadline, Shutdown
<1>2. \A s \in Streams : holds'[s] \cap fresh' = {}
    <2> USE <1>0 DEF ProcessTypeOK, Known
    <2>1. ASSUME NEW p \in Procs, Exit(p) PROVE \A s \in Streams : holds'[s] \cap fresh' = {}
        BY <2>1 DEF Exit
    <2>2. ASSUME NEW p \in Procs, NEW q \in Procs, Spawn(q, p)
          PROVE \A s \in Streams : holds'[s] \cap fresh' = {}
        BY <2>2 DEF Spawn
    <2>3. ASSUME NEW p \in Procs, NEW t \in Streams, Close(p, t)
          PROVE \A s \in Streams : holds'[s] \cap fresh' = {}
        BY <2>3 DEF Close
    <2>4. CASE (\E s \in Streams : Write(s)) \/ Deadline \/ Shutdown
        BY <2>4 DEF Write, Deadline, Shutdown
    <2> QED BY <2>1, <2>2, <2>3, <2>4
<1>3. Known' BY <1>1, <1>2 DEF Known
<1>4. Answered' BY <1>1 DEF Answered
<1>5. CASE \E s \in Streams : Write(s)
    <2> PICK s \in Streams : Write(s) BY <1>5
    <2> USE <1>0 DEF ProcessTypeOK, Write
    <2>1. Flow'
        <3> SUFFICES ASSUME NEW t \in Streams, reader[t] \in {"reading", "eof"}
                     PROVE  written'[t] = output[t] + unread'[t]
            BY DEF Flow, readers
        <3>1. written[t] = output[t] + unread[t] BY DEF Flow
        <3>2. output[t] \in Nat /\ unread[t] \in Nat /\ written[t] \in Nat OBVIOUS
        <3>3. CASE t = s
            <4>1. written'[t] = written[t] + 1 /\ unread'[t] = unread[t] + 1 BY <3>3
            <4> QED BY <3>1, <3>2, <4>1
        <3>4. CASE t # s
            <4>1. written'[t] = written[t] /\ unread'[t] = unread[t] BY <3>4
            <4> QED BY <3>1, <4>1
        <3> QED BY <3>3, <3>4
    <2>2. UNCHANGED <<reader, holds, alive>> /\ \A t \in Streams : t # s => unread'[t] = unread[t]
        BY DEF readers
    <2>3. reader[s] # "eof" OBVIOUS
    <2>4. Ended' BY <2>2, <2>3 DEF Ended, Writers
    <2> QED BY <2>1, <2>4, <1>3, <1>4
<1>6. CASE Deadline \/ Shutdown
    <2>1. Flow' /\ Ended' BY <1>6 DEF Deadline, Shutdown, Flow, Ended, Writers
    <2> QED BY <2>1, <1>3, <1>4
<1>7. CASE \/ \E p \in Procs : Exit(p)
           \/ \E p, q \in Procs : Spawn(q, p)
           \/ \E p \in Procs, s \in Streams : Close(p, s)
    <2>1. UNCHANGED <<unread, written>> BY <1>7 DEF Exit, Spawn, Close
    <2>2. Flow' BY <1>1, <2>1 DEF Flow
    <2>3. \A s \in Streams : Writers(s) = {} => Writers(s)' = {} BY <1>0, <1>7, WritersShrink
    <2>4. Ended' BY <1>1, <2>1, <2>3 DEF Ended
    <2> QED BY <2>2, <2>4, <1>3, <1>4
<1> QED BY <1>5, <1>6, <1>7

(* A reader keeps all it reads or is done with the pipe. *)
LEMMA ReaderFlows ==
  ASSUME ProcessInv, CallersInv, UNCHANGED answer, NEW s \in Streams, ReaderStep(s)
  PROVE  CallersInv'
<1> USE DEF CallersInv
<1>0. ProcessTypeOK BY DEF ProcessInv
<1>1. /\ reader[s] = "reading"
      /\ UNCHANGED <<conf, alive, fresh, holds, written, pc, end, result, answer>>
    BY DEF ReaderStep, Read, ReadEof, procs
<1>2. \E way \in {"reading", "eof", "toolarge"} : reader' = [reader EXCEPT ![s] = way]
    BY <1>1 DEF ReaderStep, Read, ReadEof
<1>3. Known'
    <2>1. \A r \in Streams : reader'[r] # "absent" <=> reader[r] # "absent"
        BY <1>0, <1>1, <1>2 DEF ProcessTypeOK
    <2>2. UNCHANGED <<conf, fresh, holds, end>> BY <1>1
    <2> QED BY <2>1, <2>2 DEF Known
<1>4. Answered' BY <1>1 DEF Answered
<1>5. CASE Read(s)
    <2> PICK n \in 1..unread[s] :
           /\ unread' = [unread EXCEPT ![s] = @ - n]
           /\ output' = [output EXCEPT ![s] = @ + Reserve(n)]
           /\ reader' = [reader EXCEPT ![s] = IF Reserve(n) < n THEN "toolarge" ELSE @]
        BY <1>5 DEF Read
    <2> USE <1>0 DEF ProcessTypeOK
    <2>1. n \in Nat /\ n <= unread[s] OBVIOUS
    <2>2. Reserve(n) \in Nat /\ Reserve(n) <= n BY <2>1, ReserveBounds
    <2> HIDE DEF Reserve
    <2>3. \A r \in Streams : reader'[r] \in {"reading", "eof"} => written[r] = output'[r] + unread'[r]
        <3>1. CASE Reserve(n) < n
            <4>1. reader'[s] = "toolarge" BY <3>1
            <4>2. \A r \in Streams \ {s} :
                    output'[r] = output[r] /\ unread'[r] = unread[r] /\ reader'[r] = reader[r]
                OBVIOUS
            <4> QED BY <4>1, <4>2 DEF Flow
        <3>2. CASE Reserve(n) = n
            <4>1. unread'[s] = unread[s] - n /\ output'[s] = output[s] + n BY <3>2
            <4>2. written[s] = output'[s] + unread'[s] BY <1>1, <2>1, <4>1 DEF Flow
            <4>3. \A r \in Streams \ {s} :
                    output'[r] = output[r] /\ unread'[r] = unread[r] /\ reader'[r] = reader[r]
                OBVIOUS
            <4> QED BY <4>2, <4>3 DEF Flow
        <3> QED BY <2>1, <2>2, <3>1, <3>2
    <2>4. Ended' BY <1>1, <2>1 DEF Ended, Writers
    <2>5. Flow' BY <1>1, <2>3 DEF Flow
    <2> QED BY <2>5, <2>4, <1>3, <1>4
<1>6. CASE ReadEof(s)
    <2> USE <1>0, <1>6 DEF ProcessTypeOK, ReadEof, procs
    <2>1. Flow' BY DEF Flow
    <2>2. Ended' BY DEF Ended, Writers
    <2> QED BY <2>1, <2>2, <1>3, <1>4
<1> QED BY <1>5, <1>6 DEF ReaderStep

(* The calling task takes nothing from a pipe, starts nobody, and cancels only if it may. *)
LEMMA CallerFlows ==
  ASSUME ProcessInv, CallersInv, UNCHANGED answer, CallerStep
  PROVE  CallersInv'
<1> USE DEF CallersInv, readers, procs
<1>0. ProcessTypeOK BY DEF ProcessInv
<1>1. /\ pc # "done" /\ alive' \subseteq alive
      /\ UNCHANGED <<conf, fresh, holds, unread, written, reader, output>>
    BY DEF CallerStep, ChildExited, TimeOut, Cancel, ExceedLimit, Terminate, ShellGone,
           GraceOver, Reap, KillGroup, Collect
<1>2. end' = "cancelled" => end = "cancelled" \/ conf.stoppable
    BY DEF CallerStep, ChildExited, TimeOut, Cancel, ExceedLimit, Terminate, ShellGone,
           GraceOver, Reap, Collect
<1>3. Known' BY <1>1, <1>2 DEF Known
<1>4. Flow' BY <1>1 DEF Flow
<1>5. Ended' BY <1>1 DEF Ended, Writers
<1>6. Answered' BY <1>1 DEF Answered
<1> QED BY <1>3, <1>4, <1>5, <1>6

(* The caller looks at the run once it is over. *)
LEMMA ReportFlows ==
  ASSUME ProcessInv, CallersInv, Report
  PROVE  CallersInv'
<1> USE DEF CallersInv
<1>1. pc = "done" /\ UNCHANGED vars BY DEF Report
<1>2. Known' /\ Flow' /\ Ended' BY <1>1 DEF vars, procs, readers, Known, Flow, Ended, Writers
<1>3. result = "cancelled" => end = "cancelled"
    BY <1>1 DEF ProcessInv, Knows, FinishShellRun
<1>4. result = "cancelled" => conf.stoppable BY <1>3 DEF Known
<1>5. result \in Ends \cup {"none"} BY DEF ProcessInv, ProcessTypeOK
<1>6. PICK exit \in Exits, text \in Texts :
        answer' = CASE Caller = "helper" -> RunSecretCommand(exit, text)
                    [] Caller = "reader" -> RunStateCmd(exit, text)
                    [] OTHER -> CommandOutcome(exit)
    BY DEF Report
<1>7. CASE Caller = "helper"
    <2>1. conf.captured = {"stdout"} /\ ~conf.stoppable BY <1>7 DEF Caller
    <2>2. answer' = RunSecretCommand(exit, text) BY <1>6, <1>7
    <2>3. /\ answer' # "panic" /\ answer' \notin {"state", "ok"}
          /\ answer' = "secret" => result = "completed"
        BY <1>4, <2>1, <2>2 DEF RunSecretCommand
    <2> QED BY <1>1, <1>2, <2>1, <2>3 DEF Answered, vars
<1>8. CASE Caller = "reader"
    <2>1. conf.captured = {"stdout"} BY <1>8 DEF Caller
    <2>2. answer' = RunStateCmd(exit, text) BY <1>6, <1>8
    <2>3. answer' \in {"state", "error"} /\ (answer' = "state" => result = "completed")
        BY <2>2 DEF RunStateCmd
    <2> QED BY <1>1, <1>2, <2>1, <2>3 DEF Answered, vars
<1>9. CASE Caller \notin {"helper", "reader"}
    <2>1. answer' = CommandOutcome(exit) BY <1>6, <1>9
    <2>2. /\ answer' \notin {"secret", "state", "panic"}
          /\ answer' = "ok" => result = "completed"
        BY <1>5, <2>1 DEF CommandOutcome, Ends
    <2> QED BY <1>1, <1>2, <2>2 DEF Answered, vars
<1> QED BY <1>7, <1>8, <1>9

(* Without the answers, the callers do what the runs do. *)
LEMMA CallersRun == CallersSafety => Safety
<1>1. CallersInit => Init BY DEF CallersInit
<1>2. [CallersNext]_callerVars => [Next]_vars BY DEF CallersNext, Report, callerVars
<1> QED BY <1>1, <1>2, PTL DEF CallersSafety, Safety

LEMMA CallersInvariant == CallersSafety => []CallersInv
<1>1. ProcessInv /\ CallersInv /\ [CallersNext]_callerVars => CallersInv'
    <2> SUFFICES ASSUME ProcessInv, CallersInv, [CallersNext]_callerVars PROVE CallersInv'
        OBVIOUS
    <2>1. CASE UNCHANGED callerVars
        BY <2>1 DEF CallersInv, Known, Flow, Ended, Answered, Writers, callerVars, vars, procs,
                    readers
    <2>2. CASE Report BY <2>2, ReportFlows
    <2>3. CASE Next /\ UNCHANGED answer
        <3>1. CASE Terminated BY <3>1, <2>1, <2>3 DEF Terminated, callerVars
        <3> QED BY <3>1, <2>3, CommandFlows, ReaderFlows, CallerFlows DEF Next
    <2> QED BY <2>1, <2>2, <2>3 DEF CallersNext
<1>2. CallersSafety => []ProcessInv BY CallersRun, ProcessInvariant, PTL
<1> QED BY <1>1, <1>2, CallersStart, PTL DEF CallersSafety

(* A secret or a state is a whole stdout, a command's success hides no output that was cut
   off, and a helper is never cancelled. *)
THEOREM AnswersAreWhole == CallersSafety => []AnswerIsWhole
<1>1. ProcessInv /\ CallersInv => AnswerIsWhole
    <2> SUFFICES ASSUME ProcessInv, CallersInv PROVE AnswerIsWhole
        OBVIOUS
    <2> USE DEF ProcessInv, CallersInv
    <2>1. ASSUME answer \in {"secret", "state", "ok"}, NEW s \in conf.captured
          PROVE  end = "completed" /\ written[s] = output[s] /\ Writers(s) = {}
        <3>1. pc = "done" /\ result = "completed" BY <2>1 DEF Answered
        <3>2. end = "completed" /\ ~TooLarge BY <3>1 DEF Knows, FinishShellRun
        <3>3. s \in Streams BY DEF ProcessTypeOK
        <3>4. reader[s] = "eof" BY <3>1, <3>2, <3>3 DEF Knows, Known, TooLarge, ProcessTypeOK
        <3>5. unread[s] = 0 /\ Writers(s) = {} BY <3>3, <3>4 DEF Ended
        <3>6. written[s] = output[s] + unread[s] BY <3>3, <3>4 DEF Flow
        <3> QED BY <3>2, <3>3, <3>5, <3>6 DEF ProcessTypeOK
    <2>2. answer \in {"secret", "state"} => "stdout" \in conf.captured BY DEF Answered
    <2> QED BY <2>1, <2>2 DEF AnswerIsWhole, Answered
<1>2. CallersSafety => []ProcessInv BY CallersRun, ProcessInvariant, PTL
<1> QED BY <1>1, <1>2, CallersInvariant, PTL

-----------------------------------------------------------------------------
(* What a caller makes of a run is one of its answers. *)
LEMMA ReportAnswers ==
  ASSUME ProcessTypeOK, pc = "done" => result # "none", Report
  PROVE  answer' \in Answers
<1>1. result \in Ends
  BY DEF Report, ProcessTypeOK
<1>2. PICK exit \in Exits, text \in Texts :
        answer' = CASE Caller = "helper" -> RunSecretCommand(exit, text)
                    [] Caller = "reader" -> RunStateCmd(exit, text)
                    [] OTHER -> CommandOutcome(exit)
  BY DEF Report
<1>3. RunSecretCommand(exit, text) \in Answers /\ RunStateCmd(exit, text) \in Answers
  BY DEF RunSecretCommand, RunStateCmd, Answers
<1>4. CommandOutcome(exit) \in Answers
  BY <1>1 DEF CommandOutcome, Answers, Ends
<1>5. CASE Caller = "helper"
  BY <1>2, <1>3, <1>5
<1>6. CASE Caller = "reader"
  BY <1>2, <1>3, <1>6
<1>7. CASE Caller \notin {"helper", "reader"}
  BY <1>2, <1>4, <1>7
<1> QED BY <1>5, <1>6, <1>7

(* The variables of a run and of its caller keep their types. *)
THEOREM CallersTypeCorrect == CallersSafety => []CallersTypeOK
<1> DEFINE Typed == answer \in Answers \cup {"none"}
<1>1. CallersInit => Typed
  BY DEF CallersInit
<1>2. ProcessInv => (pc = "done" => result # "none")
  BY DEF ProcessInv, Knows, Cleared, FinishShellRun, Ends
<1>3. ASSUME ProcessInv, Typed, [CallersNext]_callerVars PROVE Typed'
  <2>1. CASE Report
    BY <1>2, <1>3, <2>1, ReportAnswers DEF ProcessInv
  <2>2. CASE UNCHANGED answer
    BY <1>3, <2>2
  <2> QED BY <1>3, <2>1, <2>2 DEF CallersNext, callerVars
<1>4. CallersSafety => []ProcessInv
  BY CallersRun, ProcessInvariant, PTL
<1>5. ProcessInv /\ Typed => CallersTypeOK
  BY DEF ProcessInv, CallersTypeOK
<1> HIDE DEF Typed
<1> QED BY <1>1, <1>3, <1>4, <1>5, PTL DEF CallersSafety
=============================================================================

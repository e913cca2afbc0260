---------------------------- MODULE FsStateProofs ----------------------------
(***************************************************************************)
(* An fs_state source misses nothing and does not set itself off, for any  *)
(* contents of the watched state and any channel.                          *)
(*                                                                         *)
(* Neither follows from its own: that a check which finds the baseline may *)
(* be believed needs the baseline to be what the last run was handed       *)
(* (Accepted), and what was read to be the state as it is, or an event to  *)
(* be coming (Fresh).                                                      *)
(***************************************************************************)
EXTENDS FsState, TLAPS

Tables ==
  /\ events \in Nat /\ rpc \in Points /\ job \in {"batch", "startup"}
  /\ lag \in BOOLEAN /\ dirty \in BOOLEAN /\ window \in BOOLEAN /\ stale \in BOOLEAN
  /\ conf.reader \in BOOLEAN
  /\ \A v, w \in sample : v = w
  /\ rpc \in {"recv", "batch", "submit", "await", "own", "settle"} => sample = {}
  /\ rpc = "baseline" \/ ~conf.reader => baseline = {}
  /\ rpc \in {"check", "baseline", "reread"} => conf.reader

Coming == lag \/ events > 0

(* A reading is the state as it is, unless something says otherwise. *)
Fresh ==
  /\ rpc = "baseline" => \A v \in sample : v[1] = user \/ Coming
  /\ rpc = "check" => \A v \in sample : v[1] = user \/ Coming \/ dirty
  /\ rpc = "reread" => \A v \in sample : v[1] = user \/ window

(* The baseline is what the last successful run was handed. *)
Accepted ==
  rpc \notin {"settle", "reread", "returned"} =>
    \A v \in baseline : v[1] = handled \/ window \/ stale

Seen ==
  /\ rpc \in {"baseline", "recv"} => handled = user \/ window \/ stale \/ Coming
  /\ rpc \in {"settle", "reread"} => handled = user \/ window

MissInv == Tables /\ Fresh /\ Accepted /\ Seen

(* They hold at the start. *)
LEMMA MissStart == Init => MissInv
<1> SUFFICES ASSUME Init PROVE MissInv
  OBVIOUS
<1>1. sample = {} /\ baseline = {} /\ handled = user /\ rpc \in {"baseline", "recv"}
  BY DEF Init
<1>2. conf.reader \in BOOLEAN /\ (rpc = "baseline" => conf.reader)
  BY DEF Init
<1>3. /\ events = 0 /\ job = "batch"
      /\ lag = FALSE /\ dirty = FALSE /\ window = FALSE /\ stale = FALSE
  BY DEF Init
<1> QED BY <1>1, <1>2, <1>3 DEF MissInv, Tables, Fresh, Accepted, Seen, Points

(* Every step keeps them. *)
LEMMA MissStep ==
  ASSUME MissInv, [Next]_vars
  PROVE  MissInv'
<1> USE FsStateAssumption DEF FsStateAssumption, MissInv, Tables, Fresh, Accepted, Seen, Coming, Points
<1>1. CASE UserWrite
  <2>1. lag' = TRUE /\ window' \in BOOLEAN /\ (window => window')
    BY <1>1 DEF UserWrite
  <2>2. rpc \in {"settle", "reread"} => window' = TRUE
    BY <1>1 DEF UserWrite, OwnInFlight, OwnWindow
  <2>3. UNCHANGED <<conf, events, rpc, job, baseline, sample, dirty, handled, stale>>
    BY <1>1 DEF UserWrite, runner
  <2> QED BY <2>1, <2>2, <2>3
<1>2. CASE Touch \/ OwnWrite \/ StartupSignal \/ Shutdown
  <2>1. lag' \in BOOLEAN /\ (lag => lag')
    BY <1>2 DEF Touch, OwnWrite, StartupSignal, Shutdown, disk
  <2>2. UNCHANGED <<conf, user, events, runner, ghosts>>
    <3>1. CASE Touch
      BY <3>1 DEF Touch
    <3>2. CASE OwnWrite
      BY <3>2 DEF OwnWrite
    <3>3. CASE StartupSignal
      BY <3>3 DEF StartupSignal, disk
    <3>4. CASE Shutdown
      BY <3>4 DEF Shutdown, disk
    <3> QED BY <1>2, <3>1, <3>2, <3>3, <3>4
  <2>3. UNCHANGED <<rpc, job, baseline, sample, dirty, handled, window, stale>>
    BY <2>2 DEF runner, ghosts
  <2> QED BY <2>1, <2>2, <2>3
<1>3. CASE Deliver
  <2>1. events' \in Nat /\ events' > 0 /\ lag' = FALSE
    BY <1>3 DEF Deliver
  <2>2. UNCHANGED <<conf, user, runner, handled, window, stale>>
    BY <1>3 DEF Deliver, ghosts
  <2>3. UNCHANGED <<rpc, job, baseline, sample, dirty>>
    BY <2>2 DEF runner
  <2>4. Tables'
    BY <2>1, <2>2, <2>3
  <2>5. (Fresh /\ Accepted /\ Seen)'
    BY <2>1, <2>2, <2>3
  <2> QED BY <2>4, <2>5
<1>4. CASE Sample
  BY <1>4 DEF Sample, disk
<1>5. CASE BaselineRead \/ BaselineFails
  BY <1>5 DEF BaselineRead, BaselineFails, disk
<1>6. CASE RecvStartup \/ RecvEvent \/ CheckNow
  BY <1>6 DEF RecvStartup, RecvEvent, CheckNow, disk, ghosts
<1>7. CASE NoteEvent \/ SuppressEvent
  <2>1. events' \in Nat
    BY <1>7 DEF NoteEvent, SuppressEvent
  <2>2. CASE NoteEvent
    BY <2>1, <2>2 DEF NoteEvent, disk, ghosts
  <2>3. CASE SuppressEvent
    BY <2>1, <2>3 DEF SuppressEvent, OwnWindow, disk, runner, ghosts
  <2> QED BY <1>7, <2>2, <2>3
<1>8. CASE CheckUnchanged
  <2>1. PICK v \in sample : v[1] = user \/ Coming \/ dirty
    BY <1>8 DEF CheckUnchanged
  <2>2. handled = user \/ window \/ stale \/ Coming \/ dirty
    BY <1>8, <2>1 DEF CheckUnchanged
  <2> QED BY <1>8, <2>2 DEF CheckUnchanged, EndOperation, disk
<1>9. CASE CheckFails \/ CheckChanged
  <2>1. CASE CheckFails
    BY <2>1 DEF CheckFails, EndOperation, disk
  <2>2. CASE CheckChanged
    BY <2>2 DEF CheckChanged, disk, ghosts
  <2> QED BY <1>9, <2>1, <2>2
<1>10. CASE Submitted \/ LaneStarts \/ LaneEnds \/ SeeStarted
  BY <1>10 DEF Submitted, LaneStarts, LaneEnds, SeeStarted, disk, ghosts
<1>11. CASE RunFails
  BY <1>11 DEF RunFails, Unsuccessful, EndOperation, disk
<1>12. CASE RunSucceeds
  BY <1>12 DEF RunSucceeds, disk
<1>13. CASE Settled
  <2>1. CASE conf.reader
    BY <1>13, <2>1 DEF Settled, disk, ghosts
  <2>2. CASE ~conf.reader
    BY <1>13, <2>2 DEF Settled, EndOperation, disk, ghosts
  <2> QED BY <2>1, <2>2
<1>14. CASE Rebaselined \/ RebaselineFails
  BY <1>14 DEF Rebaselined, RebaselineFails, EndOperation, disk
<1>15. CASE Return \/ UNCHANGED vars
  BY <1>15 DEF Return, vars, disk, ghosts
<1> QED
  BY <1>1, <1>2, <1>3, <1>4, <1>5, <1>6, <1>7, <1>8, <1>9, <1>10, <1>11, <1>12, <1>13, <1>14, <1>15
  DEF Next, CheckDone, RunDone, RebaselineDone

(* At rest, the source has seen every write of others that it does not ascribe to its own run
   (process_dirty_batch, fs_state.rs:380). *)
THEOREM FsStateMissesNothing == Spec => []NothingMissed
<1>1. Init => MissInv
  BY MissStart
<1>2. MissInv => NothingMissed
  BY DEF MissInv, Seen, Coming, NothingMissed, AtRest, Tables
<1> QED BY <1>1, <1>2, MissStep, PTL DEF Spec, Safety

-----------------------------------------------------------------------------

(* Until something else happens, what was read last is the state as it is, and the own command,
   which alone could change it unnoticed, does not run while it is looked at. *)
CauseInv ==
  /\ rpc \in {"baseline", "recv", "batch", "check", "submit", "settle", "reread"} => run = "none"
  /\ conf.reader /\ ~cause /\ rpc \in {"recv", "batch", "check"} => baseline = {<<user, own>>}
  /\ ~cause /\ rpc \in {"baseline", "check", "reread"} => sample \in {{}, {<<user, own>>}}
  /\ rpc \in {"check", "baseline", "reread"} => conf.reader
  /\ rpc \in {"recv", "batch", "submit", "await", "own", "settle"} => sample = {}
  /\ cause \in BOOLEAN

(* Every step keeps it. *)
LEMMA CauseStep ==
  ASSUME rpc \in Points, CauseInv, [Next]_vars
  PROVE  CauseInv'
<1> USE DEF CauseInv, Points
<1>1. CASE UserWrite \/ Touch \/ OwnWrite
  BY <1>1 DEF UserWrite, Touch, OwnWrite, runner, ghosts
<1>2. CASE Deliver \/ StartupSignal \/ Shutdown
  BY <1>2 DEF Deliver, StartupSignal, Shutdown, disk, runner, ghosts
<1>4. CASE Sample
  BY <1>4 DEF Sample, disk
<1>5. CASE BaselineRead \/ BaselineFails
  BY <1>5 DEF BaselineRead, BaselineFails, disk
<1>6. CASE RecvStartup \/ RecvEvent \/ CheckNow
  BY <1>6 DEF RecvStartup, RecvEvent, CheckNow, disk, ghosts
<1>7. CASE NoteEvent \/ SuppressEvent
  BY <1>7 DEF NoteEvent, SuppressEvent, disk, runner, ghosts
<1>8. CASE CheckDone
  BY <1>8 DEF CheckDone, CheckUnchanged, CheckFails, CheckChanged, EndOperation, disk, ghosts
<1>10. CASE Submitted \/ LaneStarts \/ LaneEnds \/ SeeStarted
  BY <1>10 DEF Submitted, LaneStarts, LaneEnds, SeeStarted, disk, ghosts
<1>11. CASE RunDone
  BY <1>11 DEF RunDone, RunFails, RunSucceeds, EndOperation, disk
<1>13. CASE Settled
  BY <1>13 DEF Settled, EndOperation, disk, ghosts
<1>14. CASE RebaselineDone
  BY <1>14 DEF RebaselineDone, Rebaselined, RebaselineFails, EndOperation, disk
<1>15. CASE Return \/ UNCHANGED vars
  BY <1>15 DEF Return, vars, disk, ghosts
<1> QED
  BY <1>1, <1>2, <1>4, <1>5, <1>6, <1>7, <1>8, <1>10, <1>11, <1>13, <1>14, <1>15 DEF Next

(* A check that leads to a run has somebody else to blame for it (process_dirty_batch,
   fs_state.rs:380). *)
THEOREM FsStateDoesNotTriggerItself == Spec => NoSelfTrigger
<1>1. Init => MissInv /\ CauseInv
  BY MissStart DEF Init, CauseInv
<1>2. ASSUME MissInv, CauseInv, [Next]_vars
      PROVE  [rpc = "check" /\ rpc' = "submit" => cause]_vars
  <2>1. CASE CheckChanged
    BY <1>2, <2>1 DEF CheckChanged, CauseInv
  <2>2. CASE ~CheckChanged
    BY <1>2, <2>2 DEF Next, UserWrite, Touch, OwnWrite, Deliver, StartupSignal, Shutdown, Sample,
      BaselineRead, BaselineFails, RecvStartup, RecvEvent, CheckNow, NoteEvent, SuppressEvent, CheckDone,
      CheckUnchanged, CheckFails, EndOperation, Submitted, LaneStarts, LaneEnds, SeeStarted, RunDone,
      RunFails, Unsuccessful, RunSucceeds, Settled, RebaselineDone, Rebaselined, RebaselineFails,
      Return, runner, vars
  <2> QED BY <2>1, <2>2
<1> QED
  BY <1>1, <1>2, MissStep, CauseStep, PTL DEF Spec, Safety, NoSelfTrigger, MissInv, Tables

(* state_cmd and the source's own command never run at the same time (process_dirty_batch,
   fs_state.rs:380). *)
THEOREM FsStateReadsBetweenRuns == Spec => []ReadsBetweenRuns
<1>1. Init => MissInv /\ CauseInv
  BY MissStart DEF Init, CauseInv
<1>2. CauseInv => ReadsBetweenRuns
  BY DEF CauseInv, ReadsBetweenRuns
<1> QED
  BY <1>1, <1>2, MissStep, CauseStep, PTL DEF Spec, Safety, MissInv, Tables

-----------------------------------------------------------------------------

(* The types, in three parts: what the variables range over besides the configuration. *)
FlagTypes ==
  /\ lag \in BOOLEAN /\ dirty \in BOOLEAN /\ shutdown \in BOOLEAN
  /\ window \in BOOLEAN /\ stale \in BOOLEAN /\ cause \in BOOLEAN
PlaceTypes ==
  /\ events \in 0..EventCap /\ startup \in {"absent", "armed", "raised"}
  /\ rpc \in Points /\ job \in {"batch", "startup"}
  /\ run \in {"none", "queued", "running"} \cup Outcomes
  /\ failed \in {"no", "batch", "startup"}
ValueTypes ==
  /\ user \in UserStates /\ own \in OwnStates /\ atStart \in UserStates /\ handled \in UserStates
  /\ baseline \in SUBSET (UserStates \X OwnStates) /\ sample \in SUBSET (UserStates \X OwnStates)

(* Flags stay flags. *)
LEMMA FlagStep == ASSUME FlagTypes, [Next]_vars PROVE FlagTypes'
<1> USE DEF FlagTypes
<1>1. CASE UserWrite \/ Touch \/ OwnWrite \/ Deliver \/ StartupSignal \/ Shutdown \/ Sample
  BY <1>1 DEF UserWrite, Touch, OwnWrite, Deliver, StartupSignal, Shutdown, Sample, disk, runner, ghosts
<1>2. CASE BaselineRead \/ BaselineFails \/ RecvStartup \/ RecvEvent \/ CheckNow
  BY <1>2 DEF BaselineRead, BaselineFails, RecvStartup, RecvEvent, CheckNow, disk, ghosts
<1>3. CASE NoteEvent \/ SuppressEvent
  BY <1>3 DEF NoteEvent, SuppressEvent, disk, runner, ghosts
<1>4. CASE CheckDone
  BY <1>4 DEF CheckDone, CheckUnchanged, CheckFails, CheckChanged, EndOperation, disk, ghosts
<1>5. CASE Submitted \/ LaneStarts \/ LaneEnds \/ SeeStarted \/ RunDone
  BY <1>5 DEF Submitted, LaneStarts, LaneEnds, SeeStarted, RunDone, RunFails, RunSucceeds, EndOperation,
    disk, ghosts
<1>6. CASE Settled \/ RebaselineDone
  BY <1>6 DEF Settled, RebaselineDone, Rebaselined, RebaselineFails, EndOperation, disk, ghosts
<1>7. CASE Return \/ UNCHANGED vars
  BY <1>7 DEF Return, vars, disk, ghosts
<1> QED BY <1>1, <1>2, <1>3, <1>4, <1>5, <1>6, <1>7 DEF Next

(* The runner and the lane stay at places they know, the event channel within its capacity. *)
LEMMA PlaceStep == ASSUME PlaceTypes, [Next]_vars PROVE PlaceTypes'
<1> USE FsStateAssumption DEF FsStateAssumption, PlaceTypes, Points, Outcomes
<1>1. CASE UserWrite \/ Touch \/ OwnWrite \/ Deliver \/ StartupSignal \/ Shutdown \/ Sample
  BY <1>1 DEF UserWrite, Touch, OwnWrite, Deliver, StartupSignal, Shutdown, Sample, disk, runner, ghosts
<1>2. CASE BaselineRead \/ BaselineFails \/ RecvStartup \/ RecvEvent \/ CheckNow
  BY <1>2 DEF BaselineRead, BaselineFails, RecvStartup, RecvEvent, CheckNow, disk, ghosts
<1>3. CASE NoteEvent \/ SuppressEvent
  BY <1>3 DEF NoteEvent, SuppressEvent, disk, runner, ghosts
<1>4. CASE CheckDone
  BY <1>4 DEF CheckDone, CheckUnchanged, CheckFails, CheckChanged, EndOperation, disk, ghosts
<1>5. CASE Submitted \/ LaneStarts \/ LaneEnds \/ SeeStarted \/ RunDone
  BY <1>5 DEF Submitted, LaneStarts, LaneEnds, SeeStarted, RunDone, RunFails, RunSucceeds, EndOperation,
    disk, ghosts
<1>6. CASE Settled \/ RebaselineDone
  BY <1>6 DEF Settled, RebaselineDone, Rebaselined, RebaselineFails, EndOperation, disk, ghosts
<1>7. CASE Return \/ UNCHANGED vars
  BY <1>7 DEF Return, vars, disk, ghosts
<1> QED BY <1>1, <1>2, <1>3, <1>4, <1>5, <1>6, <1>7 DEF Next

(* What is read and remembered are states the watched files may be in. *)
LEMMA ValueStep == ASSUME ValueTypes, [Next]_vars PROVE ValueTypes'
<1>1. <<user, own>> \in UserStates \X OwnStates /\ \A v \in UserStates \X OwnStates : v[1] \in UserStates
  BY DEF ValueTypes
<1> DEFINE Pairs == UserStates \X OwnStates
<1>2. /\ <<user, own>> \in Pairs /\ \A v \in Pairs : v[1] \in UserStates
      /\ user \in UserStates /\ own \in OwnStates /\ atStart \in UserStates /\ handled \in UserStates
      /\ baseline \in SUBSET Pairs /\ sample \in SUBSET Pairs
  BY <1>1 DEF ValueTypes
<1> SUFFICES /\ user' \in UserStates /\ own' \in OwnStates /\ atStart' \in UserStates
             /\ handled' \in UserStates /\ baseline' \in SUBSET Pairs /\ sample' \in SUBSET Pairs
  BY DEF ValueTypes
<1> HIDE DEF Pairs
<1>3. CASE UserWrite \/ Touch \/ OwnWrite
  BY <1>2, <1>3 DEF UserWrite, Touch, OwnWrite, runner, ghosts
<1>4. CASE Deliver \/ StartupSignal \/ Shutdown
  BY <1>2, <1>4 DEF Deliver, StartupSignal, Shutdown, disk, runner, ghosts
<1>5. CASE Sample \/ BaselineRead \/ BaselineFails
  BY <1>2, <1>5 DEF Sample, BaselineRead, BaselineFails, disk
<1>6. CASE RecvStartup \/ RecvEvent \/ CheckNow \/ NoteEvent
  BY <1>2, <1>6 DEF RecvStartup, RecvEvent, CheckNow, NoteEvent, disk, ghosts
<1>7. CASE SuppressEvent
  BY <1>2, <1>7 DEF SuppressEvent, disk, runner, ghosts
<1>8. CASE CheckDone
  BY <1>2, <1>8 DEF CheckDone, CheckUnchanged, CheckFails, CheckChanged, EndOperation, disk, ghosts
<1>9. CASE Submitted \/ LaneStarts \/ LaneEnds \/ SeeStarted
  BY <1>2, <1>9 DEF Submitted, LaneStarts, LaneEnds, SeeStarted, disk, ghosts
<1>10. CASE RunDone
  BY <1>2, <1>10 DEF RunDone, RunFails, RunSucceeds, EndOperation, disk
<1>11. CASE Settled \/ RebaselineDone
  BY <1>2, <1>11 DEF Settled, RebaselineDone, Rebaselined, RebaselineFails, EndOperation, disk, ghosts
<1>12. CASE Return \/ UNCHANGED vars
  BY <1>2, <1>12 DEF Return, vars, disk, ghosts
<1> QED BY <1>3, <1>4, <1>5, <1>6, <1>7, <1>8, <1>9, <1>10, <1>11, <1>12 DEF Next

(* The configuration never changes. *)
LEMMA ConfStep == [Next]_vars => UNCHANGED conf
BY DEF Next, UserWrite, Touch, OwnWrite, Deliver, StartupSignal, Shutdown, Sample, BaselineRead,
  BaselineFails, RecvStartup, RecvEvent, CheckNow, NoteEvent, SuppressEvent, CheckDone, CheckUnchanged,
  CheckFails, CheckChanged, Submitted, LaneStarts, LaneEnds, SeeStarted, RunDone, RunFails, RunSucceeds,
  Settled, RebaselineDone, Rebaselined, RebaselineFails, Return, vars

(* The variables keep their types, and notify's callback never grows the event channel beyond its
   capacity (build_watcher, fs_state.rs:830). *)
THEOREM FsStateTypeCorrect == Spec => []FsTypeOK
<1> DEFINE ConfType == conf \in [reader : BOOLEAN, mustReady : BOOLEAN]
<1>1. FsTypeOK <=> ConfType /\ FlagTypes /\ PlaceTypes /\ ValueTypes
  BY DEF FsTypeOK, FlagTypes, PlaceTypes, ValueTypes
<1>2. Init => ConfType /\ FlagTypes
  BY DEF Init, FlagTypes
<1>3. Init => PlaceTypes
  BY FsStateAssumption DEF FsStateAssumption, Init, PlaceTypes, Points, Outcomes
<1>4. Init => ValueTypes
  BY DEF Init, ValueTypes
<1>5. ConfType /\ [Next]_vars => ConfType'
  BY ConfStep
<1> QED BY <1>1, <1>2, <1>3, <1>4, <1>5, FlagStep, PlaceStep, ValueStep, PTL DEF Spec, Safety

-----------------------------------------------------------------------------

(* What a failed batch is about, until its next run begins. *)
RetryInv == FailedBatchStaysDirty /\ (failed = "batch" => job = "batch")

(* A failed run of a batch is dirty until a check has been made, whatever its result, or another run
   begins (into_operation_result, fs_state.rs:902): the safety half of RetriesFailedRun, and what is
   left of the documents' claim that FailedRunStaysDirty refutes for a startup run. *)
THEOREM FsStateBatchStaysDirty == Spec => []FailedBatchStaysDirty
<1>1. Init => RetryInv
  BY DEF Init, RetryInv, FailedBatchStaysDirty
<1>2. RetryInv /\ FsTypeOK /\ [Next]_vars => RetryInv'
  <2> SUFFICES ASSUME RetryInv, FsTypeOK, [Next]_vars PROVE RetryInv'
    OBVIOUS
  <2> USE DEF RetryInv, FailedBatchStaysDirty, FsTypeOK, Points, Outcomes
  <2>1. CASE UserWrite \/ Touch \/ OwnWrite \/ Deliver \/ StartupSignal \/ Shutdown \/ Sample
    BY <2>1 DEF UserWrite, Touch, OwnWrite, Deliver, StartupSignal, Shutdown, Sample, runner, ghosts
  <2>2. CASE BaselineRead \/ BaselineFails \/ RecvStartup \/ RecvEvent \/ CheckNow
    BY <2>2 DEF BaselineRead, BaselineFails, RecvStartup, RecvEvent, CheckNow, ghosts
  <2>3. CASE NoteEvent \/ SuppressEvent
    BY <2>3 DEF NoteEvent, SuppressEvent, runner, ghosts
  <2>4. CASE CheckDone
    BY <2>4 DEF CheckDone, CheckUnchanged, CheckFails, CheckChanged, EndOperation, ghosts
  <2>5. CASE Submitted \/ LaneStarts \/ LaneEnds \/ SeeStarted
    BY <2>5 DEF Submitted, LaneStarts, LaneEnds, SeeStarted, ghosts
  <2>6. CASE RunDone
    BY <2>6 DEF RunDone, RunFails, RunSucceeds, EndOperation
  <2>7. CASE Settled \/ RebaselineDone
    BY <2>7 DEF Settled, RebaselineDone, Rebaselined, RebaselineFails, EndOperation, ghosts
  <2>8. CASE Return \/ UNCHANGED vars
    BY <2>8 DEF Return, vars, ghosts
  <2> QED BY <2>1, <2>2, <2>3, <2>4, <2>5, <2>6, <2>7, <2>8 DEF Next
<1>3. RetryInv => FailedBatchStaysDirty
  BY DEF RetryInv
<1> QED BY <1>1, <1>2, <1>3, FsStateTypeCorrect, PTL DEF Spec, Safety

-----------------------------------------------------------------------------

(* What the source sees of its request moves as a command service lets it. *)
LEMMA TermsStep ==
  ASSUME FsTypeOK, CauseInv, [Next]_vars
  PROVE  [Lane!ServiceNext]_<<[s \in {"self"} |-> RunStatus], shutdown>>
<1> DEFINE st == [s \in {"self"} |-> RunStatus]
<1> USE DEF FsTypeOK, Outcomes, RunStatus
<1>1. CASE UserWrite \/ Touch \/ OwnWrite \/ Deliver \/ StartupSignal \/ Sample
  BY <1>1 DEF UserWrite, Touch, OwnWrite, Deliver, StartupSignal, Sample, runner
<1>2. CASE BaselineRead \/ BaselineFails \/ RecvStartup \/ RecvEvent \/ CheckNow \/ NoteEvent \/ SuppressEvent
  BY <1>2 DEF BaselineRead, BaselineFails, RecvStartup, RecvEvent, CheckNow, NoteEvent, SuppressEvent, runner
<1>3. CASE CheckDone \/ SeeStarted \/ Settled \/ RebaselineDone
  BY <1>3 DEF CheckDone, CheckUnchanged, CheckFails, CheckChanged, SeeStarted, Settled, RebaselineDone,
    Rebaselined, RebaselineFails
<1>4. CASE Return \/ UNCHANGED vars
  BY <1>4 DEF Return, vars
<1>5. CASE Shutdown
  BY <1>5 DEF Shutdown, runner, Lane!ServiceNext, Lane!Close
<1>6. CASE Submitted
  <2>1. run = "none" /\ run' = "queued" /\ UNCHANGED shutdown
    BY <1>6 DEF Submitted, CauseInv
  <2>2. Lane!Accept("self")
    BY <2>1 DEF Lane!Accept, Lane!Move
  <2> QED BY <2>2 DEF Lane!ServiceNext
<1>7. CASE LaneStarts
  <2>1. run = "queued" /\ run' = "running" /\ UNCHANGED shutdown
    BY <1>7 DEF LaneStarts
  <2>2. Lane!InStatus("served") = {} /\ Lane!InStatus("waiting") = {"self"}
    BY <2>1 DEF Lane!InStatus
  <2>3. Lane!Serve("own")
    BY <2>1, <2>2 DEF Lane!Serve, Lane!Move
  <2> QED BY <2>3 DEF Lane!ServiceNext
<1>8. CASE LaneEnds
  <2>1. CASE run = "running"
    <3>1. run' \in {"succeeded", "failed"} /\ UNCHANGED shutdown
      BY <1>8, <2>1 DEF LaneEnds
    <3>2. Lane!InStatus("served") = {"self"}
      BY <2>1 DEF Lane!InStatus
    <3>3. Lane!Report
      BY <2>1, <3>1, <3>2 DEF Lane!Report, Lane!Move
    <3> QED BY <3>3 DEF Lane!ServiceNext
  <2>2. CASE run = "queued"
    <3>1. run' = "refused" /\ shutdown /\ UNCHANGED shutdown
      BY <1>8, <2>2 DEF LaneEnds
    <3>2. Lane!InStatus("waiting") = {"self"}
      BY <2>2 DEF Lane!InStatus
    <3>3. Lane!Refuse
      BY <2>2, <3>1, <3>2 DEF Lane!Refuse, Lane!Move
    <3> QED BY <3>3 DEF Lane!ServiceNext
  <2> QED BY <1>8, <2>1, <2>2 DEF LaneEnds
<1>9. CASE RunDone
  <2>1. run \in {"none", "succeeded", "failed", "refused"} /\ run' = "none" /\ UNCHANGED shutdown
    BY <1>9 DEF RunDone, RunFails, Unsuccessful, RunSucceeds, CauseInv
  <2>2. CASE run = "none"
    BY <2>1, <2>2
  <2>3. CASE run # "none"
    <3>1. Lane!Release("self")
      BY <2>1, <2>3 DEF Lane!Release, Lane!Move
    <3> QED BY <3>1 DEF Lane!ServiceNext
  <2> QED BY <2>2, <2>3
<1> QED BY <1>1, <1>2, <1>3, <1>4, <1>5, <1>6, <1>7, <1>8, <1>9 DEF Next

(* The lane as an fs_state source sees it is a command service: what FsState assumes of the lane is
   no more than Lane gives each of its sources (LaneServesEach). *)
THEOREM FsStateKeepsLaneTerms == Spec => KeepsLaneTerms
<1>1. Init => Lane!ServiceInit
  BY DEF Init, Lane!ServiceInit, RunStatus
<1>2. Init => MissInv /\ CauseInv
  BY MissStart DEF Init, CauseInv
<1> QED
  BY <1>1, <1>2, MissStep, CauseStep, TermsStep, FsStateTypeCorrect, PTL
  DEF Spec, Safety, KeepsLaneTerms, Lane!ServiceSafety, Lane!svars, MissInv, Tables
=============================================================================

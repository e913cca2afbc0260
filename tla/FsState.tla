------------------------------ MODULE FsState -------------------------------
(***************************************************************************)
(* An fs_state source: FsStateRunner of src/fs_state.rs, the filesystem it *)
(* watches, its state_cmd and its command.                                 *)
(*                                                                         *)
(* The watched state is a pair <<user, own>>: what everybody else writes   *)
(* and what the source's own command writes.  A state_cmd reads the pair   *)
(* at one moment between its start and its end (Sample).  notify delivers  *)
(* events some time after the write (lag, Deliver), through a bounded      *)
(* channel into which it uses try_send.  The command runs in a lane: run   *)
(* is what the lane has done with the request, and the runner hears of it  *)
(* later, while events come in as well.                                    *)
(*                                                                         *)
(* atStart, handled, window, stale, failed and cause are history           *)
(* variables: the properties use them, the code has no such state.         *)
(***************************************************************************)
EXTENDS Naturals

CONSTANTS
  UserStates,  (* contents other programs may leave *)
  OwnStates,   (* contents the source's command may leave *)
  EventCap     (* capacity of the event channel (64 in the daemon) *)

ASSUME FsStateAssumption == EventCap \in Nat \ {0} /\ UserStates # {} /\ OwnStates # {}

VARIABLES
  conf,      (* the source's configuration: reader, mustReady *)
  user, own, (* the watched state *)
  lag,       (* a notify event is on its way *)
  events,    (* events in the channel *)
  startup,   (* the run_on_startup signal: "absent", "armed", "raised" *)
  rpc,       (* where the runner is *)
  run,       (* the request in the lane: "none", "queued", "running", or how it ended *)
  job,       (* what the current trigger is for: "batch" or "startup" *)
  baseline,  (* {} is Unknown (or no reader), {v} is Known(v) *)
  sample,    (* {} or {v}: what the running state_cmd has read *)
  dirty,     (* the DirtyTracker of the current operation *)
  shutdown,
  atStart,   (* user when the current run began *)
  handled,   (* user when the last successful run began, or at the startup baseline *)
  window,    (* a write of others fell into the source's own run, settle or rebaseline,
                a check's state_cmd failed, or the startup run did *)
  stale,     (* the last rebaseline failed: the baseline is older than the last run *)
  failed,    (* job of a failed run nothing has followed up yet, or "no" *)
  cause      (* something other than the command itself can explain a changed state *)

disk == <<user, own, lag>>
runner == <<rpc, run, job, baseline, sample, dirty>>
ghosts == <<atStart, handled, window, stale, failed, cause>>
vars == <<conf, user, own, lag, events, startup, rpc, run, job, baseline, sample,
          dirty, shutdown, atStart, handled, window, stale, failed, cause>>

Points == {"baseline", "recv", "batch", "check", "submit", "await", "own", "settle",
           "reread", "returned"}
Outcomes == {"succeeded", "failed", "refused"}

(* Where the source ascribes events to its own command. *)
OwnWindow == {"own", "settle", "reread"}

(* The command has started, and its effects are not yet in the baseline. *)
OwnInFlight == run \in {"running", "succeeded", "failed"} \/ rpc \in OwnWindow

Init ==
  /\ conf \in [reader : BOOLEAN, mustReady : BOOLEAN]
  /\ user \in UserStates /\ own \in OwnStates /\ lag = FALSE
  /\ events = 0
  /\ startup \in {"absent", "armed"}
  /\ rpc = IF conf.reader THEN "baseline" ELSE "recv"
  /\ run = "none" /\ job = "batch"
  /\ baseline = {} /\ sample = {} /\ dirty = FALSE
  /\ shutdown = FALSE
  /\ atStart = user /\ handled = user
  /\ window = FALSE /\ stale = FALSE /\ failed = "no" /\ cause = FALSE

-----------------------------------------------------------------------------
(* The surroundings.                                                       *)

UserWrite ==
  /\ \E u \in UserStates \ {user} : user' = u
  /\ lag' = TRUE
  /\ window' = (window \/ OwnInFlight)
  /\ cause' = TRUE
  /\ UNCHANGED <<conf, own, events, startup, runner, shutdown,
                 atStart, handled, stale, failed>>

(* notify reports something that leaves the watched state as it is, or an error. *)
Touch ==
  /\ lag' = TRUE
  /\ UNCHANGED <<conf, user, own, events, startup, runner, shutdown, ghosts>>

(* The command writes into the watched paths while it runs. *)
OwnWrite ==
  /\ run = "running"
  /\ \E o \in OwnStates \ {own} : own' = o
  /\ lag' = TRUE
  /\ UNCHANGED <<conf, user, events, startup, runner, shutdown, ghosts>>

(* Mutant: the callback waits for no room in the channel. *)
DeliverUnbounded ==
  /\ lag
  /\ lag' = FALSE
  /\ events' = events + 1
  /\ events <= EventCap
  /\ UNCHANGED <<conf, user, own, startup, runner, shutdown, ghosts>>

(* build_watcher's callback: Ok, or Full and the event is coalesced. *)
Deliver ==
  /\ lag
  /\ lag' = FALSE
  /\ events' = IF events < EventCap THEN events + 1 ELSE events
  /\ UNCHANGED <<conf, user, own, startup, runner, shutdown, ghosts>>

StartupSignal ==
  /\ startup = "armed"
  /\ startup' = "raised"
  /\ UNCHANGED <<conf, disk, events, runner, shutdown, ghosts>>

Shutdown ==
  /\ ~shutdown
  /\ shutdown' = TRUE
  /\ UNCHANGED <<conf, disk, events, startup, runner, ghosts>>

(* The running state_cmd looks at the state. *)
Sample ==
  /\ rpc \in {"baseline", "check", "reread"}
  /\ sample = {}
  /\ sample' = {<<user, own>>}
  /\ cause' = (cause /\ rpc = "check")
  /\ UNCHANGED <<conf, disk, events, startup, rpc, run, job, baseline, dirty, shutdown,
                 atStart, handled, window, stale, failed>>

-----------------------------------------------------------------------------
(* run_inner: the startup baseline.                                        *)

BaselineRead ==
  /\ rpc = "baseline"
  /\ sample # {}
  /\ baseline' = sample
  /\ sample' = {}
  /\ rpc' = "recv"
  /\ handled' \in {v[1] : v \in sample}
  /\ UNCHANGED <<conf, disk, events, startup, run, job, dirty, shutdown, atStart, window,
                 stale, failed, cause>>

(* With initial_ready the failure is reported and the runner returns. *)
BaselineFails ==
  /\ rpc = "baseline"
  /\ sample' = {}
  /\ rpc' = IF conf.mustReady THEN "returned" ELSE "recv"
  /\ cause' = TRUE
  /\ UNCHANGED <<conf, disk, events, startup, run, job, baseline, dirty, shutdown,
                 atStart, handled, window, stale, failed>>

-----------------------------------------------------------------------------
(* recv_work and wait_for_settled_batch.                                   *)

RecvStartup ==
  /\ rpc = "recv"
  /\ startup = "raised"
  /\ startup' = "absent"
  /\ rpc' = "submit"
  /\ job' = "startup"
  /\ UNCHANGED <<conf, disk, events, run, baseline, sample, dirty, shutdown, ghosts>>

RecvEvent ==
  /\ rpc \in {"recv", "batch"}
  /\ events > 0
  /\ events' = events - 1
  /\ rpc' = "batch"
  /\ UNCHANGED <<conf, disk, startup, run, job, baseline, sample, dirty, shutdown, ghosts>>

(* The batch is due: it has been quiet for debounce, or it is max_debounce old. *)
CheckNow ==
  /\ rpc = "batch"
  /\ rpc' = IF conf.reader THEN "check" ELSE "submit"
  /\ job' = "batch"
  /\ UNCHANGED <<conf, disk, events, startup, run, baseline, sample, dirty, shutdown, ghosts>>

-----------------------------------------------------------------------------
(* process_dirty_batch and process_startup_trigger.                        *)

(* Events seen while the state is read or the request waits make the operation dirty. *)
NoteEvent ==
  /\ rpc \in {"check", "submit", "await"}
  /\ events > 0
  /\ events' = events - 1
  /\ dirty' = TRUE
  /\ UNCHANGED <<conf, disk, startup, rpc, run, job, baseline, sample, shutdown, ghosts>>

(* Events seen from the start of the source's own run to its rebaseline are suppressed. *)
SuppressEvent ==
  /\ rpc \in OwnWindow
  /\ events > 0
  /\ events' = events - 1
  /\ UNCHANGED <<conf, disk, startup, runner, shutdown, ghosts>>

(* DirtyTracker::into_operation_result: a dirty operation becomes a batch, else Idle. *)
EndOperation(d) ==
  /\ rpc' = IF d THEN "batch" ELSE "recv"
  /\ dirty' = FALSE
  /\ sample' = {}

CheckUnchanged ==
  /\ rpc = "check"
  /\ sample # {}
  /\ baseline = sample
  /\ EndOperation(dirty)
  /\ failed' = "no"
  /\ UNCHANGED <<conf, disk, events, startup, run, job, baseline, shutdown, atStart, handled, window,
                 stale, cause>>

CheckFails ==
  /\ rpc = "check"
  /\ EndOperation(dirty)
  /\ window' = TRUE
  /\ failed' = "no"
  /\ UNCHANGED <<conf, disk, events, startup, run, job, baseline, shutdown, atStart, handled, stale,
                 cause>>

(* The state differs, or the baseline is unknown.  What was noted during the read is dropped:
   the run is still to come. *)
CheckChanged ==
  /\ rpc = "check"
  /\ sample # {}
  /\ baseline # sample
  /\ rpc' = "submit"
  /\ dirty' = FALSE
  /\ sample' = {}
  /\ UNCHANGED <<conf, disk, events, startup, run, job, baseline, shutdown, ghosts>>

(* CommandTrigger::start: the lane has taken the request. *)
Submitted ==
  /\ rpc = "submit"
  /\ rpc' = "await"
  /\ run' = "queued"
  /\ UNCHANGED <<conf, disk, events, startup, job, baseline, sample, dirty, shutdown, ghosts>>

(* The lane starts the run, ends it, or, when the daemon stops, never runs it (Lane). *)
LaneStarts ==
  /\ run = "queued"
  /\ run' = "running"
  /\ atStart' = user
  /\ failed' = "no"
  /\ UNCHANGED <<conf, disk, events, startup, rpc, job, baseline, sample, dirty, shutdown,
                 handled, window, stale, cause>>

LaneEnds ==
  /\ \/ run = "running" /\ run' \in {"succeeded", "failed"}
     \/ run = "queued" /\ shutdown /\ run' = "refused"
  /\ UNCHANGED <<conf, disk, events, startup, rpc, job, baseline, sample, dirty, shutdown, ghosts>>

(* The runner receives Started. *)
SeeStarted ==
  /\ rpc = "await"
  /\ run \in {"running", "succeeded", "failed"}
  /\ rpc' = "own"
  /\ UNCHANGED <<conf, disk, events, startup, run, job, baseline, sample, dirty, shutdown, ghosts>>

(* The run did not succeed, the request was refused, or the lane is gone. *)
Unsuccessful ==
  \/ rpc = "submit" /\ shutdown
  \/ rpc = "await" /\ run = "refused"
  \/ rpc = "own" /\ run = "failed"

(* Mutant: a failed run of a batch is not noted. *)
RunFailsQuietly ==
  /\ Unsuccessful
  /\ EndOperation(dirty)
  /\ run' = "none"
  /\ failed' = job
  /\ window' = (window \/ job = "startup")
  /\ cause' = TRUE
  /\ UNCHANGED <<conf, disk, events, startup, job, baseline, shutdown, atStart, handled, stale>>

(* A batch notes the failure and is dirty again; the startup trigger is dirty only if an
   event was noted before the run. *)
RunFails ==
  /\ Unsuccessful
  /\ EndOperation(dirty \/ job = "batch")
  /\ run' = "none"
  /\ failed' = job
  /\ window' = (window \/ job = "startup")
  /\ cause' = TRUE
  /\ UNCHANGED <<conf, disk, events, startup, job, baseline, shutdown, atStart, handled, stale>>

RunSucceeds ==
  /\ rpc = "own"
  /\ run = "succeeded"
  /\ rpc' = "settle"
  /\ run' = "none"
  /\ handled' = atStart
  /\ window' = (user # atStart)
  /\ UNCHANGED <<conf, disk, events, startup, job, baseline, sample, dirty, shutdown,
                 atStart, stale, failed, cause>>

(* Mutant: the baseline is left as it was before the command. *)
SettledSkipsRebaseline ==
  /\ rpc = "settle"
  /\ EndOperation(dirty)
  /\ cause' = FALSE
  /\ UNCHANGED <<conf, disk, events, startup, run, job, baseline, shutdown,
                 atStart, handled, window, stale, failed>>

Settled ==
  /\ rpc = "settle"
  /\ IF conf.reader THEN rpc' = "reread" /\ UNCHANGED <<sample, dirty>> ELSE EndOperation(dirty)
  /\ UNCHANGED <<conf, disk, events, startup, run, job, baseline, shutdown, ghosts>>

Rebaselined ==
  /\ rpc = "reread"
  /\ sample # {}
  /\ baseline' = sample
  /\ EndOperation(dirty)
  /\ stale' = FALSE
  /\ UNCHANGED <<conf, disk, events, startup, run, job, shutdown,
                 atStart, handled, window, failed, cause>>

(* The previous baseline is kept. *)
RebaselineFails ==
  /\ rpc = "reread"
  /\ EndOperation(dirty)
  /\ stale' = TRUE
  /\ cause' = TRUE
  /\ UNCHANGED <<conf, disk, events, startup, run, job, baseline, shutdown,
                 atStart, handled, window, failed>>

(* Shutdown is seen at any of the selects. *)
Return ==
  /\ shutdown
  /\ rpc # "returned"
  /\ rpc' = "returned"
  /\ UNCHANGED <<conf, disk, events, startup, run, job, baseline, sample, dirty, shutdown, ghosts>>

CheckDone == CheckUnchanged \/ CheckFails \/ CheckChanged
RunDone == RunFails \/ RunSucceeds
RebaselineDone == Rebaselined \/ RebaselineFails

Next ==
  \/ UserWrite \/ Touch \/ OwnWrite \/ Deliver \/ StartupSignal \/ Shutdown \/ Sample
  \/ BaselineRead \/ BaselineFails
  \/ RecvStartup \/ RecvEvent \/ CheckNow
  \/ NoteEvent \/ SuppressEvent
  \/ CheckDone \/ Submitted \/ LaneStarts \/ LaneEnds \/ SeeStarted \/ RunDone \/ Settled \/ RebaselineDone
  \/ Return

(* Timers fire (max_debounce bounds a batch that never falls quiet), state_cmd and the command
   have timeouts, the lane serves what it accepts (EveryRequestAnswered of Lane). *)
Fairness ==
  /\ WF_vars(Sample)
  /\ WF_vars(BaselineRead \/ BaselineFails)
  /\ WF_vars(CheckNow)
  /\ WF_vars(CheckDone)
  /\ WF_vars(Submitted)
  /\ WF_vars(LaneStarts)
  /\ WF_vars(LaneEnds)
  /\ WF_vars(SeeStarted)
  /\ WF_vars(RunDone)
  /\ WF_vars(Settled)
  /\ WF_vars(RebaselineDone)

Safety == Init /\ [][Next]_vars
Spec == Safety /\ Fairness

-----------------------------------------------------------------------------
(* Properties.                                                             *)

(* Every variable has its type; the event channel never exceeds its capacity. *)
FsTypeOK ==
  /\ conf \in [reader : BOOLEAN, mustReady : BOOLEAN]
  /\ user \in UserStates /\ own \in OwnStates /\ lag \in BOOLEAN
  /\ events \in 0..EventCap
  /\ startup \in {"absent", "armed", "raised"}
  /\ rpc \in Points /\ job \in {"batch", "startup"}
  /\ run \in {"none", "queued", "running"} \cup Outcomes
  /\ baseline \in SUBSET (UserStates \X OwnStates)
  /\ sample \in SUBSET (UserStates \X OwnStates)
  /\ dirty \in BOOLEAN /\ shutdown \in BOOLEAN
  /\ atStart \in UserStates /\ handled \in UserStates
  /\ window \in BOOLEAN /\ stale \in BOOLEAN /\ failed \in {"no", "batch", "startup"} /\ cause \in BOOLEAN

(* The runner has nothing to do and nothing is on its way to it. *)
AtRest == rpc = "recv" /\ events = 0 /\ ~lag /\ startup # "raised"

(* A source at rest has missed no write of others: the state it sees is the one its last
   successful run started from, unless the write fell into the source's own run or rebaseline
   (whose events are suppressed), state_cmd failed when it was to be looked at, the startup
   run failed, or the baseline is stale (FailedReadMissesNothing). *)
NothingMissed == AtRest => (handled = user \/ window \/ stale)

(* The command does not set itself off: with a state_cmd, a check triggers a run only after
   somebody else wrote, a run or a rebaseline failed, or there was no baseline. *)
NoSelfTrigger == [][rpc = "check" /\ rpc' = "submit" => cause]_vars

(* state_cmd never looks at the state while the source's own command, which may have written
   half of what it writes, is running or waits for its turn. *)
ReadsBetweenRuns == rpc \in {"baseline", "check", "reread"} => run = "none"

(* A source whose batch ended in a failed run never comes to rest over it: it checks again, or its
   next request is under way.  If the state_cmd of that check fails, the source rests until there is
   other work (docs/operations.md:60), and nothing is claimed of it. *)
FailedBatchStaysDirty ==
  failed = "batch" =>
    \/ rpc \in {"batch", "check", "submit", "returned"}
    \/ rpc = "await" /\ run \in {"queued", "refused"}

(* A failed run of a batch is followed up: another run, a check that finds the state
   reverted, or a state_cmd failure. *)
RetriesFailedRun == (failed = "batch") ~> (failed # "batch" \/ shutdown)

(* docs/operations.md: when state_cmd fails, the "source remains unreconciled and retries on
   later work".  So a failed rebaseline makes it miss nothing either. *)
FailedReadMissesNothing == AtRest => (handled = user \/ window)

(* docs/operations.md: a source "does not accept a failed run as reconciled; it remains dirty". *)
FailedRunStaysDirty == failed # "no" /\ ~shutdown => ~AtRest

(* What CommandService calls the state of the source's only request. *)
RunStatus ==
  CASE run = "none" -> "idle"
    [] run = "queued" -> "waiting"
    [] run = "running" -> "served"
    [] run \in {"succeeded", "failed"} -> "reported"
    [] run = "refused" -> "refused"

Lane == INSTANCE CommandService
  WITH Sources <- {"self"}, Commands <- {"own"}, Configured <- {"own"}, CmdOf <- [s \in {"self"} |-> "own"],
       status <- [s \in {"self"} |-> RunStatus], closing <- shutdown

(* What the source does with its lane, and believes of it, is what a command service of one
   source allows: Lane is one for each of its sources (EachSourceServed). *)
KeepsLaneTerms == Lane!ServiceSafety
=============================================================================

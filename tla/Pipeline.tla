------------------------------ MODULE Pipeline ------------------------------
(***************************************************************************)
(* From a source's event to a command run: the event channel of each       *)
(* source, its DebounceRunner (src/debounce.rs) or SystemResumeRunner      *)
(* (src/system_resume.rs), and the command lane they share (Lane).         *)
(*                                                                         *)
(* A watcher announces an event with try_send: when the channel is full    *)
(* the event is dropped, on the grounds that a run is coming anyway.       *)
(* dirty[s] is a history variable: an event of s has not yet been followed *)
(* by the start of a run for s.                                            *)
(***************************************************************************)
EXTENDS Lane

CONSTANTS
  ResumeSources,  (* sources with a SystemResumeRunner; the others debounce *)
  EventCap        (* capacity of a source's event channel (64 in the daemon) *)

(* That a source's command is configured is what the validation of the configuration sees to
   (AcceptedWires of DaemonProofs). *)
ASSUME PipelineAssumption ==
  /\ ResumeSources \subseteq Sources
  /\ \A s \in Sources : CmdOf[s] \in Configured
  /\ EventCap \in Nat \ {0}

VARIABLES
  events,   (* events waiting in each source's channel *)
  open,     (* the watcher still holds the sending end *)
  rpc,      (* where each source's runner is *)
  settled,  (* the settle timer of a resume runner has run out *)
  dirty

pipeVars == <<events, open, rpc, settled, dirty>>
allVars == <<vars, pipeVars>>

RunnerPoints == {"waiting", "quiet", "await", "returned"}

PInit ==
  /\ Init
  /\ events = [s \in Sources |-> 0]
  /\ open = [s \in Sources |-> TRUE]
  /\ rpc = [s \in Sources |-> "waiting"]
  /\ settled = [s \in Sources |-> FALSE]
  /\ dirty = [s \in Sources |-> FALSE]

-----------------------------------------------------------------------------
(* The watcher's side.                                                     *)

(* Mutant: the watcher does not mind that the channel is full. *)
QueueEventUnbounded(s) ==
  /\ open[s]
  /\ rpc[s] # "returned"
  /\ events[s] <= EventCap
  /\ events' = [events EXCEPT ![s] = @ + 1]
  /\ dirty' = [dirty EXCEPT ![s] = TRUE]
  /\ UNCHANGED <<vars, open, rpc, settled>>

(* try_send: Ok, or Full and the event is coalesced. *)
QueueEvent(s) ==
  /\ open[s]
  /\ rpc[s] # "returned"
  /\ events' = [events EXCEPT ![s] = IF @ < EventCap THEN @ + 1 ELSE @]
  /\ dirty' = [dirty EXCEPT ![s] = TRUE]
  /\ UNCHANGED <<vars, open, rpc, settled>>

(* The watcher task ends (shutdown, fatal failure, D-Bus stream closed). *)
WatcherEnds(s) ==
  /\ open[s]
  /\ open' = [open EXCEPT ![s] = FALSE]
  /\ UNCHANGED <<vars, events, rpc, settled, dirty>>

-----------------------------------------------------------------------------
(* DebounceRunner::run and SystemResumeRunner::run.                        *)

TakeEvent(s) ==
  /\ rpc[s] = "waiting"
  /\ events[s] > 0
  /\ events' = [events EXCEPT ![s] = @ - 1]
  /\ rpc' = [rpc EXCEPT ![s] = "quiet"]
  /\ UNCHANGED <<vars, open, settled, dirty>>

(* recv returns None. *)
EventsClosed(s) ==
  /\ rpc[s] = "waiting"
  /\ events[s] = 0
  /\ ~open[s]
  /\ rpc' = [rpc EXCEPT ![s] = "returned"]
  /\ UNCHANGED <<vars, events, open, settled, dirty>>

(* The settle timer runs out, or the channel closes while settling. *)
QuietElapses(s) ==
  /\ s \in ResumeSources
  /\ rpc[s] = "quiet"
  /\ ~settled[s]
  /\ settled' = [settled EXCEPT ![s] = TRUE]
  /\ UNCHANGED <<vars, events, open, rpc, dirty>>

(* wait_for_quiet: an event restarts the settle timer. *)
QuietRestarts(s) ==
  /\ s \in ResumeSources
  /\ rpc[s] = "quiet"
  /\ events[s] > 0
  /\ events' = [events EXCEPT ![s] = @ - 1]
  /\ settled' = [settled EXCEPT ![s] = FALSE]
  /\ UNCHANGED <<vars, open, rpc, dirty>>

(* Mutant: an event that comes in during the run is submitted at once. *)
SubmitTwice(s) ==
  \/ /\ rpc[s] = "quiet"
     /\ s \in ResumeSources => settled[s]
     /\ Request(s)
     /\ events' = [events EXCEPT ![s] = IF s \in ResumeSources THEN @ ELSE 0]
     /\ settled' = [settled EXCEPT ![s] = FALSE]
     /\ rpc' = [rpc EXCEPT ![s] = "await"]
     /\ UNCHANGED <<open, dirty>>
  \/ /\ rpc[s] = "await"
     /\ events[s] > 0
     /\ life[s] = "started"
     /\ Request(s)
     /\ events' = [events EXCEPT ![s] = 0]
     /\ UNCHANGED <<open, rpc, settled, dirty>>

(* The quiet time is over and run_once begins.  A debounce runner, whose timer no event
   restarts, has drained its channel first; its own cooldown is always zero in the daemon,
   the lane's min_interval takes its place. *)
Submit(s) ==
  /\ rpc[s] = "quiet"
  /\ s \in ResumeSources => settled[s]
  /\ Request(s)
  /\ events' = [events EXCEPT ![s] = IF s \in ResumeSources THEN @ ELSE 0]
  /\ settled' = [settled EXCEPT ![s] = FALSE]
  /\ rpc' = [rpc EXCEPT ![s] = "await"]
  /\ UNCHANGED <<open, dirty>>

(* Mutant: the events drained after the run are forgotten. *)
FinishForgetsDrained(s) ==
  /\ rpc[s] = "await"
  /\ Collect(s)
  /\ events' = [events EXCEPT ![s] = 0]
  /\ rpc' = [rpc EXCEPT ![s] = "waiting"]
  /\ UNCHANGED <<open, settled, dirty>>

(* The answer, good or bad, is in.  Events drained now call for another round. *)
Finish(s) ==
  /\ rpc[s] = "await"
  /\ Collect(s)
  /\ events' = [events EXCEPT ![s] = 0]
  /\ rpc' = [rpc EXCEPT ![s] = IF events[s] > 0 THEN "quiet" ELSE "waiting"]
  /\ UNCHANGED <<open, settled, dirty>>

(* Mutant: the runner only looks at shutdown while it waits for events. *)
QuitWhenIdle(s) ==
  /\ rpc[s] = "waiting"
  /\ Abandon(s)
  /\ rpc' = [rpc EXCEPT ![s] = "returned"]
  /\ UNCHANGED <<events, open, settled, dirty>>

(* Shutdown wins the select the runner is at. *)
Quit(s) ==
  /\ rpc[s] # "returned"
  /\ Abandon(s)
  /\ rpc' = [rpc EXCEPT ![s] = "returned"]
  /\ UNCHANGED <<events, open, settled, dirty>>

-----------------------------------------------------------------------------
(* The lane's steps; a run that starts clears dirty for the sources it serves. *)

LaneStep ==
  /\ RunnerStep \/ (\E s \in Sources : Send(s) \/ SendStopped(s))
  /\ dirty' = [s \in Sources |-> dirty[s] /\ ~(life[s] = "held" /\ life'[s] = "started")]
  /\ UNCHANGED <<events, open, rpc, settled>>

TimeOrSignal ==
  /\ Shutdown \/ TimePasses
  /\ UNCHANGED pipeVars

PTerminated ==
  /\ pc = "stopped"
  /\ phase = "Stopped"
  /\ \A s \in Sources : rpc[s] = "returned"
  /\ UNCHANGED allVars

RunnerTask(s) ==
  \/ TakeEvent(s)
  \/ EventsClosed(s)
  \/ QuietRestarts(s)
  \/ Submit(s)
  \/ Finish(s)

PNext ==
  \/ LaneStep
  \/ TimeOrSignal
  \/ \E s \in Sources : \/ QueueEvent(s) \/ WatcherEnds(s) \/ QuietElapses(s)
                        \/ RunnerTask(s) \/ Quit(s)
  \/ PTerminated

(* The lane's fairness, the runner tasks are scheduled, their timers fire, and a select that
   finds shutdown ready takes it eventually. *)
PFairness ==
  /\ WF_allVars(LaneStep /\ RunnerStep)
  /\ WF_allVars(TimeOrSignal /\ TimePasses)
  /\ \A s \in Sources :
       /\ SF_allVars(LaneStep /\ Send(s))
       /\ WF_allVars(LaneStep /\ SendStopped(s))
       /\ WF_allVars(RunnerTask(s))
       /\ WF_allVars(QuietElapses(s))
       /\ WF_allVars(Quit(s))

PSafety == PInit /\ [][PNext]_allVars
PSpec == PSafety /\ PFairness

-----------------------------------------------------------------------------
(* Properties.                                                             *)

(* Every variable has its type; an event channel never exceeds its capacity. *)
PTypeOK ==
  /\ TypeOK
  /\ events \in [Sources -> 0..EventCap]
  /\ open \in [Sources -> BOOLEAN]
  /\ rpc \in [Sources -> RunnerPoints]
  /\ settled \in [Sources -> BOOLEAN]
  /\ dirty \in [Sources -> BOOLEAN]

(* No wake-up is lost between a watcher and a command run: until shutdown, an event that no
   run has followed is still in the channel, or its runner is about to submit, or a request
   that no run has picked up yet is under way.  Dropping events into a full channel and the
   drains on both sides of a run must not break this. *)
NoLostWakeup ==
  \A s \in Sources :
    dirty[s] /\ ~shutdown =>
      \/ events[s] > 0
      \/ rpc[s] = "quiet"
      \/ rpc[s] = "await" /\ life[s] \in {"sending", "queued", "held"}

(* The runners keep the lane's terms: nothing in their steps looks at the lane's books, and
   yet no source ever has a second request under way, takes an answer that is not its own or
   asks anything of the lane after it has returned.  So what they do to the lane is a
   behaviour of Lane, and what is shown of the lane holds here. *)
KeepsLaneTerms == Safety

(* Every event of a debounced source is followed by the start of a run, or by shutdown.  So is
   a resume event once resumes stop coming: each restarts settle_seconds, so an endless stream
   of them may put the run off for ever. *)
EveryEventServed ==
  \A s \in Sources :
    \/ dirty[s] ~> (~dirty[s] \/ shutdown)
    \/ s \in ResumeSources /\ []<><<events'[s] > events[s]>>_allVars

(* On shutdown every runner and the lane come to rest; nobody waits for an answer that the
   others can no longer give. *)
EverybodyStops ==
  shutdown ~> (phase = "Stopped" /\ \A s \in Sources : rpc[s] = "returned")
=============================================================================

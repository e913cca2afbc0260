-------------------------------- MODULE Lane --------------------------------
(***************************************************************************)
(* One command lane: CommandLaneRunner::run of src/lane.rs, the channel of *)
(* requests into it, and the sources at the other end of the channel.      *)
(*                                                                         *)
(* A source has at most one request under way (its runner awaits the       *)
(* lifecycle of one trigger before it starts the next), so a request is    *)
(* identified with its source.  A request travels                          *)
(*                                                                         *)
(*    none -> sending -> queued -> held -> started -> a report -> none     *)
(*                                                                         *)
(* where "queued" is in the mpsc channel, "held" is in PendingRequests or  *)
(* in the batch of a command that cools down.  The runner is one task: pc  *)
(* is the await point (or loop head) it is at.                             *)
(***************************************************************************)
EXTENDS Naturals, Sequences, FiniteSets, Functions

CONSTANTS
  Sources,     (* sources whose triggers send to this lane *)
  Commands,    (* command names the triggers carry *)
  Configured,  (* commands of the lane's HashMap<_, LaneCommand> *)
  Interval,    (* min_interval of each of these, in units of time *)
  CmdOf,       (* the command of each source's trigger *)
  Cap          (* capacity of the request channel (64 in the daemon) *)

ASSUME LaneAssumption ==
  /\ Configured \subseteq Commands
  /\ Interval \in [Configured -> Nat]
  /\ CmdOf \in [Sources -> Commands]
  /\ Cap \in Nat \ {0}
  /\ "none" \notin Commands

VARIABLES
  requests,    (* the mpsc channel, oldest request first *)
  order,       (* PendingRequests::order *)
  waiters,     (* PendingRequests::waiters; {} is "no entry" *)
  command,     (* the command popped and being served, or "none" *)
  batch,       (* run's local waiters: the requests that command serves *)
  finished,    (* last_finished: for how long it has been on record that the last run of a
                  command ended, counted up to its interval; no entry counts as the whole *)
  pc,          (* where the runner task is *)
  phase,       (* CommandRunnerPhase of the lane in RuntimeState *)
  life,        (* each source's request *)
  left,        (* sources that gave up on shutdown and dropped their receiver *)
  shutdown,    (* the watch channel's value *)
  rest         (* history: the time since a run of each command came to an end, counted as in
                  finished; the runner does not read it *)

runnerVars == <<order, waiters, command, batch, finished, pc, phase, rest>>
vars == <<requests, order, waiters, command, batch, finished, pc, phase,
          life, left, shutdown, rest>>

RunReports == {"succeeded", "failed"}
Refusals == {"unknown", "cancelled", "lost", "rejected"}
Answers == RunReports \cup Refusals
Lives == {"none", "sending", "queued", "held", "started"} \cup Answers
Points == {"begin", "idle", "next", "cooling", "running", "drain", "returning", "stopped"}
Phases == {"Starting", "Idle", "CoolingDown", "Running", "Stopped"}

Init ==
  /\ requests = <<>>
  /\ order = <<>>
  /\ waiters = [c \in Commands |-> {}]
  /\ command = "none"
  /\ batch = {}
  /\ finished = Interval
  /\ pc = "begin"
  /\ phase = "Starting"
  /\ life = [s \in Sources |-> "none"]
  /\ left = {}
  /\ shutdown = FALSE
  /\ rest = Interval

Answer(S, r) == life' = [s \in Sources |-> IF s \in S THEN r ELSE life[s]]

-----------------------------------------------------------------------------
(* The sources: CommandTrigger::start and await_trigger_finished.  What a call does is kept  *)
(* apart from the terms on which the lane expects it: a source that has not returned, with   *)
(* no other request under way.  That the runners keep these terms is a claim of Pipeline.    *)

Request(s) ==
  /\ Answer({s}, "sending")
  /\ UNCHANGED <<requests, runnerVars, left, shutdown>>

Trigger(s) == s \notin left /\ life[s] = "none" /\ Request(s)

Enqueue(s) ==
  /\ life[s] = "sending"
  /\ pc # "stopped"
  /\ requests' = Append(requests, s)
  /\ Answer({s}, "queued")
  /\ UNCHANGED <<runnerVars, left, shutdown>>

(* Mutant: a channel without its bound. *)
SendUnbounded(s) == Enqueue(s)

(* The send future completes once the bounded channel has room. *)
Send(s) == Len(requests) < Cap /\ Enqueue(s)

(* The receiver is gone: LaneStopped. *)
SendStopped(s) ==
  /\ life[s] = "sending"
  /\ pc = "stopped"
  /\ Answer({s}, "rejected")
  /\ UNCHANGED <<requests, runnerVars, left, shutdown>>

(* The source's runner receives the answer. *)
Collect(s) ==
  /\ life[s] \in Answers
  /\ Answer({s}, "none")
  /\ UNCHANGED <<requests, runnerVars, left, shutdown>>

TakeAnswer(s) == s \notin left /\ Collect(s)

(* Shutdown wins the select of the source's runner: it returns.  A send that has not
   completed is dropped with its future; any other request stays where it is. *)
Abandon(s) ==
  /\ shutdown
  /\ left' = left \cup {s}
  /\ Answer(IF life[s] = "sending" THEN {s} ELSE {}, "none")
  /\ UNCHANGED <<requests, runnerVars, shutdown>>

Leave(s) == s \notin left /\ Abandon(s)

Shutdown ==
  /\ ~shutdown
  /\ shutdown' = TRUE
  /\ UNCHANGED <<requests, runnerVars, life, left>>

(* age a unit later. *)
Older(age) == [c \in Configured |-> IF age[c] < Interval[c] THEN age[c] + 1 ELSE age[c]]

(* A unit of time passes, while it makes a difference to some interval. *)
TimePasses ==
  /\ \E c \in Configured : finished[c] < Interval[c] \/ rest[c] < Interval[c]
  /\ finished' = Older(finished)
  /\ rest' = Older(rest)
  /\ UNCHANGED <<requests, order, waiters, command, batch, pc, phase, life, left, shutdown>>

-----------------------------------------------------------------------------
(* PendingRequests.                                                        *)

IsEmpty == \A c \in Commands : waiters[c] = {}

(* Mutant: every push queues the command, also when it has an entry already. *)
PushTwice(s) ==
  /\ order' = Append(order, CmdOf[s])
  /\ waiters' = [waiters EXCEPT ![CmdOf[s]] = @ \cup {s}]
  /\ Answer({s}, "held")

(* Mutant: a command with an entry does not take the new waiter. *)
PushForgets(s) ==
  /\ order' = IF waiters[CmdOf[s]] = {} THEN Append(order, CmdOf[s]) ELSE order
  /\ waiters' = [waiters EXCEPT ![CmdOf[s]] = IF @ = {} THEN {s} ELSE @]
  /\ Answer({s}, "held")

Push(s) ==
  /\ order' = IF waiters[CmdOf[s]] = {} THEN Append(order, CmdOf[s]) ELSE order
  /\ waiters' = [waiters EXCEPT ![CmdOf[s]] = @ \cup {s}]
  /\ Answer({s}, "held")

(* pop_next_command followed by take_waiters: entries of order that have no waiters are
   skipped; c is the first that has some. *)
PopNextCommand(c) ==
  \E i \in 1..Len(order) :
    /\ \A j \in 1..(i - 1) : waiters[order[j]] = {}
    /\ waiters[order[i]] # {}
    /\ c = order[i]
    /\ order' = SubSeq(order, i + 1, Len(order))
    /\ waiters' = [waiters EXCEPT ![c] = {}]

AllPending == UNION {waiters[c] : c \in Commands}

(* Shutdown is seen at await point p: the waiters in S and all pending ones are told
   Cancelled, and run returns. *)
CancelPending(p, S) ==
  /\ pc = p
  /\ shutdown
  /\ Answer(S \cup AllPending, "cancelled")
  /\ order' = <<>>
  /\ waiters' = [c \in Commands |-> {}]
  /\ command' = "none"
  /\ batch' = {}
  /\ pc' = "returning"
  /\ UNCHANGED <<requests, finished, phase, left, shutdown>>

-----------------------------------------------------------------------------
(* CommandLaneRunner::run.                                                 *)

Begin ==
  /\ pc = "begin"
  /\ pc' = "idle"
  /\ phase' = "Idle"
  /\ UNCHANGED <<requests, order, waiters, command, batch, finished, life, left, shutdown>>

Receive(s) ==
  /\ requests # <<>>
  /\ s = Head(requests)
  /\ requests' = Tail(requests)

(* The select with nothing pending.  It is not biased: with shutdown signalled and a
   request in the channel either branch may be taken. *)
IdleReceive ==
  /\ pc = "idle"
  /\ IsEmpty
  /\ \E s \in Sources : Receive(s) /\ Push(s)
  /\ pc' = "next"
  /\ UNCHANGED <<command, batch, finished, phase, left, shutdown>>

(* Mutant: the shutdown branch goes round the loop instead of leaving it. *)
IdleShutdownIgnored == pc = "idle" /\ shutdown /\ IsEmpty /\ UNCHANGED vars

IdleShutdown == IsEmpty /\ CancelPending("idle", {})

(* Mutant: a lane with nothing left to pop returns. *)
NextNoneReturns ==
  /\ pc = "next"
  /\ \A i \in 1..Len(order) : waiters[order[i]] = {}
  /\ order' = <<>>
  /\ pc' = "returning"
  /\ UNCHANGED <<requests, waiters, command, batch, finished, phase, life, left, shutdown>>

(* pop_next_command finds nothing: back to the head of the loop. *)
NextNone ==
  /\ pc = "next"
  /\ \A i \in 1..Len(order) : waiters[order[i]] = {}
  /\ order' = <<>>
  /\ pc' = "idle"
  /\ UNCHANGED <<requests, waiters, command, batch, finished, phase, life, left, shutdown>>

NextUnknown ==
  /\ pc = "next"
  /\ \E c \in Commands \ Configured :
       PopNextCommand(c) /\ Answer(waiters[c], "unknown")
  /\ UNCHANGED <<requests, command, batch, finished, pc, phase, left, shutdown>>

(* start_waiters and mark_command_started: the run of c begins. *)
StartRun(c, W) ==
  /\ command' = c
  /\ batch' = W
  /\ Answer(W, "started")
  /\ pc' = "running"
  /\ phase' = "Running"

(* wait_for_min_interval returns at once: no earlier run, no interval, or it has passed. *)
NextRun ==
  /\ pc = "next"
  /\ \E c \in Configured :
       finished[c] >= Interval[c] /\ PopNextCommand(c) /\ StartRun(c, waiters[c])
  /\ UNCHANGED <<requests, finished, left, shutdown>>

NextCoolDown ==
  /\ pc = "next"
  /\ \E c \in Configured :
       /\ finished[c] < Interval[c]
       /\ PopNextCommand(c)
       /\ command' = c
       /\ batch' = waiters[c]
  /\ pc' = "cooling"
  /\ phase' = "CoolingDown"
  /\ UNCHANGED <<requests, finished, life, left, shutdown>>

CoolingElapsed ==
  /\ pc = "cooling"
  /\ finished[command] >= Interval[command]
  /\ StartRun(command, batch)
  /\ UNCHANGED <<requests, order, waiters, finished, left, shutdown>>

(* Mutant: only the requests that wait behind the cooling command are cancelled. *)
CoolingShutdownForgetsBatch == CancelPending("cooling", {})

CoolingShutdown == CancelPending("cooling", batch)

(* A request for the cooling command joins its batch; it will be served by the run to come. *)
CoolingJoin ==
  /\ pc = "cooling"
  /\ \E s \in Sources :
       /\ Receive(s)
       /\ CmdOf[s] = command
       /\ batch' = batch \cup {s}
       /\ Answer({s}, "held")
  /\ UNCHANGED <<order, waiters, command, finished, pc, phase, left, shutdown>>

(* A request for another command waits its turn. *)
CoolingPush ==
  /\ pc = "cooling"
  /\ \E s \in Sources : Receive(s) /\ CmdOf[s] # command /\ Push(s)
  /\ UNCHANGED <<command, batch, finished, pc, phase, left, shutdown>>

(* run_command returns with an outcome or an error and the sources in S get the report.
   "failed" is every report whose success() is false: a bad exit, a timeout, a run cut short
   by shutdown, an executor error. *)
RunEnds(S) ==
  /\ pc = "running"
  /\ \E r \in RunReports : Answer(S, r)
  /\ command' = "none"
  /\ batch' = {}
  /\ pc' = "drain"
  /\ UNCHANGED <<requests, order, waiters, left, shutdown>>

(* Mutant: only the command that ran last has its end on record. *)
EndRunKeepsOne(S) ==
  /\ RunEnds(S)
  /\ finished' = [c \in Configured |-> IF c = command THEN 0 ELSE Interval[c]]

(* The end is entered in last_finished, whatever the report. *)
EndRun(S) == RunEnds(S) /\ finished' = [finished EXCEPT ![command] = 0]

(* Mutant: an executor error leaves the lane's phase at Running. *)
FinishRunStalePhase == EndRun(batch) /\ phase' \in {"Idle", phase}

(* Mutant: the report also goes to requests for this command that are still queued. *)
FinishRunAnswersQueued ==
  /\ EndRun(batch \cup {s \in Sources : life[s] = "queued" /\ CmdOf[s] = command})
  /\ phase' = "Idle"

FinishRun == EndRun(batch) /\ phase' = "Idle"

(* drain_requests takes one request after the other; senders may refill the channel meanwhile. *)
DrainReceive ==
  /\ pc = "drain"
  /\ \E s \in Sources : Receive(s) /\ Push(s)
  /\ UNCHANGED <<command, batch, finished, pc, phase, left, shutdown>>

(* Nothing is left to drain: go on with the next pending command. *)
GoOn ==
  /\ pc = "drain"
  /\ requests = <<>>
  /\ pc' = "next"
  /\ UNCHANGED <<requests, order, waiters, command, batch, finished, phase, life, left, shutdown>>

(* Mutant: shutdown is not looked at between two runs. *)
DrainDoneAlways == GoOn

DrainDone == ~shutdown /\ GoOn

DrainShutdown == requests = <<>> /\ CancelPending("drain", {})

(* run has returned and the receiver is dropped with everything still in the channel:
   those sources see their lifecycle channel close, CompletionLost. *)
DropReceiver ==
  /\ pc = "returning"
  /\ pc' = "stopped"
  /\ requests' = <<>>
  /\ Answer({s \in Sources : life[s] = "queued"}, "lost")
  /\ UNCHANGED <<order, waiters, command, batch, finished, phase, left, shutdown>>

(* spawn_lane_runner's supervisor sees the task end. *)
MarkStopped ==
  /\ pc = "stopped"
  /\ phase # "Stopped"
  /\ phase' = "Stopped"
  /\ UNCHANGED <<requests, order, waiters, command, batch, finished, pc, life, left, shutdown>>

(* The lane has stopped and every source has returned. *)
Terminated ==
  /\ pc = "stopped"
  /\ phase = "Stopped"
  /\ left = Sources
  /\ UNCHANGED vars

RunnerMove ==
  \/ Begin
  \/ IdleReceive
  \/ IdleShutdown
  \/ NextNone
  \/ NextUnknown
  \/ NextRun
  \/ NextCoolDown
  \/ CoolingElapsed
  \/ CoolingShutdown
  \/ CoolingJoin
  \/ CoolingPush
  \/ FinishRun
  \/ DrainReceive
  \/ DrainDone
  \/ DrainShutdown
  \/ DropReceiver
  \/ MarkStopped

(* rest is kept beside the runner's steps: a run ends when the task is no longer at it. *)
Observe ==
  rest' = [c \in Configured |->
             IF pc = "running" /\ pc' # "running" /\ c = command THEN 0 ELSE rest[c]]

RunnerStep == RunnerMove /\ Observe

SourceStep(s) ==
  \/ Trigger(s)
  \/ Send(s)
  \/ SendStopped(s)
  \/ TakeAnswer(s)
  \/ Leave(s)

Next ==
  \/ RunnerStep
  \/ \E s \in Sources : SourceStep(s)
  \/ TimePasses
  \/ Shutdown
  \/ Terminated

(***************************************************************************)
(* The runner task is scheduled and a command run ends (run_named_shell_   *)
(* command enforces a timeout and kills the process group).  A sender      *)
(* waiting for room is served in FIFO order by the channel's semaphore, so *)
(* it cannot be passed over for ever: strong fairness.  So is the shutdown *)
(* branch of the idle select, as tokio picks at random among those that    *)
(* are ready.  Timers fire.                                                *)
(***************************************************************************)
Fairness ==
  /\ WF_vars(RunnerStep) /\ SF_vars(IdleShutdown /\ Observe)
  /\ \A s \in Sources : SF_vars(Send(s)) /\ WF_vars(SendStopped(s))
  /\ WF_vars(TimePasses)

Safety == Init /\ [][Next]_vars
Spec == Safety /\ Fairness
-----------------------------------------------------------------------------
(* Properties.                                                             *)

(* The time since a run of a command, on record and in fact, is a number up to its interval. *)
AgeTypes ==
  /\ finished \in [Configured -> Nat]
  /\ rest \in [Configured -> Nat]
  /\ \A c \in Configured : finished[c] <= Interval[c] /\ rest[c] <= Interval[c]

(* Where requests and the runner may be; the channel never exceeds its capacity. *)
PlaceTypes ==
  /\ requests \in Seq(Sources)
  /\ Len(requests) <= Cap
  /\ order \in Seq(Commands)
  /\ waiters \in [Commands -> SUBSET Sources]
  /\ command \in Commands \cup {"none"}
  /\ batch \in SUBSET Sources
  /\ pc \in Points
  /\ phase \in Phases
  /\ life \in [Sources -> Lives]
  /\ left \in SUBSET Sources
  /\ shutdown \in BOOLEAN

(* Every variable has its type. *)
TypeOK == PlaceTypes /\ AgeTypes

(* PendingRequests stays coherent: order lists exactly the commands that have waiters, each
   once.  A command with waiters and no place in order would never be popped, and is_empty,
   which only looks at waiters, would keep run spinning; one listed twice would run once
   more with nobody waiting. *)
PendingCoherent ==
  /\ Range(order) = {c \in Commands : waiters[c] # {}}
  /\ IsInjective(order)

(* A request is always in exactly the place its source believes it to be: once in the
   channel, or among the waiters of its own command, or in the batch being served.  In
   particular none is left behind in a lane that has returned: when the runner is gone every
   request it had accepted has been answered. *)
RequestPlaces ==
  /\ Range(requests) = {s \in Sources : life[s] = "queued"}
  /\ IsInjective(requests)
  /\ \A s \in Sources : (life[s] = "held") <=>
       (s \in waiters[CmdOf[s]] \/ (pc = "cooling" /\ s \in batch))
  /\ \A s \in Sources : (life[s] = "started") <=> (pc = "running" /\ s \in batch)
  /\ \A c \in Commands : \A s \in waiters[c] : CmdOf[s] = c /\ s \notin batch
  /\ pc \in {"cooling", "running"} =>
       batch # {} /\ command \in Configured /\ \A s \in batch : CmdOf[s] = command
  /\ pc \notin {"cooling", "running"} => batch = {}
  /\ pc \in {"begin", "idle", "returning", "stopped"} => IsEmpty
  /\ pc = "stopped" => requests = <<>>

(* The phase the health check reads agrees with the runner: Running exactly while a command
   runs, so an ended run never counts against the command timeout, and Stopped only once
   the runner is gone. *)
PhaseHonest ==
  /\ (phase = "Running") <=> (pc = "running")
  /\ phase = "CoolingDown" => pc \in {"cooling", "returning", "stopped"}
  /\ phase = "Stopped" => pc = "stopped"

(* The runner only ever returns because shutdown was signalled: while the daemon serves, no
   burst of requests, unknown name or failed run ends a lane. *)
ReturnsOnlyOnShutdown == pc \in {"returning", "stopped"} => shutdown

(* From the end of a run to the start of the next of the same command at least min_interval
   passes, whatever the report, whichever source asks, however many runs of other commands
   end in between, and whether or not the lane is shutting down. *)
MinIntervalRespected ==
  [][phase' = "Running" /\ phase # "Running" => rest[command'] >= Interval[command']]_vars

(* Once shutdown is signalled at most one more run begins (the one that had won the select
   already): a lane that ends a run during shutdown never runs anything again. *)
NoSecondRunAfterShutdown == [](shutdown /\ pc = "drain" => [](pc # "running"))

(* x comes before y in the queue q. *)
Ahead(q, x, y) == \E i, j \in DOMAIN q : i < j /\ q[i] = x /\ q[j] = y

(* From q to p nobody has got ahead of an x that was in the queue already, and none that was
   behind has left it while one ahead of it is still there. *)
InTurn(q, p) ==
  \A x \in Range(q) : \A y \in Range(q) \cup Range(p) :
    /\ Ahead(p, y, x) => Ahead(q, y, x)
    /\ Ahead(q, y, x) /\ x \notin Range(p) => y \notin Range(p)

(* No request overtakes another in the channel and no command overtakes another in
   PendingRequests, where a new waiter for a command keeps that command's place; what is
   served next is always the command at the front. *)
ServedInTurn ==
  [][ /\ InTurn(requests, requests')
      /\ InTurn(order, order')
      /\ command' \notin {command, "none"} => order # <<>> /\ command' = Head(order) ]_vars

(* Every request, also one still waiting for room in the channel, is answered eventually:
   no command starves another and no waiter is forgotten. *)
EveryRequestAnswered ==
  \A s \in Sources : (life[s] \in {"sending", "queued", "held", "started"})
                       ~> (life[s] \in Answers \cup {"none"})

(* Shutdown always ends in a stopped lane that is marked so. *)
ShutdownStopsLane == shutdown ~> (phase = "Stopped")

ServiceStatus ==
  [s \in Sources |->
     IF life[s] \in {"none", "sending"} THEN "idle"
     ELSE IF life[s] \in {"queued", "held"} THEN "waiting"
     ELSE IF life[s] = "started" THEN "served"
     ELSE IF life[s] \in RunReports THEN "reported"
     ELSE "refused"]

Service == INSTANCE CommandService WITH status <- ServiceStatus, closing <- shutdown

(* The lane is a command service: one run at a time, each for sources that were accepted
   before it began, reports to exactly those, and before shutdown no request for a
   configured command is refused. *)
ImplementsService == Service!ServiceSafety

(* The service one source sees, whatever the others do. *)
SeenBy(self) == INSTANCE CommandService
  WITH Sources <- {self}, CmdOf <- [s \in {self} |-> CmdOf[s]],
       status <- [s \in {self} |-> ServiceStatus[s]], closing <- shutdown

(* To each of its sources the lane is a command service of its own: the others may make it wait,
   nothing else.  So a model of one source may take the lane for one (FsState does). *)
EachSourceServed ==
  /\ \A s \in Sources : SeenBy(s)!ServiceInit
  /\ [][\A s \in Sources : SeenBy(s)!ServiceNext \/ UNCHANGED SeenBy(s)!svars]_vars
=============================================================================

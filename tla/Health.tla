------------------------------- MODULE Health --------------------------------
(***************************************************************************)
(* What systemd hears of the daemon between READY and STOPPING: the        *)
(* progress times, phases and status of RuntimeState (src/state.rs), the   *)
(* tasks that write them, the supervisors of src/main.rs, the heartbeats   *)
(* of src/fs_state.rs and src/system_resume.rs, and run_status_task of     *)
(* src/systemd.rs, which reads them.                                       *)
(*                                                                         *)
(* Time is discrete: Tick lets a unit of it pass once nothing is due.      *)
(* Reporters are IMAP and Gmail sources, whose watcher task marks its own  *)
(* progress; Beaters are fs_state and system_resume sources, for which a   *)
(* heartbeat task does.  Every source has a runner besides its watcher.    *)
(* A phase is "up" when health asks for nothing more of it than progress.  *)
(***************************************************************************)
EXTENDS Integers, FiniteSets, FiniteSetsExt

CONSTANTS
  Reporters, Beaters,   (* the sources *)
  Lanes,                (* the command lanes *)
  Timeout,              (* [Lanes -> Nat], of the command of each lane *)
  Stale,                (* watcher_stale *)
  Progress,             (* how long a working watcher of Reporters may go without a mark: 2 x
                           idle_refresh, which is no more than Stale, or a poll interval, which is not
                           held against it (config.rs:791) *)
  Grace,                (* how long the termination of a timed out command takes *)
  Period,               (* half of the watchdog interval *)
  MaxFaults             (* bound on panics and on tasks and runs that hang *)

Watchers == Reporters \cup Beaters

ASSUME HealthAssumption ==
  /\ Reporters \cap Beaters = {} /\ Watchers \cap Lanes = {} /\ IsFiniteSet(Lanes)
  /\ Timeout \in [Lanes -> Nat \ {0}]
  /\ Stale \in Nat \ {0} /\ Progress \in Nat \ {0}
  /\ Period \in Nat \ {0} /\ Grace \in 0 .. Period - 1
  /\ MaxFaults \in Nat

VARIABLES
  watcher,        (* each watcher task: working, stuck, dead *)
  runner,         (* each debounce or resume runner task: working, dead *)
  lane,           (* each lane task: idle, running, hanging in a run, dead *)
  undelivered,    (* sources and lanes of which a supervisor has yet to mark a panic *)
  wphase, age,    (* WatcherStatus: up or Crashed, and the time since last_progress *)
  lphase, elapsed,(* CommandRunnerStatus: off, Running, Crashed, and the time since command_started *)
  seen, last,     (* last_event_seen, last_command_success *)
  owed,           (* changes of the status whose notify_status_changed is still to come *)
  task,           (* run_status_task: subscribed, serving, over *)
  news,           (* the status revision has changed since the task looked *)
  shown,          (* the status it sent last *)
  tick,           (* time since its last periodic tick *)
  silence,        (* time since the last ping *)
  late,           (* how often a run has exceeded the longest timeout since then, up to twice, or 0
                     once a watcher has been tardy *)
  tardy,          (* a working Reporter has gone without a mark for longer than Stale since then *)
  faults

marks == <<wphase, age, lphase, elapsed, seen, last>>
tasks == <<watcher, runner, lane, undelivered>>
notifier == <<task, shown, tick, silence, late, tardy>>
vars == <<tasks, marks, owed, news, notifier, faults>>

MaxTimeout == Max({Timeout[l] : l \in Lanes} \cup {0})

RunningCommands == Cardinality({l \in Lanes : lphase[l] = "Running"})
Status == [running |-> RunningCommands, seen |-> seen, last |-> last]

Init ==
  /\ watcher = [w \in Watchers |-> "working"] /\ runner = [w \in Watchers |-> "working"]
  /\ lane = [l \in Lanes |-> "idle"] /\ undelivered = {}
  /\ wphase = [w \in Watchers |-> "up"] /\ age = [w \in Watchers |-> 0]
  /\ lphase = [l \in Lanes |-> "off"] /\ elapsed = [l \in Lanes |-> 0]
  /\ seen = FALSE /\ last = "none"
  /\ owed = {} /\ task = "subscribed" /\ news = FALSE
  /\ shown = Status /\ tick = 0 /\ silence = 0 /\ late = 0 /\ tardy = FALSE /\ faults = 0

-----------------------------------------------------------------------------
(* The sources.                                                            *)

(* Mutant: any mark of progress brings a watcher back. *)
ReviveByBeat(w) ==
  /\ w \in Beaters
  /\ wphase' = [wphase EXCEPT ![w] = "up"]
  /\ age' = [age EXCEPT ![w] = 0]
  /\ UNCHANGED <<tasks, lphase, elapsed, seen, last, owed, news, notifier, faults>>

(* mark_watcher overwrites whatever phase there was. *)
Report(w) ==
  /\ w \in Reporters /\ watcher[w] = "working"
  /\ wphase' = [wphase EXCEPT ![w] = "up"]
  /\ age' = [age EXCEPT ![w] = 0]
  /\ UNCHANGED <<tasks, lphase, elapsed, seen, last, owed, news, notifier, faults>>

(* The heartbeat is a task of its own: it outlives a panic of the watcher and does not see that
   it hangs.  mark_watcher_progress leaves a crashed watcher alone. *)
Beat(w) ==
  /\ w \in Beaters
  /\ wphase[w] # "Crashed"
  /\ age' = [age EXCEPT ![w] = 0]
  /\ UNCHANGED <<tasks, wphase, lphase, elapsed, seen, last, owed, news, notifier, faults>>

(* mark_event notifies of the first event only. *)
Event ==
  /\ ~seen
  /\ seen' = TRUE /\ owed' = owed \cup {"event"}
  /\ UNCHANGED <<tasks, wphase, age, lphase, elapsed, last, news, notifier, faults>>

-----------------------------------------------------------------------------
(* The lanes.                                                              *)

StartCommand(l) ==
  /\ lane[l] = "idle"
  /\ lane' = [lane EXCEPT ![l] = "running"]
  /\ lphase' = [lphase EXCEPT ![l] = "Running"]
  /\ elapsed' = [elapsed EXCEPT ![l] = 0]
  /\ owed' = owed \cup {l}
  /\ UNCHANGED <<watcher, runner, undelivered, wphase, age, seen, last, news, notifier, faults>>

(* Mutant: the end of a command is not news. *)
FinishQuietly(l, result) ==
  /\ lane[l] = "running" /\ elapsed[l] > 0
  /\ lane' = [lane EXCEPT ![l] = "idle"]
  /\ lphase' = [lphase EXCEPT ![l] = "off"]
  /\ elapsed' = [elapsed EXCEPT ![l] = 0]
  /\ last' = IF result = "cancelled" THEN last ELSE result
  /\ UNCHANGED <<watcher, runner, undelivered, wphase, age, seen, owed, news, notifier, faults>>

(* Mutant: the start of the command is not forgotten. *)
FinishStillRunning(l, result) ==
  /\ lane[l] = "running" /\ elapsed[l] > 0
  /\ lane' = [lane EXCEPT ![l] = "idle"]
  /\ last' = IF result = "cancelled" THEN last ELSE result
  /\ owed' = owed \cup {l}
  /\ UNCHANGED <<watcher, runner, undelivered, wphase, age, lphase, elapsed, seen, news, notifier,
                 faults>>

(* A run takes a unit of time at least.  One that could not be executed marks its error and its end
   one after the other; the second mark always notifies, so they are one step. *)
FinishCommand(l, result) ==
  /\ lane[l] = "running" /\ elapsed[l] > 0
  /\ lane' = [lane EXCEPT ![l] = "idle"]
  /\ lphase' = [lphase EXCEPT ![l] = "off"]
  /\ elapsed' = [elapsed EXCEPT ![l] = 0]
  /\ last' = IF result = "cancelled" THEN last ELSE result
  /\ owed' = owed \cup {l}
  /\ UNCHANGED <<watcher, runner, undelivered, wphase, age, seen, news, notifier, faults>>

(* The lock is released before the revision is raised. *)
NotifyChange(x) ==
  /\ x \in owed
  /\ owed' = owed \ {x} /\ news' = TRUE
  /\ UNCHANGED <<tasks, marks, notifier, faults>>

-----------------------------------------------------------------------------
(* What goes wrong, and the supervisors.                                   *)

Fault == faults < MaxFaults /\ faults' = faults + 1

WatcherPanics(w) ==
  /\ watcher[w] # "dead" /\ Fault
  /\ watcher' = [watcher EXCEPT ![w] = "dead"]
  /\ undelivered' = undelivered \cup {w}
  /\ UNCHANGED <<runner, lane, marks, owed, news, notifier>>

WatcherHangs(w) ==
  /\ watcher[w] = "working" /\ Fault
  /\ watcher' = [watcher EXCEPT ![w] = "stuck"]
  /\ UNCHANGED <<runner, lane, undelivered, marks, owed, news, notifier>>

RunnerPanics(w) ==
  /\ runner[w] = "working" /\ Fault
  /\ runner' = [runner EXCEPT ![w] = "dead"]
  /\ undelivered' = undelivered \cup {w}
  /\ UNCHANGED <<watcher, lane, marks, owed, news, notifier>>

LanePanics(l) ==
  /\ lane[l] # "dead" /\ Fault
  /\ lane' = [lane EXCEPT ![l] = "dead"]
  /\ undelivered' = undelivered \cup {l}
  /\ UNCHANGED <<watcher, runner, marks, owed, news, notifier>>

(* A run that its timeout does not end. *)
RunHangs(l) ==
  /\ lane[l] = "running" /\ Fault
  /\ lane' = [lane EXCEPT ![l] = "hanging"]
  /\ UNCHANGED <<watcher, runner, undelivered, marks, owed, news, notifier>>

(* spawn_debounce_runner and the other supervisors of a source: mark_watcher(Crashed). *)
MarkWatcherCrashed(w) ==
  /\ w \in undelivered \cap Watchers
  /\ undelivered' = undelivered \ {w}
  /\ wphase' = [wphase EXCEPT ![w] = "Crashed"]
  /\ age' = [age EXCEPT ![w] = 0]
  /\ UNCHANGED <<watcher, runner, lane, lphase, elapsed, seen, last, owed, news, notifier, faults>>

(* Mutant: the supervisor of a lane shows the end of its task as idle. *)
MarkLaneIdle(l) ==
  /\ l \in undelivered \cap Lanes
  /\ undelivered' = undelivered \ {l}
  /\ lphase' = [lphase EXCEPT ![l] = "off"]
  /\ elapsed' = [elapsed EXCEPT ![l] = 0]
  /\ owed' = IF lphase[l] = "Running" THEN owed \cup {l} ELSE owed
  /\ UNCHANGED <<watcher, runner, lane, wphase, age, seen, last, news, notifier, faults>>

(* mark_command_runner notifies when the number of running commands has changed. *)
MarkLaneCrashed(l) ==
  /\ l \in undelivered \cap Lanes
  /\ undelivered' = undelivered \ {l}
  /\ lphase' = [lphase EXCEPT ![l] = "Crashed"]
  /\ elapsed' = [elapsed EXCEPT ![l] = 0]
  /\ owed' = IF lphase[l] = "Running" THEN owed \cup {l} ELSE owed
  /\ UNCHANGED <<watcher, runner, lane, wphase, age, seen, last, news, notifier, faults>>

-----------------------------------------------------------------------------
(* run_status_task.                                                        *)

WatchersHealthy == \A w \in Watchers : wphase[w] # "Crashed" /\ age[w] <= Stale

(* A run is compared with the longest timeout of all commands. *)
LanesHealthy ==
  \A l \in Lanes : /\ lphase[l] # "Crashed"
                   /\ lphase[l] = "Running" => elapsed[l] <= MaxTimeout

Healthy == WatchersHealthy /\ LanesHealthy

StartServing ==
  /\ task = "subscribed"
  /\ task' = "serving" /\ shown' = Status
  /\ UNCHANGED <<tasks, marks, owed, news, tick, silence, late, tardy, faults>>

(* Sends the status, and the ping if health allows it; if not, the status once more, with a word
   on health that is left out here. *)
PeriodicTick ==
  /\ task = "serving" /\ tick = Period
  /\ tick' = 0 /\ shown' = Status
  /\ IF Healthy THEN silence' = 0 /\ late' = 0 /\ tardy' = FALSE ELSE UNCHANGED <<silence, late, tardy>>
  /\ UNCHANGED <<tasks, marks, owed, news, task, faults>>

(* biased: the tick comes first. *)
StatusChange ==
  /\ task = "serving" /\ news /\ tick < Period
  /\ news' = FALSE /\ shown' = Status
  /\ UNCHANGED <<tasks, marks, owed, task, tick, silence, late, tardy, faults>>

-----------------------------------------------------------------------------
(* Time.                                                                   *)

(* How long a run of a command takes at most, its termination included. *)
Due(l) == Timeout[l] + Grace

(* watcher_heartbeat_interval is at most half of watcher_stale. *)
BeatDue(w) ==
  /\ w \in Beaters /\ wphase[w] # "Crashed" /\ age[w] >= Max({1, Stale \div 2})

ReportDue(w) == w \in Reporters /\ watcher[w] = "working" /\ age[w] >= Progress

Quiet ==
  /\ task = "serving" /\ tick < Period /\ ~news /\ owed = {} /\ undelivered = {}
  /\ \A w \in Watchers : ~BeatDue(w) /\ ~ReportDue(w)
  /\ \A l \in Lanes : lane[l] = "running" => elapsed[l] < Due(l)

Least(n, bound) == IF n < bound THEN n ELSE bound

(* Ages are counted as far as they make a difference. *)
Oldest == IF Progress > Stale THEN Progress ELSE Stale + 1

Tick ==
  /\ Quiet
  /\ age' = [w \in Watchers |-> IF wphase[w] = "Crashed" THEN 0 ELSE Least(age[w] + 1, Oldest)]
  /\ elapsed' = [l \in Lanes |-> IF lphase[l] = "Running"
                                   THEN Least(elapsed[l] + 1, MaxTimeout + Grace + 1) ELSE 0]
  /\ tick' = tick + 1
  /\ silence' = Least(silence + 1, 2 * Period + 1)
  /\ tardy' = (tardy \/ \E w \in Reporters : watcher[w] = "working" /\ age[w] >= Stale)
  /\ late' = IF tardy' THEN 0
             ELSE IF \E l \in Lanes : lphase[l] = "Running" /\ elapsed[l] = MaxTimeout
                    THEN Least(late + 1, 2) ELSE late
  /\ UNCHANGED <<tasks, wphase, lphase, seen, last, owed, news, task, shown, faults>>

(* After the shutdown signal nothing is sent any more; shutdown itself is module Daemon's. *)
Shutdown ==
  /\ task' = "over"
  /\ UNCHANGED <<tasks, marks, owed, news, shown, tick, silence, late, tardy, faults>>

-----------------------------------------------------------------------------
Terminated == task = "over" /\ UNCHANGED vars

Faulty ==
  \/ \E w \in Watchers : WatcherPanics(w) \/ WatcherHangs(w) \/ RunnerPanics(w)
  \/ \E l \in Lanes : LanePanics(l) \/ RunHangs(l)

StatusStep == StartServing \/ PeriodicTick \/ StatusChange

Next ==
  \/ /\ task # "over"
     /\ \/ \E w \in Watchers : Report(w) \/ Beat(w) \/ MarkWatcherCrashed(w)
        \/ \E l \in Lanes : StartCommand(l) \/ MarkLaneCrashed(l)
        \/ \E l \in Lanes, result \in {"ok", "failed", "cancelled"} : FinishCommand(l, result)
        \/ \E x \in Lanes \cup {"event"} : NotifyChange(x)
        \/ Event \/ Faulty \/ StatusStep \/ Tick \/ Shutdown
  \/ Terminated

(* The runtime runs every task that is ready; time passes. *)
Fairness ==
  /\ \A w \in Watchers : WF_vars(ReportDue(w) /\ Report(w)) /\ WF_vars(BeatDue(w) /\ Beat(w))
  /\ \A w \in Watchers : WF_vars(MarkWatcherCrashed(w))
  /\ \A l \in Lanes : WF_vars(MarkLaneCrashed(l))
  /\ \A l \in Lanes :
       WF_vars(elapsed[l] >= Due(l) /\ \E result \in {"ok", "failed"} : FinishCommand(l, result))
  /\ \A x \in Lanes \cup {"event"} : WF_vars(NotifyChange(x))
  /\ WF_vars(StatusStep) /\ WF_vars(Tick)

Safety == Init /\ [][Next]_vars
Spec == Safety /\ Fairness

-----------------------------------------------------------------------------
(* Properties.                                                             *)

HealthTypeOK ==
  /\ watcher \in [Watchers -> {"working", "stuck", "dead"}]
  /\ runner \in [Watchers -> {"working", "dead"}]
  /\ lane \in [Lanes -> {"idle", "running", "hanging", "dead"}]
  /\ undelivered \subseteq Watchers \cup Lanes
  /\ wphase \in [Watchers -> {"up", "Crashed"}] /\ age \in [Watchers -> Nat]
  /\ lphase \in [Lanes -> {"off", "Running", "Crashed"}] /\ elapsed \in [Lanes -> Nat]
  /\ seen \in BOOLEAN /\ last \in {"none", "ok", "failed"}
  /\ owed \subseteq Lanes \cup {"event"}
  /\ task \in {"subscribed", "serving", "over"} /\ news \in BOOLEAN
  /\ tick \in 0 .. Period /\ silence \in Nat /\ late \in 0 .. 2 /\ tardy \in BOOLEAN
  /\ faults \in Nat

Ping == silence' < silence

(* systemd is not told that all is well while a task is known to be dead: a watcher or a lane, or
   the runner of a source with a heartbeat; nor while a watcher that reports for itself, or any
   command, has been at it for longer than watcher_stale or the longest timeout. *)
PingMeansAlive ==
  [][Ping =>
       /\ \A w \in Watchers \ undelivered :
            /\ watcher[w] # "dead"
            /\ w \in Beaters => runner[w] # "dead"
            /\ age[w] <= Stale
       /\ \A l \in Lanes \ undelivered :
            /\ lane[l] # "dead"
            /\ lane[l] \in {"running", "hanging"} => elapsed[l] <= MaxTimeout]_vars

(* As long as nothing goes wrong systemd hears a ping in every period, except that each time a run
   exceeds the longest timeout, while it is being terminated, may cost one: the same run never
   costs two.  Only a poller whose interval is longer than watcher_stale, which validation lets
   through (config.rs:791), withholds them although it works. *)
FedInTime == faults = 0 /\ ~tardy => silence <= (1 + late) * Period

(* Once every change has been notified and the task has looked, systemd shows the status as it is
   (docs/design.md: refreshed as command lanes start or finish). *)
StatusShown == task = "serving" /\ owed = {} /\ ~news => shown = Status

(* A task that is gone: a watcher, a lane, or the runner of a source with a heartbeat. *)
Gone ==
  {w \in Watchers : watcher[w] = "dead" \/ (w \in Beaters /\ runner[w] = "dead")}
    \cup {l \in Lanes : lane[l] = "dead"}

Crashed == {w \in Watchers : wphase[w] = "Crashed"} \cup {l \in Lanes : lphase[l] = "Crashed"}

(* Every death is in the hands of a supervisor until it is marked, and no report, heartbeat or run
   ever takes the mark of a dead task away (mark_watcher_progress, state.rs:157): health has
   no way back from it. *)
DeathRemembered ==
  /\ [](Gone \subseteq undelivered \cup Crashed)
  /\ [](Crashed # {} => ~Healthy)
  /\ [][Gone \cap Crashed \subseteq Gone' \cap Crashed']_vars

(* A dead watcher or lane, a dead runner of a source with a heartbeat, a watcher that hangs without
   one and a run that never ends are noticed and not forgotten again. *)
DeathNoticed ==
  /\ \A w \in Watchers : (watcher[w] = "dead") ~> [](~Healthy \/ task = "over")
  /\ \A w \in Beaters : (runner[w] = "dead") ~> [](~Healthy \/ task = "over")
  /\ \A w \in Reporters : (watcher[w] = "stuck") ~> [](~Healthy \/ task = "over")
  /\ \A l \in Lanes : (lane[l] \in {"dead", "hanging"}) ~> [](~Healthy \/ task = "over")

(* docs/operations.md:128: a command running past its configured timeout makes runtime health fail
   and stops watchdog pings. *)
NoPingPastTimeout ==
  [][Ping => \A l \in Lanes : lphase[l] = "Running" => elapsed[l] <= Timeout[l]]_vars

(* docs/operations.md:59: when a configured command times out the "daemon remains active".  So
   systemd hears of it within its watchdog interval, however many commands time out. *)
FedThroughTimeouts == faults = 0 => silence <= 2 * Period

(* A daemon whose tasks all work is fed.  What a poller with a longer interval than watcher_stale
   refutes, which validation accepts (config.rs:791). *)
FedWhileAtWork == faults = 0 /\ late = 0 => silence <= Period
=============================================================================

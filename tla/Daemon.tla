------------------------------- MODULE Daemon --------------------------------
(***************************************************************************)
(* run_daemon of src/main.rs: load and check the configuration, spawn the  *)
(* lanes and sources, wait for the first answer of every source if the     *)
(* command line asks for it, tell systemd, release run_on_startup, serve,  *)
(* and stop on a signal or a permanent authentication failure.             *)
(*                                                                         *)
(* A watcher is in its setup, working, failed (returned an error its       *)
(* supervisor has not passed on yet) or ended; what it does meanwhile is   *)
(* the modules of the sources.  A lane is idle, runs a command, has        *)
(* cancelled it and is terminating its process group, holds on to it       *)
(* although the group is gone, as a process that left the group holds a    *)
(* pipe of its, or has ended; a command of the daemon's that nobody waits  *)
(* for any more is left.                                                   *)
(*                                                                         *)
(* Time counts only while the daemon stops: then it waits for one handle   *)
(* after the other, for each no longer than the grace.                     *)
(*                                                                         *)
(* A signal is heard by the wait_for_shutdown_signal that is being polled. *)
(* Each select! makes a new one, which listens from its first poll until   *)
(* the select! is over; before the very first, a signal kills the process. *)
(***************************************************************************)
EXTENDS Config

CONSTANTS
  Configs,      (* what the configuration file may say *)
  MaxSignals,   (* bound on SIGINT and SIGTERM *)
  MaxFaults,    (* bound on watchers that fail or panic *)
  Terminate,    (* TERMINATE_GRACE, within which a process group is gone, in units of time *)
  Grace         (* the grace of shutdown for each task *)

ASSUME DaemonAssumption ==
  /\ MaxSignals \in Nat /\ MaxFaults \in Nat
  /\ Terminate \in Nat /\ Grace \in Nat /\ Terminate < Grace
  /\ \A c \in Configs : WellFormed(c)

VARIABLES
  config,         (* the set of the configuration, empty once it has been put to work *)
  required,       (* --initial-connect-required *)
  pc,             (* load, wire, initial, announce, serve, stop, over *)
  exit,           (* no, ok, failure, reauth (78), killed; what it will be while stopping *)
  plan,           (* of the watchers: those that authenticate, those that run on startup *)
  task,           (* each watcher *)
  answer,         (* what it sent to initial_ready: none, ok, auth, error, or dropped *)
  open,           (* watchers whose answer has not been taken yet *)
  fatal,          (* messages in the fatal channel *)
  startup, kicked,(* the startup signal, and the watchers that got their event by it *)
  shutdown,
  gone,           (* lanes whose handle await_task_shutdown is done with *)
  since, waited,  (* the time since shutdown, up to Terminate, and for the handle at hand *)
  handler, listening, heard, signals,  (* of SIGINT and SIGTERM *)
  run,            (* each lane *)
  faults

loading == <<config, required>>
waiting == <<open, fatal>>
kicks == <<startup, kicked>>
stopping == <<gone, since, waited>>
hearing == <<handler, listening, heard, signals>>
vars == <<loading, stopping, pc, exit, plan, task, answer, waiting, kicks, shutdown, hearing, run,
          faults>>

None == [w \in {} |-> "none"]

Init ==
  /\ config \in {{c} : c \in Configs} /\ required \in BOOLEAN
  /\ pc = "load" /\ exit = "no"
  /\ plan = [network |-> {}, startup |-> {}]
  /\ task = None /\ answer = None /\ open = {} /\ fatal = {}
  /\ startup = FALSE /\ kicked = {} /\ shutdown = FALSE
  /\ handler = FALSE /\ listening = FALSE /\ heard = FALSE /\ signals = 0
  /\ run = None /\ faults = 0
  /\ gone = {} /\ since = 0 /\ waited = 0

Accepted(c) == Valid(c) /\ HelpersFound(c)

-----------------------------------------------------------------------------
(* Start-up.                                                               *)

Load ==
  /\ pc = "load"
  /\ \E c \in config :
       IF Accepted(c) THEN pc' = "wire" /\ exit' = exit
                      ELSE pc' = "over" /\ exit' = "failure"
  /\ UNCHANGED <<loading, stopping, plan, task, answer, waiting, kicks, shutdown, hearing, run, faults>>

Network(c, w) == w[1] = 1 \/ Source(c, w).type \in {"imap_idle", "gmail_api_poll"}

(* Lanes, watchers and their runners are spawned; no await in between. *)
Wire ==
  /\ pc = "wire"
  /\ \E c \in config :
       IF Resolves(c)
         THEN /\ pc' = IF required THEN "initial" ELSE "announce"
              /\ config' = {} /\ exit' = exit
              /\ plan' = [network |-> {w \in Watchers(c) : Network(c, w)},
                          startup |-> {w \in Watchers(c) : RunsOnStartup(c, w)}]
              /\ task' = [w \in Watchers(c) |-> "setup"]
              /\ answer' = [w \in Watchers(c) |-> "none"]
              /\ open' = IF required THEN Watchers(c) ELSE {}
              /\ run' = [l \in 1 .. LaneCount(c) |-> "idle"]
         ELSE /\ pc' = "over" /\ exit' = "failure"
              /\ UNCHANGED <<config, plan, task, answer, open, run>>
  /\ UNCHANGED <<required, stopping, fatal, kicks, shutdown, hearing, faults>>

Before(w, v) ==
  \/ w[1] < v[1]
  \/ w[1] = v[1] /\ (w[2] < v[2] \/ (w[2] = v[2] /\ w[3] < v[3]))

Asked(w) == w \in open /\ \A v \in open \ {w} : Before(w, v)

(* The select! polls its branch for signals: a new listener. *)
Listen ==
  /\ pc \in {"initial", "serve"} /\ (pc = "initial" => open # {})
  /\ ~listening
  /\ listening' = TRUE /\ handler' = TRUE
  /\ UNCHANGED <<loading, stopping, pc, exit, plan, task, answer, waiting, kicks, shutdown, heard,
                 signals, run,
                 faults>>

(* The select! is over, and what its listener has heard is forgotten with it. *)
LeaveSelect == listening' = FALSE /\ heard' = FALSE /\ UNCHANGED <<handler, signals>>

(* Mutant: only the first watcher is waited for. *)
TakeOkOnce(w) ==
  /\ pc = "initial" /\ Asked(w) /\ answer[w] = "ok"
  /\ open' = {}
  /\ LeaveSelect
  /\ UNCHANGED <<loading, stopping, pc, exit, plan, task, answer, fatal, kicks, shutdown, run, faults>>

TakeOk(w) ==
  /\ pc = "initial" /\ Asked(w) /\ answer[w] = "ok"
  /\ open' = open \ {w}
  /\ LeaveSelect
  /\ UNCHANGED <<loading, stopping, pc, exit, plan, task, answer, fatal, kicks, shutdown, run, faults>>

(* Mutant: a permanent authentication failure is a failure like any other. *)
TakeFailureUncoded(w) ==
  /\ pc = "initial" /\ Asked(w) /\ answer[w] \in {"auth", "error", "dropped"}
  /\ pc' = "over" /\ exit' = "failure"
  /\ run' = [l \in DOMAIN run |-> "ended"]
  /\ LeaveSelect
  /\ UNCHANGED <<loading, stopping, plan, task, answer, waiting, kicks, shutdown, faults>>

(* Any other answer ends the daemon at once, without a shutdown: what runs is dropped, and dropping
   kills the shell of a command but not its group. *)
TakeFailure(w) ==
  /\ pc = "initial" /\ Asked(w) /\ answer[w] \in {"auth", "error", "dropped"}
  /\ pc' = "over"
  /\ exit' = IF answer[w] = "auth" THEN "reauth" ELSE "failure"
  /\ \E left \in SUBSET {l \in DOMAIN run : run[l] = "running"} :
       run' = [l \in DOMAIN run |-> IF l \in left THEN "left" ELSE "ended"]
  /\ LeaveSelect
  /\ UNCHANGED <<loading, stopping, plan, task, answer, waiting, kicks, shutdown, faults>>

AllAnswered ==
  /\ pc = "initial" /\ open = {}
  /\ pc' = "announce"
  /\ UNCHANGED <<loading, stopping, exit, plan, task, answer, waiting, kicks, shutdown, hearing,
                 run, faults>>

(* Mutant: the startup signal is sent to receivers made later. *)
AnnounceOnly ==
  /\ pc = "announce"
  /\ pc' = "serve"
  /\ UNCHANGED <<loading, stopping, exit, plan, task, answer, waiting, kicks, shutdown, hearing,
                 run, faults>>

(* READY=1, then the startup signal. *)
Announce ==
  /\ pc = "announce"
  /\ pc' = "serve" /\ startup' = TRUE
  /\ UNCHANGED <<loading, stopping, exit, plan, task, answer, waiting, kicked, shutdown, hearing,
                 run, faults>>

-----------------------------------------------------------------------------
(* Shutdown.                                                               *)

(* Mutant: fatal errors are looked at only before READY. *)
TakeFatalInitially ==
  /\ pc = "initial" /\ open # {}
  /\ \E w \in fatal : fatal' = fatal \ {w}
  /\ pc' = "stop" /\ exit' = "reauth" /\ shutdown' = TRUE
  /\ LeaveSelect
  /\ UNCHANGED <<loading, stopping, plan, task, answer, open, kicks, run, faults>>

TakeFatal ==
  /\ pc \in {"initial", "serve"} /\ (pc = "initial" => open # {})
  /\ \E w \in fatal : fatal' = fatal \ {w}
  /\ pc' = "stop" /\ exit' = "reauth" /\ shutdown' = TRUE
  /\ LeaveSelect
  /\ UNCHANGED <<loading, stopping, plan, task, answer, open, kicks, run, faults>>

TakeSignal ==
  /\ heard
  /\ pc' = "stop" /\ exit' = "ok" /\ shutdown' = TRUE
  /\ LeaveSelect
  /\ UNCHANGED <<loading, stopping, plan, task, answer, waiting, kicks, run, faults>>

(* await_task_shutdown: the handles in turn, those of the lanes first. *)
Awaited(l) == pc = "stop" /\ l \in DOMAIN run \ gone /\ \A k \in DOMAIN run \ gone : l <= k

NextHandle(l) ==
  /\ gone' = gone \cup {l} /\ waited' = 0
  /\ UNCHANGED <<loading, since, pc, exit, plan, task, answer, waiting, kicks, shutdown, hearing, run,
                 faults>>

LaneAwaited(l) == Awaited(l) /\ run[l] = "ended" /\ NextHandle(l)

(* Mutant: a lane that has not ended yet is given up without waiting. *)
GiveUpAtOnce(l) == Awaited(l) /\ run[l] # "ended" /\ NextHandle(l)

GiveUp(l) == Awaited(l) /\ run[l] # "ended" /\ waited = Grace /\ NextHandle(l)

(* A unit of time passes while the daemon waits for a lane.  Tasks that can go on do so within a
   unit, and a process group is gone within Terminate. *)
Tick ==
  /\ pc = "stop" /\ waited < Grace
  /\ \E l \in DOMAIN run : Awaited(l) /\ run[l] # "ended"
  /\ \A l \in DOMAIN run : /\ run[l] \notin {"idle", "running"}
                           /\ run[l] = "terminating" => since < Terminate
  /\ waited' = waited + 1
  /\ since' = IF since < Terminate THEN since + 1 ELSE since
  /\ UNCHANGED <<loading, gone, pc, exit, plan, task, answer, waiting, kicks, shutdown, hearing, run,
                 faults>>

(* The lanes are done with.  The watchers and runners, whose handles come next, may end or be given
   up: run_daemon returns. *)
Stopped ==
  /\ pc = "stop" /\ DOMAIN run \subseteq gone
  /\ pc' = "over"
  /\ UNCHANGED <<loading, stopping, exit, plan, task, answer, waiting, kicks, shutdown, hearing, run,
                 faults>>

(* SIGINT or SIGTERM arrives. *)
Signal ==
  /\ pc # "over" /\ signals < MaxSignals
  /\ signals' = signals + 1
  /\ IF handler
       THEN /\ heard' = (heard \/ listening)
            /\ UNCHANGED <<pc, exit, run>>
       ELSE /\ pc' = "over" /\ exit' = "killed" /\ heard' = heard
            /\ run' = [l \in DOMAIN run |->
                         IF run[l] \in {"running", "terminating"} THEN "left" ELSE run[l]]
  /\ UNCHANGED <<loading, stopping, plan, task, answer, waiting, kicks, shutdown, handler,
                 listening, faults>>

-----------------------------------------------------------------------------
(* The tasks.                                                              *)

Alive == pc # "over"
Tell(w, result) == answer' = [answer EXCEPT ![w] = IF @ = "none" THEN result ELSE @]

WatcherReady(w) ==
  /\ Alive /\ task[w] = "setup"
  /\ task' = [task EXCEPT ![w] = "working"]
  /\ Tell(w, "ok")
  /\ UNCHANGED <<loading, stopping, pc, exit, plan, waiting, kicks, shutdown, hearing, run, faults>>

(* The credentials are refused or the helper fails, at the first connection or a later one. *)
AuthFails(w) ==
  /\ Alive /\ w \in plan.network /\ task[w] \in {"setup", "working"}
  /\ faults < MaxFaults /\ faults' = faults + 1
  /\ task' = [task EXCEPT ![w] = "failed"]
  /\ Tell(w, "auth")
  /\ UNCHANGED <<loading, stopping, pc, exit, plan, waiting, kicks, shutdown, hearing, run>>

(* The supervisor marks the watcher as crashed and passes the failure on. *)
PassOn(w) ==
  /\ Alive /\ task[w] = "failed"
  /\ task' = [task EXCEPT ![w] = "ended"]
  /\ fatal' = fatal \cup {w}
  /\ UNCHANGED <<loading, stopping, pc, exit, plan, answer, open, kicks, shutdown, hearing, run,
                 faults>>

(* The paths cannot be watched, the baseline cannot be read, or there is no bus. *)
SetupFails(w) ==
  /\ Alive /\ w \notin plan.network /\ task[w] = "setup"
  /\ faults < MaxFaults /\ faults' = faults + 1
  /\ task' = [task EXCEPT ![w] = "ended"]
  /\ Tell(w, "error")
  /\ UNCHANGED <<loading, stopping, pc, exit, plan, waiting, kicks, shutdown, hearing, run>>

Panics(w) ==
  /\ Alive /\ task[w] \in {"setup", "working"}
  /\ faults < MaxFaults /\ faults' = faults + 1
  /\ task' = [task EXCEPT ![w] = "ended"]
  /\ Tell(w, "dropped")
  /\ UNCHANGED <<loading, stopping, pc, exit, plan, waiting, kicks, shutdown, hearing, run>>

WatcherStops(w) ==
  /\ Alive /\ shutdown /\ task[w] \in {"setup", "working"}
  /\ task' = [task EXCEPT ![w] = "ended"]
  /\ Tell(w, "dropped")
  /\ UNCHANGED <<loading, stopping, pc, exit, plan, waiting, kicks, shutdown, hearing, run, faults>>

(* spawn_startup_event has a task of its own for a mailbox or an API; an fs_state source listens
   itself once it works. *)
HearsStartup(w) == w \in plan.network \/ task[w] = "working"

Kick(w) ==
  /\ Alive /\ startup /\ w \in plan.startup \ kicked /\ HearsStartup(w)
  /\ kicked' = kicked \cup {w}
  /\ UNCHANGED <<loading, stopping, pc, exit, plan, task, answer, waiting, startup, shutdown,
                 hearing, run,
                 faults>>

(* An event of a source that works already; the others may still be in their setup. *)
StartCommand(l) ==
  /\ Alive /\ run[l] = "idle" /\ \E w \in DOMAIN task : task[w] = "working"
  /\ run' = [run EXCEPT ![l] = "running"]
  /\ UNCHANGED <<loading, stopping, pc, exit, plan, task, answer, waiting, kicks, shutdown, hearing,
                 faults>>

(* The run returns, by itself or once its group has been terminated; if shutdown has been requested
   the lane does too. *)
EndCommand(l) ==
  /\ Alive /\ run[l] \in {"running", "terminating", "held"}
  /\ run' = [run EXCEPT ![l] = IF shutdown THEN "ended" ELSE "idle"]
  /\ UNCHANGED <<loading, stopping, pc, exit, plan, task, answer, waiting, kicks, shutdown, hearing,
                 faults>>

(* Past its deadline, over its limit or cancelled, the group has been terminated, but a process that
   has left it holds a captured pipe: collection waits for it, without a bound.  Before shutdown
   this makes no difference to the daemon, and such a run still counts as running. *)
PipeHeld(l) ==
  /\ Alive /\ shutdown /\ run[l] \in {"running", "terminating"}
  /\ run' = [run EXCEPT ![l] = "held"]
  /\ UNCHANGED <<loading, stopping, pc, exit, plan, task, answer, waiting, kicks, shutdown, hearing,
                 faults>>

(* The run sees shutdown and terminates its group (Process). *)
Cancel(l) ==
  /\ Alive /\ shutdown /\ run[l] = "running"
  /\ run' = [run EXCEPT ![l] = "terminating"]
  /\ UNCHANGED <<loading, stopping, pc, exit, plan, task, answer, waiting, kicks, shutdown, hearing,
                 faults>>

(* The group is gone: one or the other. *)
Terminated(l) == run[l] = "terminating" /\ (EndCommand(l) \/ PipeHeld(l))

(* A lane that waits for requests sees shutdown. *)
LaneStops(l) ==
  /\ Alive /\ shutdown /\ run[l] = "idle"
  /\ run' = [run EXCEPT ![l] = "ended"]
  /\ UNCHANGED <<loading, stopping, pc, exit, plan, task, answer, waiting, kicks, shutdown, hearing,
                 faults>>

-----------------------------------------------------------------------------
(* The daemon has ended, or serves with nothing to do. *)
AtRest == pc \in {"serve", "over"} /\ UNCHANGED vars

MainStep ==
  \/ Load \/ Wire \/ AllAnswered \/ Announce \/ TakeFatal \/ TakeSignal \/ Stopped
  \/ \E l \in DOMAIN run : LaneAwaited(l) \/ GiveUp(l)
  \/ \E w \in DOMAIN task : TakeOk(w) \/ TakeFailure(w)

Next ==
  \/ MainStep \/ Listen \/ Signal \/ Tick \/ AtRest
  \/ \E w \in DOMAIN task : \/ WatcherReady(w) \/ AuthFails(w) \/ PassOn(w) \/ SetupFails(w)
                            \/ Panics(w) \/ WatcherStops(w) \/ Kick(w)
  \/ \E l \in DOMAIN run : \/ StartCommand(l) \/ EndCommand(l) \/ PipeHeld(l) \/ Cancel(l)
                           \/ LaneStops(l)

(* The daemon's own code runs, time passes, and a group that is terminated goes.  Neither a source's
   setup nor a command has to come to an end, nor a process that holds a pipe. *)
Fairness ==
  /\ WF_vars(MainStep) /\ WF_vars(Listen) /\ WF_vars(Tick)
  /\ \A w \in UNION {Watchers(c) : c \in Configs} :
       WF_vars(w \in DOMAIN task /\ (PassOn(w) \/ Kick(w)))
  /\ \A l \in UNION {1 .. LaneCount(c) : c \in Configs} :
       WF_vars(l \in DOMAIN run /\ (LaneStops(l) \/ Cancel(l) \/ Terminated(l)))

Safety == Init /\ [][Next]_vars
Spec == Safety /\ Fairness

-----------------------------------------------------------------------------
(* Properties.                                                             *)

DaemonTypeOK ==
  /\ pc \in {"load", "wire", "initial", "announce", "serve", "stop", "over"}
  /\ exit \in {"no", "ok", "failure", "reauth", "killed"}
  /\ \A w \in DOMAIN task :
       /\ task[w] \in {"setup", "working", "failed", "ended"}
       /\ answer[w] \in {"none", "ok", "auth", "error", "dropped"}
  /\ open \cup fatal \cup kicked \cup plan.network \cup plan.startup \subseteq DOMAIN task
  /\ \A l \in DOMAIN run : run[l] \in {"idle", "running", "terminating", "held", "ended", "left"}
  /\ gone \subseteq DOMAIN run /\ since \in 0 .. Terminate /\ waited \in 0 .. Grace

(* What validation lets through can be put to work: every trigger finds one command, every watcher
   and lane registers under a name of its own, so that the counts health compares (state.rs:288)
   are right. *)
Wires(c) ==
  /\ \A w \in Watchers(c) : Cardinality(Triggered(c, w)) = 1
  /\ Resolves(c)
  /\ Cardinality({WatcherName(c, w) : w \in Watchers(c)}) = SourceCount(c)
  /\ Cardinality(LanesOf(c)) = LaneCount(c)

(* TERMINATE_GRACE, in seconds. *)
TerminateGrace == 2

(* The grace on shutdown (main.rs:772) outlasts every command and API request, and the termination
   of a process group. *)
GraceCovers(c) ==
  /\ TerminateGrace < ShutdownGrace(c)
  /\ \A s \in Specs(c) : s.timeout < ShutdownGrace(c)
  /\ \A k \in DOMAIN c.sources : \A n \in c.sources[k].api :
       c.sources[k].type = "gmail_api_poll" => n < ShutdownGrace(c)

AcceptedConfigWires == pc = "wire" => \A c \in config : Wires(c) /\ GraceCovers(c)

(* docs/configuration.md:336: test-command runs a named command exactly as configured, that is, as
   the lane of the daemon would; and the legacy form, by account and mailbox, does so for the
   mailboxes of the accounts: one that only an imap_idle source names is left out. *)
TestRunsTheCommand ==
  pc = "wire" =>
    \A c \in config :
      /\ \A i \in DOMAIN c.commands :
           \A s \in Specs(c) : s.name = c.commands[i].name =>
             TestByName(c, s.name) = {RunOf(s.cmd, s.timeout, s.policy)}
      /\ \A w \in Mailboxes(c) : \A s \in Triggered(c, w) :
           TestByMailbox(c, c.accounts[w[2]].name, Mailbox(c, w).name)
             = {RunOf(s.cmd, s.timeout, s.policy)}

(* With --initial-connect-required neither READY nor run_on_startup comes before every source has
   completed its initial setup (docs/operations.md:110). *)
ReadyMeansReady ==
  startup \/ kicked # {} =>
    pc \notin {"load", "wire", "initial", "announce"}
    /\ (required => \A w \in DOMAIN answer : answer[w] = "ok")

(* The exit status tells what happened: 78 only for a permanent authentication failure, success only
   for a signal, and failure for a configuration that is not accepted or a source whose initial
   setup failed (main, main.rs:87). *)
ExitCodes ==
  pc = "over" =>
    /\ exit = "reauth" => \E w \in plan.network : task[w] \in {"failed", "ended"}
    /\ exit = "ok" => signals > 0
    /\ exit = "failure" =>
         \/ \E c \in config : ~Accepted(c)
         \/ required /\ ~startup /\ \E w \in DOMAIN answer : answer[w] \in {"error", "dropped"}
    /\ exit = "killed" => ~handler
    /\ exit # "no"

(* Once shutdown has been requested the daemon ends only when each command it ran has come to its
   end or has been terminated with its process group (docs/operations.md:252: running configured
   commands are cancelled through their process groups), although it gives up any task that takes
   longer than the grace: a lane it gives up only waits for a process that has left the group.
   Otherwise a command is left only where a signal finds no handler, or where the daemon gives up
   waiting for the sources to be ready, which asks nobody to stop (main.rs:683). *)
StopsCleanly ==
  /\ pc = "over" /\ shutdown /\ exit # "killed" => \A l \in DOMAIN run : run[l] \in {"ended", "held"}
  /\ \A l \in DOMAIN run : run[l] = "left" =>
       pc = "over" /\ (exit = "killed" \/ (required /\ ~startup /\ ~shutdown))

(* Every source that asks for it gets its event once the daemon serves and the source can take it. *)
StartupReleased ==
  \A w \in UNION {Watchers(c) : c \in Configs} :
    (pc = "serve" /\ w \in plan.startup /\ HearsStartup(w))
      ~> (w \in kicked \/ (w \in DOMAIN task => task[w] = "ended") \/ shutdown \/ pc = "over")

(* A permanent authentication failure ends the daemon, whatever it is waiting for. *)
AuthFailureStops == (fatal # {}) ~> (pc = "over")

(* docs/operations.md:252: SIGINT and SIGTERM request a clean shutdown. *)
SignalStops == (signals > 0) ~> (pc = "over")
=============================================================================

------------------------------- MODULE Resume --------------------------------
(***************************************************************************)
(* The system_resume sources: watch_system_resume_forever and the          *)
(* ResumeBroadcaster they share (src/system_resume.rs).                    *)
(*                                                                         *)
(* logind (external) sends one signal before the system sleeps and one     *)
(* when it is back; the place of a signal in sent is its ResumeEventId.    *)
(* Each source has a listener of its own on the bus, and listeners read at *)
(* their own pace.  A resume is broadcast to the IMAP watchers by the      *)
(* listener that reads it first, and queued for the source's own runner    *)
(* (SystemResumeRunner, module Pipeline).                                  *)
(*                                                                         *)
(* told and fresh are history variables: the resumes broadcast so far, and *)
(* how many signals there had been when the IMAP watchers last reconnected *)
(***************************************************************************)
EXTENDS Naturals, Sequences, FiniteSets

CONSTANTS
  Sources,      (* the system_resume sources *)
  Recent,       (* RECENT_RESUME_EVENTS *)
  Capacity,     (* of the event channel between a listener and its runner *)
  MaxSignals,   (* bound on the signals of logind *)
  MaxFaults     (* bound on streams that end or fail and runners that panic *)

ASSUME ResumeAssumption ==
  /\ Recent \in Nat \ {0} /\ Capacity \in Nat \ {0}
  /\ MaxSignals \in Nat /\ MaxFaults \in Nat

VARIABLES
  sent,           (* the signals so far, in the order of the bus *)
  at,             (* the next signal each listener reads *)
  listener,       (* each watcher task: setup, listening, ended *)
  phase, ready,   (* WatcherPhase of the source; what initial_ready was sent *)
  queue,          (* events in the channel of the source *)
  runner,         (* SystemResumeRunner: live, gone; panicked until its supervisor has said so *)
  recent,         (* the history of the broadcaster *)
  heard,          (* how many broadcasts the IMAP watchers have seen *)
  told, fresh,
  shutdown, faults

vars == <<sent, at, listener, phase, ready, queue, runner, recent, told, heard, fresh, shutdown, faults>>

Signals == {"suspending", "resumed"}
Ids == 1 .. MaxSignals

Init ==
  /\ sent = <<>> /\ recent = <<>> /\ told = <<>> /\ heard = 0 /\ fresh = 0
  /\ at = [s \in Sources |-> 0]
  /\ listener = [s \in Sources |-> "setup"]
  /\ phase = [s \in Sources |-> "Starting"]
  /\ ready = [s \in Sources |-> "nothing"]
  /\ queue = [s \in Sources |-> 0]
  /\ runner = [s \in Sources |-> "live"]
  /\ shutdown = FALSE /\ faults = 0

-----------------------------------------------------------------------------
(* logind, the signal handler and the IMAP watchers.                       *)

Send(sig) ==
  /\ Len(sent) < MaxSignals
  /\ sent' = Append(sent, sig)
  /\ UNCHANGED <<at, listener, phase, ready, queue, runner, recent, told, heard, fresh, shutdown, faults>>

Shutdown ==
  /\ ~shutdown
  /\ shutdown' = TRUE
  /\ UNCHANGED <<sent, at, listener, phase, ready, queue, runner, recent, told, heard, fresh, faults>>

(* resume_rx.changed() drops the session of an IMAP watcher, which connects anew (ImapWatcher). *)
Reconnect ==
  /\ heard < Len(told)
  /\ heard' = Len(told) /\ fresh' = Len(sent)
  /\ UNCHANGED <<sent, at, listener, phase, ready, queue, runner, recent, told, shutdown, faults>>

-----------------------------------------------------------------------------
(* The watcher of a source.                                                *)

(* A signal before the subscription is not seen. *)
Subscribe(s) ==
  /\ listener[s] = "setup"
  /\ listener' = [listener EXCEPT ![s] = "listening"]
  /\ at' = [at EXCEPT ![s] = Len(sent) + 1]
  /\ phase' = [phase EXCEPT ![s] = "Idling"]
  /\ ready' = [ready EXCEPT ![s] = "ok"]
  /\ UNCHANGED <<sent, queue, runner, recent, told, heard, fresh, shutdown, faults>>

(* The bus cannot be reached, refuses, or does not answer within DBUS_SETUP_TIMEOUT. *)
SetupFails(s) ==
  /\ listener[s] = "setup"
  /\ listener' = [listener EXCEPT ![s] = "ended"]
  /\ ready' = [ready EXCEPT ![s] = "error"]
  /\ phase' = [phase EXCEPT ![s] = "Crashed"]
  /\ UNCHANGED <<sent, at, queue, runner, recent, told, heard, fresh, shutdown, faults>>

Listening(s) == listener[s] = "listening"
Unread(s) == Listening(s) /\ at[s] <= Len(sent)

SeeSuspending(s) ==
  /\ Unread(s) /\ sent[at[s]] = "suspending"
  /\ at' = [at EXCEPT ![s] = @ + 1]
  /\ UNCHANGED <<sent, listener, phase, ready, queue, runner, recent, told, heard, fresh, shutdown, faults>>

Known(id) == \E k \in DOMAIN recent : recent[k] = id

(* Mutant: a full history turns new resumes away instead of the oldest one out. *)
BroadcastKeepsOldest(id) ==
  IF Known(id) \/ Len(recent) = Recent
    THEN UNCHANGED <<recent, told>>
    ELSE recent' = Append(recent, id) /\ told' = Append(told, id)

(* Mutant: room is made before the history is searched. *)
BroadcastPopsFirst(id) ==
  LET kept == IF Len(recent) = Recent THEN Tail(recent) ELSE recent
  IN  IF \E k \in DOMAIN kept : kept[k] = id
        THEN recent' = kept /\ UNCHANGED told
        ELSE recent' = Append(kept, id) /\ told' = Append(told, id)

Broadcast(id) ==
  IF Known(id)
    THEN UNCHANGED <<recent, told>>
    ELSE /\ recent' = Append(IF Len(recent) = Recent THEN Tail(recent) ELSE recent, id)
         /\ told' = Append(told, id)

(* A full channel coalesces the event; a closed one ends the watcher without a mark. *)
SeeResumed(s) ==
  /\ Unread(s) /\ sent[at[s]] = "resumed"
  /\ at' = [at EXCEPT ![s] = @ + 1]
  /\ Broadcast(at[s])
  /\ \/ /\ runner[s] = "live" /\ queue[s] < Capacity
        /\ queue' = [queue EXCEPT ![s] = @ + 1] /\ UNCHANGED listener
     \/ /\ runner[s] = "live" /\ queue[s] = Capacity
        /\ UNCHANGED <<queue, listener>>
     \/ /\ runner[s] # "live"
        /\ listener' = [listener EXCEPT ![s] = "ended"] /\ UNCHANGED queue
  /\ UNCHANGED <<sent, phase, ready, runner, heard, fresh, shutdown, faults>>

(* Mutant: the end of the signal stream is not shown. *)
StreamEndsQuietly(s) ==
  /\ Listening(s)
  /\ faults < MaxFaults /\ faults' = faults + 1
  /\ listener' = [listener EXCEPT ![s] = "ended"]
  /\ UNCHANGED <<sent, at, phase, ready, queue, runner, recent, told, heard, fresh, shutdown>>

(* The stream ends, or a body cannot be read. *)
StreamEnds(s) ==
  /\ Listening(s)
  /\ faults < MaxFaults /\ faults' = faults + 1
  /\ listener' = [listener EXCEPT ![s] = "ended"]
  /\ phase' = [phase EXCEPT ![s] = "Crashed"]
  /\ UNCHANGED <<sent, at, ready, queue, runner, recent, told, heard, fresh, shutdown>>

SeeShutdown(s) ==
  /\ Listening(s) /\ shutdown
  /\ listener' = [listener EXCEPT ![s] = "ended"]
  /\ phase' = [phase EXCEPT ![s] = "Stopped"]
  /\ UNCHANGED <<sent, at, ready, queue, runner, recent, told, heard, fresh, shutdown, faults>>

-----------------------------------------------------------------------------
(* Its runner, as far as the channel is concerned, and the runner's        *)
(* supervisor (spawn_system_resume_runner of main.rs).                     *)

(* Every event of the channel is served by one run. *)
Run(s) ==
  /\ runner[s] = "live" /\ queue[s] > 0
  /\ queue' = [queue EXCEPT ![s] = 0]
  /\ UNCHANGED <<sent, at, listener, phase, ready, runner, recent, told, heard, fresh, shutdown, faults>>

RunnerStops(s) ==
  /\ runner[s] = "live" /\ shutdown
  /\ runner' = [runner EXCEPT ![s] = "gone"]
  /\ UNCHANGED <<sent, at, listener, phase, ready, queue, recent, told, heard, fresh, shutdown, faults>>

(* The settle time is added to the clock, which panics on overflow. *)
RunnerPanics(s) ==
  /\ runner[s] = "live" /\ queue[s] > 0
  /\ faults < MaxFaults /\ faults' = faults + 1
  /\ runner' = [runner EXCEPT ![s] = "panicked"]
  /\ UNCHANGED <<sent, at, listener, phase, ready, queue, recent, told, heard, fresh, shutdown>>

ShowPanic(s) ==
  /\ runner[s] = "panicked"
  /\ runner' = [runner EXCEPT ![s] = "gone"]
  /\ phase' = [phase EXCEPT ![s] = "Crashed"]
  /\ UNCHANGED <<sent, at, listener, ready, queue, recent, told, heard, fresh, shutdown, faults>>

-----------------------------------------------------------------------------
Terminated ==
  /\ Len(sent) = MaxSignals /\ shutdown
  /\ \A s \in Sources : listener[s] = "ended" /\ runner[s] = "gone"
  /\ UNCHANGED vars

WatcherStep(s) ==
  \/ Subscribe(s) \/ SetupFails(s)
  \/ SeeSuspending(s) \/ SeeResumed(s) \/ SeeShutdown(s)

RunnerStep(s) == Run(s) \/ RunnerStops(s) \/ ShowPanic(s)

Next ==
  \/ \E sig \in Signals : Send(sig)
  \/ Shutdown \/ Reconnect \/ Terminated
  \/ \E s \in Sources : \/ WatcherStep(s) \/ StreamEnds(s)
                        \/ RunnerStep(s) \/ RunnerPanics(s)

(* Tasks that can run do; a select is not unfair to a stream that has a signal. *)
Fairness ==
  /\ WF_vars(Reconnect)
  /\ \A s \in Sources : WF_vars(WatcherStep(s)) /\ WF_vars(RunnerStep(s))

Safety == Init /\ [][Next]_vars
Spec == Safety /\ Fairness

-----------------------------------------------------------------------------
(* Properties.                                                             *)

ResumeTypeOK ==
  /\ sent \in Seq(Signals) /\ Len(sent) <= MaxSignals
  /\ at \in [Sources -> Nat]
  /\ listener \in [Sources -> {"setup", "listening", "ended"}]
  /\ phase \in [Sources -> {"Starting", "Idling", "Stopped", "Crashed"}]
  /\ ready \in [Sources -> {"nothing", "ok", "error"}]
  /\ queue \in [Sources -> 0 .. Capacity]
  /\ runner \in [Sources -> {"live", "panicked", "gone"}]
  /\ recent \in Seq(Nat) /\ told \in Seq(Nat)
  /\ heard \in Nat /\ fresh \in Nat /\ shutdown \in BOOLEAN /\ faults \in Nat

(* Two broadcasts of one resume have at least RECENT_RESUME_EVENTS broadcasts of others between
   them: however far a listener lags behind, it does not drop the IMAP sessions again for a resume
   that is still in the history (ResumeBroadcaster::broadcast). *)
OncePerResume ==
  \A i, j \in DOMAIN told : i < j /\ told[i] = told[j] => j - i > Recent

(* The sessions of IMAP are dropped for nothing but resumes that happened. *)
BroadcastsTrue ==
  \A i \in DOMAIN told : told[i] \in 1 .. Len(sent) /\ sent[told[i]] = "resumed"

(* A resume that a listener reads is broadcast then, if it had not been: a history that takes it for
   known is never wrong about it. *)
ReadIsBroadcast ==
  [][\A s \in Sources :
       Listening(s) /\ at'[s] # at[s] /\ sent[at[s]] = "resumed" =>
         \E i \in DOMAIN told' : told'[i] = at[s] ]_vars

(* A source shown as idling still listens, unless the daemon is stopping or the panic of its
   runner, to which it owes its end, is just being reported. *)
ListenerHonest ==
  \A s \in Sources :
    phase[s] = "Idling" => Listening(s) \/ shutdown \/ runner[s] = "panicked"

(* A resume that a listener has yet to read makes the IMAP watchers connect again after it, unless
   that listener ends first. *)
EveryResumeHeard ==
  \A s \in Sources, n \in Ids :
    Listening(s) /\ at[s] <= n /\ n <= Len(sent) /\ sent[n] = "resumed"
    ~> fresh >= n \/ ~Listening(s)
=============================================================================

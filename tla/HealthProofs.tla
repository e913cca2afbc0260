---------------------------- MODULE HealthProofs -----------------------------
(***************************************************************************)
(* What Health guarantees for any sources, lanes, timeouts and intervals:  *)
(* no ping is sent while a task is known to be dead, and the status shown  *)
(* is the status there is.  The first needs the marks to keep up with the  *)
(* tasks (Marked): what is dead stays marked, which is where mark_watcher  *)
(* and mark_watcher_progress differ.  Then, that pings come in time, which *)
(* is arithmetic of the intervals.  That every death is noticed is left to *)
(* TLC.                                                                    *)
(***************************************************************************)
EXTENDS Health, FiniteSetTheorems, WellFoundedInduction, TLAPS

(* The part of the type invariant the proofs need. *)
Tables ==
  /\ watcher \in [Watchers -> {"working", "stuck", "dead"}]
  /\ runner \in [Watchers -> {"working", "dead"}]
  /\ lane \in [Lanes -> {"idle", "running", "hanging", "dead"}]
  /\ wphase \in [Watchers -> {"up", "Crashed"}]
  /\ lphase \in [Lanes -> {"off", "Running", "Crashed"}]
  /\ silence \in 0 .. 2 * Period + 1

(* A dead task is marked, or its supervisor is about to mark it; a command that runs is shown so. *)
Marked ==
  /\ \A w \in Watchers :
       watcher[w] = "dead" \/ (w \in Beaters /\ runner[w] = "dead")
       => w \in undelivered \/ wphase[w] = "Crashed"
  /\ \A l \in Lanes :
       /\ lane[l] = "dead" => l \in undelivered \/ lphase[l] = "Crashed"
       /\ lane[l] \in {"running", "hanging"} => lphase[l] = "Running"
       /\ l \in undelivered => lane[l] = "dead"

AliveInv == Tables /\ Marked

(* Every step keeps the marks up with the tasks. *)
LEMMA AliveStep ==
  ASSUME AliveInv, [Next]_vars
  PROVE  AliveInv'
<1> USE HealthAssumption DEF AliveInv, Tables, Marked, Watchers
<1>1. ASSUME NEW w \in Watchers, Report(w) PROVE AliveInv'
  BY <1>1 DEF Report, tasks, notifier
<1>2. ASSUME NEW w \in Watchers, Beat(w) PROVE AliveInv'
  BY <1>2 DEF Beat, tasks, notifier
<1>3. ASSUME NEW w \in Watchers, MarkWatcherCrashed(w) PROVE AliveInv'
  BY <1>3 DEF MarkWatcherCrashed, notifier
<1>4. ASSUME NEW l \in Lanes, StartCommand(l) PROVE AliveInv'
  BY <1>4 DEF StartCommand, notifier
<1>5. ASSUME NEW l \in Lanes, MarkLaneCrashed(l) PROVE AliveInv'
  BY <1>5 DEF MarkLaneCrashed, notifier
<1>6. ASSUME NEW l \in Lanes, NEW result, FinishCommand(l, result) PROVE AliveInv'
  BY <1>6 DEF FinishCommand, notifier
<1>7. ASSUME NEW x, NotifyChange(x) PROVE AliveInv'
  BY <1>7 DEF NotifyChange, tasks, marks, notifier
<1>8. CASE Event
  BY <1>8 DEF Event, tasks, notifier
<1>9. CASE Faulty
  <2>1. ASSUME NEW w \in Watchers, WatcherPanics(w) PROVE AliveInv'
    BY <2>1 DEF WatcherPanics, marks, notifier
  <2>2. ASSUME NEW w \in Watchers, WatcherHangs(w) PROVE AliveInv'
    BY <2>2 DEF WatcherHangs, marks, notifier
  <2>3. ASSUME NEW w \in Watchers, RunnerPanics(w) PROVE AliveInv'
    BY <2>3 DEF RunnerPanics, marks, notifier
  <2>4. ASSUME NEW l \in Lanes, LanePanics(l) PROVE AliveInv'
    BY <2>4 DEF LanePanics, marks, notifier
  <2>5. ASSUME NEW l \in Lanes, RunHangs(l) PROVE AliveInv'
    BY <2>5 DEF RunHangs, marks, notifier
  <2> QED BY <1>9, <2>1, <2>2, <2>3, <2>4, <2>5 DEF Faulty
<1>10. CASE StatusStep
  BY <1>10 DEF StatusStep, StartServing, PeriodicTick, StatusChange, tasks, marks
<1>11. CASE Tick
  <2>1. UNCHANGED <<tasks, wphase, lphase>> /\ silence' = Least(silence + 1, 2 * Period + 1)
    BY <1>11 DEF Tick
  <2>2. silence' \in 0 .. 2 * Period + 1
    BY <2>1 DEF Least
  <2> QED BY <2>1, <2>2 DEF tasks
<1>12. CASE Shutdown \/ UNCHANGED vars \/ Terminated
  BY <1>12 DEF Shutdown, Terminated, vars, tasks, marks, notifier
<1> QED
  BY <1>1, <1>2, <1>3, <1>4, <1>5, <1>6, <1>7, <1>8, <1>9, <1>10, <1>11, <1>12 DEF Next

(* Only a healthy periodic tick pings. *)
LEMMA PingIsHealthyTick ==
  ASSUME AliveInv, [Next]_vars, Ping
  PROVE  Healthy /\ UNCHANGED tasks
<1> USE HealthAssumption DEF AliveInv, Tables, Ping
<1>1. ~UNCHANGED silence
  OBVIOUS
<1>2. ~Tick
  <2> SUFFICES ASSUME Tick PROVE FALSE
    OBVIOUS
  <2>1. silence' = Least(silence + 1, 2 * Period + 1)
    BY DEF Tick
  <2> QED BY <2>1 DEF Least
<1>3. PeriodicTick
  BY <1>1, <1>2 DEF Next, vars, notifier, Report, Beat, MarkWatcherCrashed, StartCommand,
    MarkLaneCrashed, FinishCommand, NotifyChange, Event, Faulty, WatcherPanics, WatcherHangs,
    RunnerPanics, LanePanics, RunHangs, StatusStep, StartServing, StatusChange, Shutdown, Terminated
<1> QED BY <1>1, <1>3 DEF PeriodicTick

(* systemd is not told that all is well while a task is known to be dead or a run exceeds every
   timeout (run_status_task, systemd.rs:120; health_problem, state.rs:287). *)
THEOREM PingsMeanAlive == Spec => PingMeansAlive
<1>1. Init => AliveInv
  BY HealthAssumption DEF Init, AliveInv, Tables, Marked
<1>2. ASSUME AliveInv, [Next]_vars
      PROVE  [Ping =>
       /\ \A w \in Watchers \ undelivered :
            /\ watcher[w] # "dead"
            /\ w \in Beaters => runner[w] # "dead"
            /\ age[w] <= Stale
       /\ \A l \in Lanes \ undelivered :
            /\ lane[l] # "dead"
            /\ lane[l] \in {"running", "hanging"} => elapsed[l] <= MaxTimeout]_vars
  BY <1>2, PingIsHealthyTick DEF AliveInv, Marked, Healthy, WatchersHealthy, LanesHealthy
<1> QED BY <1>1, <1>2, AliveStep, PTL DEF Spec, Safety, PingMeansAlive

(* What is marked is not unmarked: only a watcher that works reports, only an idle lane starts. *)
LEMMA MarkStays ==
  ASSUME AliveInv, [Next]_vars
  PROVE  Gone \cap Crashed \subseteq Gone' \cap Crashed'
<1> USE HealthAssumption DEF HealthAssumption, AliveInv, Tables, Gone, Crashed, Watchers
<1>1. ASSUME NEW w \in Watchers, Report(w) \/ Beat(w)
      PROVE  Gone \cap Crashed \subseteq Gone' \cap Crashed'
  BY <1>1 DEF Report, Beat, tasks
<1>2. ASSUME NEW w \in Watchers, MarkWatcherCrashed(w)
      PROVE  Gone \cap Crashed \subseteq Gone' \cap Crashed'
  BY <1>2 DEF MarkWatcherCrashed
<1>3. ASSUME NEW l \in Lanes, StartCommand(l) PROVE Gone \cap Crashed \subseteq Gone' \cap Crashed'
  BY <1>3 DEF StartCommand
<1>4. ASSUME NEW l \in Lanes, MarkLaneCrashed(l)
      PROVE  Gone \cap Crashed \subseteq Gone' \cap Crashed'
  BY <1>4 DEF MarkLaneCrashed
<1>5. ASSUME NEW l \in Lanes, NEW result, FinishCommand(l, result)
      PROVE  Gone \cap Crashed \subseteq Gone' \cap Crashed'
  BY <1>5 DEF FinishCommand
<1>6. CASE Faulty
  BY <1>6 DEF Faulty, WatcherPanics, WatcherHangs, RunnerPanics, LanePanics, RunHangs, marks
<1>7. CASE \/ Event \/ StatusStep \/ Tick \/ Shutdown \/ Terminated \/ UNCHANGED vars
           \/ \E x \in Lanes \cup {"event"} : NotifyChange(x)
  <2>1. UNCHANGED <<watcher, runner, lane, wphase, lphase>>
    BY <1>7 DEF Event, StatusStep, StartServing, PeriodicTick, StatusChange, Tick, Shutdown,
                Terminated, NotifyChange, vars, tasks, marks
  <2> QED BY <2>1
<1> QED BY <1>1, <1>2, <1>3, <1>4, <1>5, <1>6, <1>7 DEF Next

(* The safety half of DeathNoticed: what a supervisor has marked stays marked, so that health can
   not recover from the death of a task (mark_watcher_progress, state.rs:157). *)
THEOREM DeathsAreRemembered == Spec => DeathRemembered
<1>1. Init => AliveInv
  BY HealthAssumption DEF Init, AliveInv, Tables, Marked
<1>2. AliveInv => Gone \subseteq undelivered \cup Crashed
  BY DEF AliveInv, Marked, Gone, Crashed
<1>3. Crashed # {} => ~Healthy
  BY DEF Crashed, Healthy, WatchersHealthy, LanesHealthy
<1>4. AliveInv /\ [Next]_vars => [Gone \cap Crashed \subseteq Gone' \cap Crashed']_vars
  BY MarkStays
<1> QED BY <1>1, <1>2, <1>3, <1>4, AliveStep, PTL DEF Spec, Safety, DeathRemembered

-----------------------------------------------------------------------------
(* The status is a function of three marks. *)
LEMMA StatusDepends ==
  ASSUME UNCHANGED <<lphase, seen, last>>
  PROVE  Status' = Status
BY DEF Status, RunningCommands

(* Every change of the status is owed to the notifier before the lock is released. *)
LEMMA StatusStays ==
  ASSUME Tables, StatusShown, [Next]_vars
  PROVE  StatusShown'
<1> USE DEF StatusShown
<1>1. ASSUME UNCHANGED <<lphase, seen, last, owed, news, task, shown>> PROVE StatusShown'
  BY <1>1, StatusDepends
<1>2. ASSUME NEW w \in Watchers, Report(w) \/ Beat(w) \/ MarkWatcherCrashed(w) PROVE StatusShown'
  BY <1>1, <1>2 DEF Report, Beat, MarkWatcherCrashed, notifier
<1>3. ASSUME NEW l \in Lanes, StartCommand(l) PROVE StatusShown'
  BY <1>3 DEF StartCommand
<1>4. ASSUME NEW l \in Lanes, MarkLaneCrashed(l) PROVE StatusShown'
  <2>1. CASE lphase[l] = "Running"
    BY <1>4, <2>1 DEF MarkLaneCrashed
  <2>2. CASE lphase[l] # "Running"
    <3>1. {k \in Lanes : lphase'[k] = "Running"} = {k \in Lanes : lphase[k] = "Running"}
      BY <1>4, <2>2 DEF MarkLaneCrashed, Tables
    <3>2. UNCHANGED <<seen, last, owed, news, task, shown>>
      BY <1>4, <2>2 DEF MarkLaneCrashed, notifier
    <3>3. Status' = Status
      BY <3>1, <3>2 DEF Status, RunningCommands
    <3> QED BY <3>2, <3>3
  <2> QED BY <2>1, <2>2
<1>5. ASSUME NEW l \in Lanes, NEW result, FinishCommand(l, result) PROVE StatusShown'
  BY <1>5 DEF FinishCommand
<1>6. ASSUME NEW x, NotifyChange(x) PROVE StatusShown'
  BY <1>6 DEF NotifyChange
<1>7. CASE Event
  BY <1>7 DEF Event
<1>8. CASE Faulty
  BY <1>1, <1>8 DEF Faulty, WatcherPanics, WatcherHangs, RunnerPanics, LanePanics, RunHangs, marks,
    notifier
<1>9. CASE StatusStep
  BY <1>9, StatusDepends DEF StatusStep, StartServing, PeriodicTick, StatusChange, marks
<1>10. CASE Tick
  BY <1>1, <1>10 DEF Tick
<1>11. CASE Shutdown
  BY <1>11 DEF Shutdown
<1>12. CASE UNCHANGED vars \/ Terminated
  BY <1>1, <1>12 DEF vars, Terminated, marks, notifier
<1> QED
  BY <1>2, <1>3, <1>4, <1>5, <1>6, <1>7, <1>8, <1>9, <1>10, <1>11, <1>12 DEF Next

(* What systemd shows is the status as it is, once nothing about it is on its way
   (notify_status_changed, state.rs:278). *)
THEOREM StatusIsShown == Spec => []StatusShown
<1>1. Init => AliveInv /\ StatusShown
  BY HealthAssumption DEF Init, AliveInv, Tables, Marked, StatusShown
<1>2. AliveInv /\ StatusShown /\ [Next]_vars => AliveInv' /\ StatusShown'
  BY AliveStep, StatusStays DEF AliveInv
<1> QED BY <1>1, <1>2, PTL DEF Spec, Safety

-----------------------------------------------------------------------------

LEMMA LeastNatural ==
  ASSUME NEW T, T \subseteq Nat, T # {}
  PROVE  \E m \in T : \A v \in T : m <= v
<1> DEFINE less == {p \in Nat \X Nat : p[1] < p[2]}
<1>1. IsWellFoundedOn(less, Nat)
  BY NatLessThanWellFounded, Zenon DEF OpToRel
<1>2. PICK m \in T : \A v \in T : ~(<<v, m>> \in less)
  <2> HIDE DEF less
  <2> QED BY <1>1, WFMin
<1>3. ASSUME NEW v \in T PROVE ~(v < m)
  <2>1. v \in Nat /\ m \in Nat
    OBVIOUS
  <2> QED BY <1>2, <2>1
<1> QED BY <1>3

(* The lanes are finitely many, so that there is a longest timeout. *)
LEMMA TimeoutsBounded == \E b \in Nat : \A l \in Lanes : Timeout[l] <= b
<1>1. PICK n \in Nat : ExistsSurjection(1 .. n, Lanes)
  BY HealthAssumption, FS_NatSurjection DEF HealthAssumption
<1>2. PICK f \in [1 .. n -> Lanes] : \A l \in Lanes : \E i \in 1 .. n : f[i] = l
  BY <1>1 DEF ExistsSurjection, Surjection
<1> DEFINE Bounded(m) == \E b \in Nat : \A i \in 1 .. m : Timeout[f[i]] <= b
           open == {m \in 0 .. n : ~Bounded(m)}
<1>3. ASSUME open # {} PROVE FALSE
  <2>1. PICK m \in open : \A v \in open : m <= v
    <3>1. open \subseteq Nat
      OBVIOUS
    <3> HIDE DEF open
    <3> QED BY <1>3, <3>1, LeastNatural
  <2>2. Bounded(0)
    OBVIOUS
  <2>3. m \in 1 .. n /\ Bounded(m - 1)
    <3>1. m \in 0 .. n /\ m # 0
      BY <2>1, <2>2
    <3>2. m - 1 \in 0 .. n /\ ~(m <= m - 1)
      BY <3>1
    <3> HIDE DEF Bounded
    <3> QED BY <2>1, <3>1, <3>2
  <2>4. PICK b \in Nat : \A i \in 1 .. m - 1 : Timeout[f[i]] <= b
    BY <2>3
  <2> DEFINE t == Timeout[f[m]]
             c == b + t
  <2>5. t \in Nat
    BY <1>2, <2>3, HealthAssumption DEF HealthAssumption
  <2>6. ASSUME NEW i \in 1 .. m PROVE Timeout[f[i]] <= c
    <3>1. Timeout[f[i]] \in Nat
      BY <1>2, <2>3, HealthAssumption DEF HealthAssumption
    <3>2. CASE i = m
      BY <2>5, <3>1, <3>2
    <3>3. CASE i # m
      <4>1. i \in 1 .. m - 1
        BY <2>3, <3>3
      <4> QED BY <2>4, <2>5, <3>1, <4>1
    <3> QED BY <3>2, <3>3
  <2>7. c \in Nat
    BY <2>5
  <2> HIDE DEF c
  <2> QED BY <2>1, <2>6, <2>7
<1>4. Bounded(n)
  <2> HIDE DEF Bounded
  <2> QED BY <1>3
<1> QED BY <1>2, <1>4

LEMMA LongestTimeout == MaxTimeout \in Nat /\ \A l \in Lanes : Timeout[l] <= MaxTimeout
<1> DEFINE S == {Timeout[l] : l \in Lanes} \cup {0}
           room == {u \in Nat : \A y \in S : y <= u}
<1>1. S \subseteq Nat
  BY HealthAssumption DEF HealthAssumption
<1>2. PICK b \in Nat : \A l \in Lanes : Timeout[l] <= b
  BY TimeoutsBounded
<1>3. b \in room /\ room \subseteq Nat
  BY <1>2
<1>4. PICK u \in room : \A v \in room : u <= v
  <2> HIDE DEF room
  <2> QED BY <1>3, LeastNatural
<1>5. u \in Nat /\ \A y \in S : y \in Nat /\ y <= u
  BY <1>1
<1>6. u \in S
  <2> SUFFICES ASSUME u \notin S PROVE FALSE
    OBVIOUS
  <2>1. u # 0
    OBVIOUS
  <2>2. \A y \in S : y <= u - 1
    BY <1>5
  <2>3. u - 1 \in room
    BY <1>5, <2>1, <2>2
  <2> QED BY <1>4, <1>5, <2>3
<1>7. MaxTimeout = Max(S)
  BY DEF MaxTimeout
<1>8. Max(S) \in S /\ \A y \in S : Max(S) >= y
  <2>1. \E x \in S : \A y \in S : x >= y
    BY <1>5, <1>6
  <2> HIDE DEF S
  <2> QED BY <2>1 DEF Max
<1> QED BY <1>1, <1>7, <1>8

(* While nothing goes wrong, every task is at work and shown so. *)
Smooth ==
  /\ undelivered = {}
  /\ \A w \in Watchers : watcher[w] = "working" /\ wphase[w] = "up"
  /\ \A l \in Lanes : /\ lane[l] \in {"idle", "running"}
                      /\ lphase[l] = IF lane[l] = "running" THEN "Running" ELSE "off"

(* Every mark comes when it is due. *)
Punctual ==
  /\ age \in [Watchers -> Nat] /\ \A w \in Beaters : age[w] <= Stale
  /\ elapsed \in [Lanes -> Nat] /\ \A l \in Lanes : lane[l] = "running" => elapsed[l] <= Due(l)

(* No ping has been missed without a run in excess; when one has been, that run has been in excess
   for longer than since then. *)
Excess ==
  /\ late = 0 => /\ silence = tick
                 /\ \A l \in Lanes : lane[l] = "running" => elapsed[l] <= MaxTimeout
  /\ late = 1 => \/ silence = tick
                 \/ /\ silence = Period + tick
                    /\ \A l \in Lanes : lane[l] = "running" =>
                         elapsed[l] <= MaxTimeout \/ elapsed[l] > MaxTimeout + tick

(* That is, unless a watcher was tardy. *)
Counted == ~tardy => Excess /\ \A w \in Reporters : age[w] <= Stale

FedInv ==
  /\ Tables /\ tick \in 0 .. Period /\ late \in 0 .. 2 /\ tardy \in BOOLEAN
  /\ faults \in Nat
  /\ faults = 0 => Smooth /\ Punctual /\ Counted

(* A run is in excess only while it is being terminated. *)
LEMMA ExcessIsShort ==
  ASSUME NEW l \in Lanes
  PROVE  Due(l) \in Nat /\ Due(l) <= MaxTimeout + Grace /\ Due(l) < MaxTimeout + Period
<1>1. Timeout[l] \in Nat /\ Grace \in Nat /\ Grace < Period /\ Period \in Nat
  BY HealthAssumption DEF HealthAssumption
<1> QED BY <1>1, LongestTimeout DEF Due

(* One unit of time. *)
LEMMA TickKeepsFed ==
  ASSUME FedInv, Tick
  PROVE  FedInv'
<1> USE HealthAssumption DEF HealthAssumption
<1>1. UNCHANGED <<watcher, runner, lane, undelivered, wphase, lphase, faults>>
  BY DEF Tick, tasks
<1>2. tick' = tick + 1 /\ tick' \in 0 .. Period /\ tick < Period
  BY DEF Tick, Quiet, FedInv
<1>3. silence' = Least(silence + 1, 2 * Period + 1) /\ silence' \in 0 .. 2 * Period + 1
  <2>1. silence' = Least(silence + 1, 2 * Period + 1)
    BY DEF Tick
  <2> QED BY <2>1 DEF Least, FedInv, Tables
<1>4. late' \in 0 .. 2 /\ tardy' \in BOOLEAN
  BY DEF Tick, FedInv, Least
<1>5. Tables' /\ faults' \in Nat
  BY <1>1, <1>3 DEF FedInv, Tables
<1> SUFFICES ASSUME faults = 0 PROVE (Smooth /\ Punctual /\ Counted)'
  BY <1>1, <1>2, <1>4, <1>5 DEF FedInv
<1>6. Smooth'
  BY <1>1 DEF FedInv, Smooth
<1>7. \A w \in Watchers : age'[w] = Least(age[w] + 1, Oldest) /\ age[w] \in Nat /\ Oldest > Stale
  BY DEF Tick, FedInv, Smooth, Punctual, Oldest
<1>8. \A l \in Lanes : elapsed'[l] = IF lane[l] = "running"
                                       THEN Least(elapsed[l] + 1, MaxTimeout + Grace + 1) ELSE 0
  BY DEF Tick, FedInv, Smooth
<1>9. ASSUME NEW l \in Lanes, lane[l] = "running"
      PROVE  elapsed[l] \in Nat /\ elapsed'[l] = elapsed[l] + 1 /\ elapsed'[l] <= Due(l)
  <2>1. elapsed[l] \in Nat /\ elapsed[l] < Due(l)
    BY <1>9 DEF Tick, Quiet, FedInv, Punctual
  <2> QED BY <1>8, <1>9, <2>1, ExcessIsShort, LongestTimeout DEF Least
<1>10. ASSUME NEW w \in Watchers
       PROVE  age'[w] \in Nat /\ (w \in Beaters \/ age[w] < Stale => age'[w] <= Stale)
  <2>1. Oldest \in Nat /\ age'[w] \in Nat
    BY <1>7 DEF Least, Oldest
  <2>2. ASSUME w \in Beaters PROVE age[w] < Stale
    <3>1. ~(age[w] >= Max({1, Stale \div 2}))
      BY <2>2 DEF Tick, Quiet, BeatDue, FedInv, Smooth
    <3>2. Max({1, Stale \div 2}) \in {1, Stale \div 2}
      <4>1. \E x \in {1, Stale \div 2} : \A y \in {1, Stale \div 2} : x >= y
        OBVIOUS
      <4> QED BY <4>1 DEF Max
    <3> QED BY <1>7, <3>1, <3>2
  <2> QED BY <1>7, <2>1, <2>2 DEF Least
<1>11. Punctual'
  <2>1. age' \in [Watchers -> Nat]
    BY <1>10 DEF Tick
  <2>2. elapsed' \in [Lanes -> Nat]
    <3>1. \A l \in Lanes : elapsed'[l] \in Nat
      BY <1>8, <1>9
    <3> QED BY <3>1 DEF Tick
  <2> QED BY <1>1, <1>9, <1>10, <2>1, <2>2 DEF Punctual, Due, Watchers
<1>12. Counted'
  <2> SUFFICES ASSUME ~tardy' PROVE Excess' /\ \A w \in Reporters : age'[w] <= Stale
    BY DEF Counted
  <2>0. Excess /\ \A w \in Reporters : age'[w] <= Stale
    <3>1. ~tardy /\ \A w \in Reporters : ~(watcher[w] = "working" /\ age[w] >= Stale)
      BY DEF Tick, FedInv
    <3>2. \A w \in Reporters : age[w] < Stale
      BY <1>7, <3>1 DEF FedInv, Smooth, Watchers
    <3> QED BY <1>10, <3>1, <3>2 DEF FedInv, Counted, Watchers
  <2> DEFINE over == \E l \in Lanes : lane[l] = "running" /\ elapsed[l] = MaxTimeout
  <2>1. late' = IF over THEN Least(late + 1, 2) ELSE late
    BY DEF Tick, FedInv, Smooth
  <2>2. ASSUME silence <= 2 * Period PROVE silence' = silence + 1
    BY <1>3, <2>2 DEF Least, FedInv, Tables
  <2>3. ASSUME late' = 0 PROVE Excess'
    <3>1. late = 0 /\ ~over
      BY <2>1, <2>3 DEF Least, FedInv
    <3>2. silence = tick /\ \A l \in Lanes : lane[l] = "running" => elapsed[l] <= MaxTimeout
      BY <2>0, <3>1 DEF Excess
    <3>3. silence' = tick'
      BY <1>2, <2>2, <3>2 DEF FedInv
    <3>4. \A l \in Lanes : lane'[l] = "running" => elapsed'[l] <= MaxTimeout
      BY <1>1, <1>9, <3>1, <3>2, LongestTimeout
    <3> QED BY <2>3, <3>3, <3>4 DEF Excess
  <2>4. ASSUME late' = 1, late = 0 PROVE Excess'
    <3>1. silence = tick
      BY <2>0, <2>4 DEF Excess
    <3>2. silence' = tick'
      BY <1>2, <2>2, <3>1 DEF FedInv
    <3> QED BY <2>4, <3>2 DEF Excess
  <2>5. ASSUME late' = 1, late = 1 PROVE Excess'
    <3>1. ~over
      BY <2>1, <2>5 DEF Least
    <3>2. CASE silence = tick
      <4>1. silence' = tick'
        BY <1>2, <2>2, <3>2 DEF FedInv
      <4> QED BY <2>5, <4>1 DEF Excess
    <3>3. CASE silence # tick
      <4>1. /\ silence = Period + tick
            /\ \A l \in Lanes : lane[l] = "running" =>
                 elapsed[l] <= MaxTimeout \/ elapsed[l] > MaxTimeout + tick
        BY <2>0, <2>5, <3>3 DEF Excess
      <4>2. silence' = Period + tick'
        BY <1>2, <2>2, <4>1 DEF FedInv
      <4>3. \A l \in Lanes : lane'[l] = "running" =>
              elapsed'[l] <= MaxTimeout \/ elapsed'[l] > MaxTimeout + tick'
        BY <1>1, <1>2, <1>9, <3>1, <4>1, LongestTimeout DEF FedInv
      <4> QED BY <2>5, <4>2, <4>3 DEF Excess
    <3> QED BY <3>2, <3>3
  <2>6. ASSUME late' = 2 PROVE Excess'
    BY <2>6 DEF Excess
  <2>7. late' = 1 => late \in {0, 1}
    BY <2>1 DEF Least, FedInv
  <2> QED BY <1>4, <2>0, <2>3, <2>4, <2>5, <2>6, <2>7
<1> QED BY <1>6, <1>11, <1>12

(* The periodic tick: pings unless a run is in excess, and then the same run is not a period later. *)
LEMMA PeriodicTickKeepsFed ==
  ASSUME FedInv, PeriodicTick
  PROVE  FedInv'
<1> USE HealthAssumption DEF HealthAssumption
<1>1. tick = Period /\ tick' = 0
      /\ UNCHANGED <<watcher, runner, lane, undelivered, wphase, age, lphase, elapsed, faults>>
  BY DEF PeriodicTick, tasks, marks
<1>2. IF Healthy THEN silence' = 0 /\ late' = 0 /\ tardy' = FALSE
                 ELSE UNCHANGED <<silence, late, tardy>>
  BY DEF PeriodicTick
<1>3. /\ Tables' /\ tick' \in 0 .. Period /\ late' \in 0 .. 2 /\ tardy' \in BOOLEAN
      /\ faults' \in Nat
  <2>1. tardy' \in BOOLEAN
    BY <1>2, Zenon DEF FedInv
  <2> QED BY <1>1, <1>2, <2>1 DEF FedInv, Tables
<1> SUFFICES ASSUME faults = 0 PROVE (Smooth /\ Punctual /\ Counted)'
  BY <1>1, <1>3 DEF FedInv
<1>4. Smooth' /\ Punctual'
  BY <1>1 DEF FedInv, Smooth, Punctual, Due
<1>5. ASSUME Healthy PROVE Counted'
  <2>1. \A w \in Reporters : age[w] <= Stale
    BY <1>5 DEF Healthy, WatchersHealthy, Watchers
  <2>2. \A l \in Lanes : lane[l] = "running" => elapsed[l] <= MaxTimeout
    BY <1>5 DEF FedInv, Smooth, Healthy, LanesHealthy
  <2> QED BY <1>1, <1>2, <1>5, <2>1, <2>2 DEF Counted, Excess
<1>6. ASSUME ~Healthy, tardy PROVE Counted'
  BY <1>2, <1>6 DEF Counted
<1>7. ASSUME ~Healthy, ~tardy PROVE Counted'
  <2>0. Excess /\ \A w \in Reporters : age[w] <= Stale
    BY <1>7 DEF FedInv, Counted
  <2>1. \E l \in Lanes : lane[l] = "running" /\ ~(elapsed[l] <= MaxTimeout)
    BY <1>7, <2>0 DEF FedInv, Smooth, Punctual, Healthy, WatchersHealthy, LanesHealthy, Watchers
  <2>2. late # 0 /\ UNCHANGED <<silence, late>>
    BY <1>2, <1>7, <2>0, <2>1 DEF Excess
  <2>3. Excess'
    <3>1. CASE late = 1
      <4>1. \A l \in Lanes : lane[l] = "running" =>
              elapsed[l] \in Nat /\ elapsed[l] < MaxTimeout + Period
        BY ExcessIsShort, LongestTimeout DEF FedInv, Punctual
      <4>2. silence = tick
        BY <1>1, <2>0, <2>1, <3>1, <4>1, LongestTimeout DEF Excess
      <4>3. \A l \in Lanes : lane[l] = "running" =>
              elapsed[l] <= MaxTimeout \/ elapsed[l] > MaxTimeout + 0
        BY <4>1, LongestTimeout
      <4>4. silence' = Period + tick'
        BY <1>1, <2>2, <4>2
      <4> QED BY <1>1, <2>2, <3>1, <4>3, <4>4 DEF Excess
    <3>2. CASE late # 1
      BY <2>2, <3>2 DEF Excess
    <3> QED BY <3>1, <3>2
  <2>4. \A w \in Reporters : age'[w] <= Stale
    BY <1>1, <2>0
  <2> QED BY <2>3, <2>4 DEF Counted
<1> QED BY <1>4, <1>5, <1>6, <1>7 DEF FedInv

(* A run begins or ends. *)
LEMMA RunKeepsFed ==
  ASSUME FedInv, NEW l \in Lanes, StartCommand(l) \/ \E result : FinishCommand(l, result)
  PROVE  FedInv'
<1> USE HealthAssumption DEF HealthAssumption
<1>1. /\ UNCHANGED <<watcher, runner, undelivered, wphase, age, task, tick, silence, late, tardy,
                     faults>>
      /\ elapsed' = [elapsed EXCEPT ![l] = 0]
      /\ \/ lane' = [lane EXCEPT ![l] = "running"] /\ lphase' = [lphase EXCEPT ![l] = "Running"]
         \/ lane' = [lane EXCEPT ![l] = "idle"] /\ lphase' = [lphase EXCEPT ![l] = "off"]
  BY DEF StartCommand, FinishCommand, notifier
<1>2. Tables'
  BY <1>1 DEF FedInv, Tables
<1> SUFFICES ASSUME faults = 0 PROVE (Smooth /\ Punctual /\ Counted)'
  BY <1>1, <1>2 DEF FedInv
<1>3. Smooth'
  BY <1>1 DEF FedInv, Smooth, Tables
<1>4. Punctual'
  BY <1>1, ExcessIsShort DEF FedInv, Punctual, Tables, Due
<1>5. \A k \in Lanes : /\ k # l => lane'[k] = lane[k] /\ elapsed'[k] = elapsed[k]
                       /\ k = l => elapsed'[k] = 0
  BY <1>1 DEF FedInv, Punctual, Tables
<1>6. Counted'
  BY <1>1, <1>5, LongestTimeout DEF FedInv, Counted, Excess
<1> QED BY <1>3, <1>4, <1>6

(* No other step lets time pass, unless something goes wrong. *)
LEMMA FedStep ==
  ASSUME FedInv, [Next]_vars
  PROVE  FedInv'
<1> USE HealthAssumption DEF HealthAssumption
<1>1. CASE Tick
  BY <1>1, TickKeepsFed
<1>2. CASE PeriodicTick
  BY <1>2, PeriodicTickKeepsFed
<1>3. ASSUME NEW l \in Lanes, StartCommand(l) \/ \E result : FinishCommand(l, result) PROVE FedInv'
  BY <1>3, RunKeepsFed
<1>4. ASSUME UNCHANGED <<watcher, runner, lane, undelivered, wphase, age, lphase, elapsed, tick,
                         silence, late, tardy, faults>>
      PROVE  FedInv'
  BY <1>4 DEF FedInv, Tables, Smooth, Punctual, Counted, Excess, Due, Watchers
<1>5. ASSUME NEW w \in Watchers, Report(w) \/ Beat(w) PROVE FedInv'
  <2>1. /\ UNCHANGED <<watcher, runner, lane, undelivered, lphase, elapsed, tick, silence, late, tardy,
                       faults>>
        /\ age' = [age EXCEPT ![w] = 0]
        /\ wphase' = wphase \/ wphase' = [wphase EXCEPT ![w] = "up"]
    BY <1>5 DEF Report, Beat, tasks, notifier
  <2> QED BY <2>1 DEF FedInv, Tables, Smooth, Punctual, Counted, Excess, Due, Watchers
<1>6. ASSUME NEW w \in Watchers, MarkWatcherCrashed(w) PROVE FedInv'
  <2>1. /\ undelivered # {} /\ wphase' = [wphase EXCEPT ![w] = "Crashed"]
        /\ UNCHANGED <<watcher, runner, lane, lphase, tick, silence, late, tardy, faults>>
    BY <1>6 DEF MarkWatcherCrashed, notifier
  <2> QED BY <2>1 DEF FedInv, Tables, Smooth
<1>7. ASSUME NEW l \in Lanes, MarkLaneCrashed(l) PROVE FedInv'
  <2>1. /\ undelivered # {} /\ lphase' = [lphase EXCEPT ![l] = "Crashed"]
        /\ UNCHANGED <<watcher, runner, lane, wphase, tick, silence, late, tardy, faults>>
    BY <1>7 DEF MarkLaneCrashed, notifier
  <2> QED BY <2>1 DEF FedInv, Tables, Smooth
<1>8. CASE Faulty
  <2>1. faults' = faults + 1
    BY <1>8 DEF Faulty, WatcherPanics, WatcherHangs, RunnerPanics, LanePanics, RunHangs, Fault
  <2>2. UNCHANGED <<marks, notifier>>
    BY <1>8 DEF Faulty, WatcherPanics, WatcherHangs, RunnerPanics, LanePanics, RunHangs
  <2>3. /\ watcher' \in [Watchers -> {"working", "stuck", "dead"}]
        /\ runner' \in [Watchers -> {"working", "dead"}]
        /\ lane' \in [Lanes -> {"idle", "running", "hanging", "dead"}]
    BY <1>8 DEF FedInv, Tables, Faulty, WatcherPanics, WatcherHangs, RunnerPanics, LanePanics, RunHangs
  <2> QED BY <2>1, <2>2, <2>3 DEF FedInv, Tables, marks, notifier
<1>9. CASE StartServing \/ StatusChange \/ Shutdown
  BY <1>4, <1>9 DEF StartServing, StatusChange, Shutdown, tasks, marks
<1>10. CASE Event \/ \E x \in Lanes \cup {"event"} : NotifyChange(x)
  BY <1>4, <1>10 DEF Event, NotifyChange, tasks, marks, notifier
<1>11. CASE Terminated \/ UNCHANGED vars
  BY <1>4, <1>11 DEF Terminated, vars, tasks, marks, notifier
<1> QED
  BY <1>1, <1>2, <1>3, <1>5, <1>6, <1>7, <1>8, <1>9, <1>10, <1>11 DEF Next, StatusStep

LEMMA FedHolds == Spec => []FedInv
<1>1. ASSUME Init PROVE FedInv
  <2>1. tardy = FALSE /\ tardy \in BOOLEAN
    BY <1>1, Zenon DEF Init
  <2>2. Tables /\ tick \in 0 .. Period /\ late \in 0 .. 2 /\ faults \in Nat
    BY <1>1, HealthAssumption DEF Init, Tables, HealthAssumption
  <2>3. Smooth
    BY <1>1 DEF Init, Smooth
  <2>4. Punctual
    BY <1>1, HealthAssumption DEF Init, Punctual, HealthAssumption, Watchers
  <2>5. Counted
    BY <1>1, HealthAssumption, LongestTimeout
    DEF Init, Counted, Excess, HealthAssumption, Watchers
  <2> QED BY <2>1, <2>2, <2>3, <2>4, <2>5 DEF FedInv
<1> QED BY <1>1, FedStep, PTL DEF Spec, Safety

(* A run costs at most one ping, if its termination takes less than a period (run_status_task,
   systemd.rs:120), and nothing else does but a watcher that goes without a mark for longer than
   watcher_stale, for any sources, lanes, timeouts and intervals, also those of a poller. *)
THEOREM PingsComeInTime == Spec => []FedInTime
<1>1. FedInv => FedInTime
  <2> SUFFICES ASSUME FedInv, faults = 0, ~tardy PROVE silence <= (1 + late) * Period
    BY DEF FedInTime
  <2>1. Period \in Nat /\ Period > 0 /\ tick \in 0 .. Period /\ silence \in 0 .. 2 * Period + 1
    BY HealthAssumption DEF HealthAssumption, FedInv, Tables
  <2>2. CASE late = 0
    BY <2>1, <2>2 DEF FedInv, Counted, Excess
  <2>3. CASE late = 1
    BY <2>1, <2>3 DEF FedInv, Counted, Excess
  <2>4. CASE late = 2
    BY <2>1, <2>4
  <2> QED BY <2>2, <2>3, <2>4 DEF FedInv
<1> QED BY <1>1, FedHolds, PTL

-----------------------------------------------------------------------------
(* What FedInv leaves of the types. *)
RestTypes ==
  /\ undelivered \subseteq Watchers \cup Lanes
  /\ age \in [Watchers -> Nat] /\ elapsed \in [Lanes -> Nat]
  /\ seen \in BOOLEAN /\ last \in {"none", "ok", "failed"}
  /\ owed \subseteq Lanes \cup {"event"}
  /\ task \in {"subscribed", "serving", "over"} /\ news \in BOOLEAN

LEMMA AgesGrow ==
  ASSUME RestTypes, Tick
  PROVE  age' \in [Watchers -> Nat] /\ elapsed' \in [Lanes -> Nat]
<1> USE HealthAssumption DEF HealthAssumption, RestTypes
<1>1. \A n, b \in Nat : Least(n, b) \in Nat
  BY DEF Least
<1>2. Oldest \in Nat /\ MaxTimeout + Grace + 1 \in Nat
  BY LongestTimeout DEF Oldest
<1>3. \A w \in Watchers : age[w] + 1 \in Nat
  OBVIOUS
<1>4. \A l \in Lanes : elapsed[l] + 1 \in Nat
  OBVIOUS
<1>5. age' = [w \in Watchers |-> IF wphase[w] = "Crashed" THEN 0 ELSE Least(age[w] + 1, Oldest)]
  BY DEF Tick
<1>6. elapsed' = [l \in Lanes |-> IF lphase[l] = "Running"
                                     THEN Least(elapsed[l] + 1, MaxTimeout + Grace + 1) ELSE 0]
  BY DEF Tick
<1>7. \A w \in Watchers : Least(age[w] + 1, Oldest) \in Nat
  BY <1>1, <1>2, <1>3
<1>8. \A l \in Lanes : Least(elapsed[l] + 1, MaxTimeout + Grace + 1) \in Nat
  BY <1>1, <1>2, <1>4
<1>9. age' \in [Watchers -> Nat]
  BY <1>5, <1>7
<1>10. elapsed' \in [Lanes -> Nat]
  BY <1>6, <1>8
<1> QED BY <1>9, <1>10

LEMMA RestStep ==
  ASSUME RestTypes, [Next]_vars
  PROVE  RestTypes'
<1> USE DEF RestTypes
<1>1. ASSUME NEW w \in Watchers, Report(w) \/ Beat(w) \/ MarkWatcherCrashed(w) PROVE RestTypes'
  BY <1>1 DEF Report, Beat, MarkWatcherCrashed, tasks, notifier
<1>2. ASSUME NEW l \in Lanes, StartCommand(l) \/ MarkLaneCrashed(l) PROVE RestTypes'
  BY <1>2 DEF StartCommand, MarkLaneCrashed, notifier
<1>3. ASSUME NEW l \in Lanes, NEW result \in {"ok", "failed", "cancelled"}, FinishCommand(l, result)
      PROVE  RestTypes'
  BY <1>3 DEF FinishCommand, notifier
<1>4. ASSUME NEW x, NotifyChange(x) PROVE RestTypes'
  BY <1>4 DEF NotifyChange, tasks, marks, notifier
<1>5. CASE Event \/ StatusStep \/ Shutdown
  BY <1>5 DEF Event, StatusStep, StartServing, PeriodicTick, StatusChange, Shutdown, tasks, marks,
              notifier
<1>6. CASE Faulty
  <2>1. UNCHANGED <<age, elapsed, seen, last, owed, task, news>>
    BY <1>6 DEF Faulty, WatcherPanics, WatcherHangs, RunnerPanics, LanePanics, RunHangs, marks,
                notifier
  <2>2. undelivered' \subseteq Watchers \cup Lanes
    BY <1>6 DEF Faulty, WatcherPanics, WatcherHangs, RunnerPanics, LanePanics, RunHangs
  <2> QED BY <2>1, <2>2
<1>7. CASE Tick
  <2>1. UNCHANGED <<undelivered, seen, last, owed, task, news>>
    BY <1>7 DEF Tick, tasks
  <2> QED BY <1>7, <2>1, AgesGrow
<1>8. CASE Terminated \/ UNCHANGED vars
  BY <1>8 DEF Terminated, vars, tasks, marks, notifier
<1> QED BY <1>1, <1>2, <1>3, <1>4, <1>5, <1>6, <1>7, <1>8 DEF Next

(* The variables keep their types. *)
THEOREM HealthTypeCorrect == Spec => []HealthTypeOK
<1>1. ASSUME Init PROVE RestTypes
  <2>1. age \in [Watchers -> Nat] /\ elapsed \in [Lanes -> Nat]
    BY <1>1 DEF Init
  <2>2. undelivered = {} /\ ~seen /\ last = "none" /\ owed = {} /\ task = "subscribed" /\ ~news
    BY <1>1 DEF Init
  <2>3. seen \in BOOLEAN /\ news \in BOOLEAN
    BY <1>1 DEF Init
  <2> QED BY <2>1, <2>2, <2>3 DEF RestTypes
<1>2. FedInv /\ RestTypes => HealthTypeOK
  BY HealthAssumption DEF HealthAssumption, FedInv, Tables, RestTypes, HealthTypeOK
<1> QED BY <1>1, <1>2, RestStep, FedHolds, PTL DEF Spec, Safety
=============================================================================

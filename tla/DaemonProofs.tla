----------------------------- MODULE DaemonProofs ----------------------------
(***************************************************************************)
(* What holds for every configuration file and any number of signals and   *)
(* faults.  First, about Config: an accepted configuration can be put to   *)
(* work.  Then, about Daemon: when it says that it is ready, with what it  *)
(* exits, and what it leaves behind.                                       *)
(***************************************************************************)
EXTENDS Daemon, FiniteSetTheorems, SequenceTheorems, WellFoundedInduction, TLAPS

(* Every trigger of an accepted configuration finds a command, and every account reference an
   account (validate, config.rs:304; command_trigger, main.rs:311). *)
THEOREM AcceptedResolves ==
  ASSUME NEW c, Valid(c)
  PROVE  Resolves(c)
<1> SUFFICES ASSUME NEW w \in Watchers(c)
             PROVE  /\ Triggered(c, w) # {}
                    /\ w[1] = 2 /\ Source(c, w).type = "imap_idle"
                         => Source(c, w).account \in AccountNames(c)
  BY DEF Resolves
<1>1. CASE w \in Mailboxes(c)
  <2>1. w[1] = 1
    BY <1>1 DEF Mailboxes
  <2>2. MailboxSpec(c, w) \in Specs(c) /\ MailboxSpec(c, w).name = WatcherName(c, w)
    BY <1>1 DEF Specs, MailboxSpec
  <2> QED BY <2>1, <2>2 DEF Triggered, TriggerName
<1>2. CASE w \in Sources(c)
  <2>1. w[1] = 2 /\ w[2] \in DOMAIN c.sources
    BY <1>2 DEF Sources
  <2>2. ValidSource(c, Source(c, w))
    BY <2>1 DEF Valid, Source
  <2>3. PICK i \in DOMAIN c.commands : c.commands[i].name = Source(c, w).command
    BY <2>2 DEF ValidSource, CommandNames
  <2>4. CommandSpec(c, c.commands[i]) \in Specs(c)
    BY DEF Specs
  <2>5. CommandSpec(c, c.commands[i]).name = TriggerName(c, w)
    BY <2>1, <2>3 DEF CommandSpec, TriggerName
  <2> QED BY <2>1, <2>2, <2>4, <2>5 DEF Triggered, ValidSource, ValidImapSource
<1> QED BY <1>1, <1>2 DEF Watchers

(* Two commands of one name are the same command. *)
LEMMA OneSpecPerName ==
  ASSUME NEW c, Valid(c), NEW s \in Specs(c), NEW t \in Specs(c), s.name = t.name
  PROVE  s = t
<1>1. ASSUME NEW w \in Mailboxes(c), NEW v \in Mailboxes(c), WatcherName(c, w) = WatcherName(c, v)
      PROVE  w = v
  BY <1>1 DEF Valid, DistinctNames, Watchers
<1>2. \A w \in Mailboxes(c), i \in DOMAIN c.commands : WatcherName(c, w) # c.commands[i].name
  BY DEF Valid, DistinctNames, CommandNames
<1>3. \A i, j \in DOMAIN c.commands : c.commands[i].name = c.commands[j].name => i = j
  BY DEF Valid, ValidCommands
<1>4. \A w \in Mailboxes(c) : MailboxSpec(c, w).name = WatcherName(c, w)
  BY DEF MailboxSpec
<1>5. \A i \in DOMAIN c.commands : CommandSpec(c, c.commands[i]).name = c.commands[i].name
  BY DEF CommandSpec
<1>6. CASE \E w \in Mailboxes(c) : s = MailboxSpec(c, w)
  <2>1. PICK w \in Mailboxes(c) : s = MailboxSpec(c, w)
    BY <1>6
  <2>2. PICK v \in Mailboxes(c) : t = MailboxSpec(c, v)
    BY <2>1, <1>2, <1>4, <1>5 DEF Specs
  <2> QED BY <2>1, <2>2, <1>1, <1>4
<1>7. CASE \E i \in DOMAIN c.commands : s = CommandSpec(c, c.commands[i])
  <2>1. PICK i \in DOMAIN c.commands : s = CommandSpec(c, c.commands[i])
    BY <1>7
  <2>2. PICK j \in DOMAIN c.commands : t = CommandSpec(c, c.commands[j])
    BY <2>1, <1>2, <1>4, <1>5 DEF Specs
  <2> QED BY <2>1, <2>2, <1>3, <1>5
<1> QED BY <1>6, <1>7 DEF Specs

(* The watchers are finitely many, and SourceCount counts them. *)
LEMMA CountOfWatchers ==
  ASSUME NEW c, NEW A, NEW M, NEW S, c.accounts \in Seq(A), c.sources \in Seq(S),
         \A i \in DOMAIN c.accounts : c.accounts[i].mailboxes \in Seq(M)
  PROVE  IsFiniteSet(Watchers(c)) /\ Cardinality(Watchers(c)) = SourceCount(c)
<1> DEFINE Boxes(i) == {<<1, i, j>> : j \in DOMAIN c.accounts[i].mailboxes}
           Groups == {Boxes(i) : i \in DOMAIN c.accounts}
<1>1. DOMAIN c.accounts = 1 .. Len(c.accounts) /\ Len(c.accounts) \in Nat
  OBVIOUS
<1>2. DOMAIN c.sources = 1 .. Len(c.sources) /\ Len(c.sources) \in Nat
  OBVIOUS
<1>3. ASSUME NEW i \in DOMAIN c.accounts PROVE IsFiniteSet(Boxes(i))
  <2> DEFINE places == DOMAIN c.accounts[i].mailboxes
             f == [j \in places |-> <<1, i, j>>]
  <2>1. places = 1 .. Len(c.accounts[i].mailboxes) /\ Len(c.accounts[i].mailboxes) \in Nat
    BY <1>3
  <2>2. IsFiniteSet(places)
    BY <2>1, FS_Interval
  <2>3. f \in Surjection(places, Boxes(i))
    BY DEF Surjection
  <2> QED BY <2>2, <2>3, FS_Surjection
<1>4. IsFiniteSet(Groups)
  <2> DEFINE f == [i \in DOMAIN c.accounts |-> Boxes(i)]
  <2>1. IsFiniteSet(DOMAIN c.accounts)
    BY <1>1, FS_Interval
  <2>2. f \in Surjection(DOMAIN c.accounts, Groups)
    BY DEF Surjection
  <2> QED BY <2>1, <2>2, FS_Surjection
<1>5. IsFiniteSet(Mailboxes(c))
  <2>1. Mailboxes(c) = UNION Groups
    BY DEF Mailboxes
  <2>2. \A G \in Groups : IsFiniteSet(G)
    BY <1>3
  <2> QED BY <1>4, <2>1, <2>2, FS_UNION
<1>6. IsFiniteSet(Sources(c)) /\ Cardinality(Sources(c)) = Len(c.sources)
  <2> DEFINE f == [k \in DOMAIN c.sources |-> <<2, k, 1>>]
  <2>1. IsFiniteSet(DOMAIN c.sources) /\ Cardinality(DOMAIN c.sources) = Len(c.sources)
    BY <1>2, FS_Interval
  <2>2. f \in Surjection(DOMAIN c.sources, Sources(c))
    BY DEF Surjection, Sources
  <2>3. f \in Injection(DOMAIN c.sources, Sources(c))
    BY <2>2 DEF Injection, IsInjective, Surjection
  <2> QED BY <2>1, <2>2, <2>3, FS_Surjection
<1>7. Mailboxes(c) \cap Sources(c) = {}
  BY DEF Mailboxes, Sources
<1>8. Cardinality(Mailboxes(c) \cap Sources(c)) = 0
  BY <1>7, FS_EmptySet
<1>9. Cardinality(Mailboxes(c)) \in Nat
  BY <1>5, FS_CardinalityType
<1>10. /\ IsFiniteSet(Mailboxes(c) \cup Sources(c))
       /\ Cardinality(Mailboxes(c) \cup Sources(c)) = Cardinality(Mailboxes(c)) + Len(c.sources) - 0
  BY <1>5, <1>6, <1>8, FS_Union, Zenon
<1>11. Cardinality(Mailboxes(c)) + Len(c.sources) - 0 = Cardinality(Mailboxes(c)) + Len(c.sources)
  BY <1>2, <1>9
<1> QED BY <1>10, <1>11, Zenon DEF Watchers, SourceCount

(* An accepted configuration of any size can be put to work: every watcher triggers exactly one
   command, every reference resolves, and the numbers of watchers and lanes that RuntimeState is
   told (config.rs:560, state.rs:290) are the numbers of names that register with it. *)
THEOREM AcceptedWires ==
  ASSUME NEW c, NEW A, NEW M, NEW S, c.accounts \in Seq(A), c.sources \in Seq(S),
         \A i \in DOMAIN c.accounts : c.accounts[i].mailboxes \in Seq(M),
         Valid(c)
  PROVE  Wires(c)
<1>1. Resolves(c)
  BY AcceptedResolves
<1>2. ASSUME NEW w \in Watchers(c) PROVE Cardinality(Triggered(c, w)) = 1
  <2>1. PICK s : s \in Triggered(c, w)
    BY <1>1 DEF Resolves
  <2>2. Triggered(c, w) = {s}
    BY <2>1, OneSpecPerName DEF Triggered
  <2> QED BY <2>2, FS_Singleton
<1>3. Cardinality({WatcherName(c, w) : w \in Watchers(c)}) = SourceCount(c)
  <2> DEFINE names == {WatcherName(c, w) : w \in Watchers(c)}
             f == [w \in Watchers(c) |-> WatcherName(c, w)]
  <2>1. f \in Surjection(Watchers(c), names)
    BY DEF Surjection
  <2>2. \A w, v \in Watchers(c) : WatcherName(c, w) = WatcherName(c, v) => w = v
    BY DEF Valid, DistinctNames
  <2>3. f \in Injection(Watchers(c), names)
    BY <2>1, <2>2 DEF Injection, IsInjective, Surjection
  <2> QED BY <2>1, <2>3, CountOfWatchers, FS_Surjection
<1>4. LanesOf(c) = {WatcherName(c, w) : w \in Mailboxes(c)}
                     \cup {LaneName(c.commands[i]) : i \in DOMAIN c.commands}
  <2>1. \A w \in Mailboxes(c) : MailboxSpec(c, w).lane = WatcherName(c, w)
    BY DEF MailboxSpec
  <2>2. \A i \in DOMAIN c.commands : CommandSpec(c, c.commands[i]).lane = LaneName(c.commands[i])
    BY DEF CommandSpec
  <2> QED BY <2>1, <2>2 DEF LanesOf, Specs
<1> QED BY <1>1, <1>2, <1>3, <1>4 DEF Wires, LaneCount

(* Greatest is the greatest: of numbers that are bounded, as those of a file are. *)
LEMMA GreatestBounds ==
  ASSUME NEW b \in Nat, NEW N, N \subseteq 0 .. b, NEW least \in Nat
  PROVE  Greatest(N, least) \in Nat /\ \A n \in N : n <= Greatest(N, least)
<1> DEFINE less == {p \in Nat \X Nat : p[1] < p[2]}
           room == {u \in Nat : \A y \in N : y <= u}
<1>1. IsWellFoundedOn(less, Nat)
  BY NatLessThanWellFounded, Zenon DEF OpToRel
<1>2. room \subseteq Nat /\ b \in room
  OBVIOUS
<1>3. PICK u \in room : \A v \in room : ~(<<v, u>> \in less)
  <2> HIDE DEF less, room
  <2> QED BY <1>1, <1>2, WFMin
<1>4. u \in Nat /\ \A y \in N : y \in Nat /\ y <= u
  OBVIOUS
<1>5. \A v \in room : u <= v
  <2> SUFFICES ASSUME NEW v \in room, v < u PROVE FALSE
    BY <1>4
  <2>1. <<v, u>> \in less
    BY <1>4
  <2> QED BY <1>3, <2>1
<1>6. ASSUME N # {} PROVE u \in N
  <2> SUFFICES ASSUME u \notin N PROVE FALSE
    OBVIOUS
  <2>1. u # 0
    <3>1. PICK y : y \in N
      BY <1>6
    <3>2. y \in Nat /\ y <= u /\ y # u
      BY <1>4, <3>1
    <3> QED BY <1>4, <3>2
  <2>2. \A y \in N : y <= u - 1
    BY <1>4
  <2>3. u - 1 \in room
    BY <1>4, <2>1, <2>2
  <2> QED BY <1>4, <1>5, <2>3
<1>7. ASSUME N # {}, NEW g, g = CHOOSE x \in N : \A y \in N : y <= x
      PROVE  g \in N /\ \A y \in N : y <= g
  BY <1>4, <1>6, <1>7
<1>8. CASE N = {}
  BY <1>8 DEF Greatest
<1>9. CASE N # {}
  BY <1>4, <1>7, <1>9 DEF Greatest
<1> QED BY <1>8, <1>9

(* The timeouts of a file are numbers. *)
LEMMA SettingIsNumber ==
  ASSUME NEW c, WellFormed(c), NEW s \in {"command_timeout", "operation_timeout"}
  PROVE  Setting(c, s) \in 0 .. MaxSeconds + 300
<1>1. s \in DOMAIN Default /\ Default[s] \in 0 .. 300
  BY DEF Default
<1>2. c.settings[s] \subseteq 0 .. MaxSeconds
  BY <1>1 DEF WellFormed, IsOption
<1>3. CASE c.settings[s] = {}
  BY <1>1, <1>3, ConfigAssumption DEF Setting, OrElse, ConfigAssumption
<1>4. CASE c.settings[s] # {}
  BY <1>2, <1>4, ConfigAssumption DEF Setting, OrElse, ConfigAssumption
<1> QED BY <1>3, <1>4

(* The grace of shutdown outlasts every command, every request of a poller (the maxima of
   run_daemon, main.rs:335 and main.rs:346) and the termination of a group. *)
LEMMA GraceOutlasts ==
  ASSUME NEW c, WellFormed(c)
  PROVE  GraceCovers(c)
<1> DEFINE b == MaxSeconds + 300
           timeouts == {s.timeout : s \in Specs(c)}
           polls == {n \in DOMAIN c.sources : c.sources[n].type = "gmail_api_poll"}
           requests == {OrElse(c.sources[k].api, 60) : k \in polls}
<1>1. b \in Nat
  BY ConfigAssumption DEF ConfigAssumption
<1>2. timeouts \subseteq 0 .. b
  <2>1. Setting(c, "command_timeout") \in 0 .. b
    BY SettingIsNumber
  <2>2. \A w \in Mailboxes(c) : MailboxSpec(c, w).timeout \in 0 .. b
    BY <2>1 DEF MailboxSpec
  <2>3. ASSUME NEW i \in DOMAIN c.commands PROVE CommandSpec(c, c.commands[i]).timeout \in 0 .. b
    <3>1. c.commands[i].timeout \subseteq 0 .. MaxSeconds
      BY DEF WellFormed, IsOption
    <3> QED BY <2>1, <3>1, ConfigAssumption DEF CommandSpec, CommandTimeout, OrElse, ConfigAssumption
  <2> QED BY <2>2, <2>3 DEF Specs
<1>3. requests \subseteq 0 .. b
  <2>1. \A k \in polls : c.sources[k].api \subseteq 0 .. MaxSeconds
    BY DEF WellFormed, IsOption
  <2> QED BY <2>1, ConfigAssumption DEF OrElse, ConfigAssumption
<1>4. Setting(c, "command_timeout") \in Nat /\ Setting(c, "operation_timeout") \in Nat
  BY SettingIsNumber, <1>1
<1> HIDE DEF b, timeouts, requests
<1>5. MaxCommandTimeout(c) \in Nat /\ \A t \in timeouts : t <= MaxCommandTimeout(c)
  <2>1. MaxCommandTimeout(c) = Greatest(timeouts, Setting(c, "command_timeout"))
    BY DEF MaxCommandTimeout, timeouts
  <2> QED BY <1>1, <1>2, <1>4, <2>1, GreatestBounds
<1>6. Greatest(requests, 0) \in Nat /\ \A t \in requests : t <= Greatest(requests, 0)
  BY <1>1, <1>3, GreatestBounds
<1>7. MaxOperationTimeout(c) = Greater(Setting(c, "operation_timeout"), Greatest(requests, 0))
  BY DEF MaxOperationTimeout, requests
<1>8. \A t \in timeouts \cup requests : t < ShutdownGrace(c)
  <2>1. \A t \in timeouts \cup requests : t \in Nat
    BY <1>1, <1>2, <1>3
  <2> QED BY <1>4, <1>5, <1>6, <1>7, <2>1 DEF ShutdownGrace, Greater
<1>9. ASSUME NEW k \in polls, NEW n \in c.sources[k].api PROVE n \in requests
  <2>1. c.sources[k].api = {n}
    BY <1>9 DEF WellFormed, IsOption
  <2> QED BY <2>1 DEF OrElse, requests
<1>10. TerminateGrace < ShutdownGrace(c)
  BY <1>4, <1>5, <1>6, <1>7 DEF ShutdownGrace, Greater, TerminateGrace
<1> QED BY <1>8, <1>9, <1>10 DEF GraceCovers, timeouts

(* What validation accepts can be put to work. *)
LEMMA AcceptedWorks ==
  ASSUME NEW c, WellFormed(c), Valid(c)
  PROVE  Wires(c) /\ GraceCovers(c)
<1> DEFINE Elements(s) == {s[i] : i \in DOMAIN s}
           boxes == UNION {Elements(c.accounts[i].mailboxes) : i \in DOMAIN c.accounts}
<1>1. c.accounts \in Seq(Elements(c.accounts)) /\ c.sources \in Seq(Elements(c.sources))
  BY DEF WellFormed, IsList
<1>2. ASSUME NEW i \in DOMAIN c.accounts PROVE c.accounts[i].mailboxes \in Seq(boxes)
  <2> DEFINE m == c.accounts[i].mailboxes
  <2>1. m \in Seq(Elements(m)) /\ Elements(m) \subseteq boxes
    BY DEF WellFormed, IsList
  <2> HIDE DEF boxes, Elements
  <2> QED BY <2>1, SeqMonotonic
<1> HIDE DEF boxes, Elements
<1>3. Wires(c)
  BY <1>1, <1>2, AcceptedWires
<1> QED BY <1>3, GraceOutlasts

(* test-command finds the run the lane of the daemon would make (test_command, main.rs:182). *)
LEMMA TestAgrees ==
  ASSUME NEW c, Valid(c)
  PROVE  /\ \A i \in DOMAIN c.commands :
              \A s \in Specs(c) : s.name = c.commands[i].name =>
                TestByName(c, s.name) = {RunOf(s.cmd, s.timeout, s.policy)}
         /\ \A w \in Mailboxes(c) : \A s \in Triggered(c, w) :
              TestByMailbox(c, c.accounts[w[2]].name, Mailbox(c, w).name)
                = {RunOf(s.cmd, s.timeout, s.policy)}
<1>1. ASSUME NEW i \in DOMAIN c.commands, NEW s \in Specs(c), s.name = c.commands[i].name
      PROVE  TestByName(c, s.name) = {RunOf(s.cmd, s.timeout, s.policy)}
  <2>1. CommandSpec(c, c.commands[i]) \in Specs(c)
    BY DEF Specs
  <2>2. CommandSpec(c, c.commands[i]).name = c.commands[i].name
    BY DEF CommandSpec
  <2>3. s = CommandSpec(c, c.commands[i])
    BY <1>1, <2>1, <2>2, OneSpecPerName
  <2>4. RunOf(s.cmd, s.timeout, s.policy)
          = RunOf(c.commands[i].cmd, CommandTimeout(c, c.commands[i]), CommandPolicy(c, c.commands[i]))
    BY <2>3 DEF CommandSpec
  <2>5. {k \in DOMAIN c.commands : c.commands[k].name = s.name} = {i}
    BY <1>1 DEF Valid, ValidCommands
  <2> QED BY <2>4, <2>5 DEF TestByName
<1>2. ASSUME NEW w \in Mailboxes(c), NEW s \in Triggered(c, w)
      PROVE  TestByMailbox(c, c.accounts[w[2]].name, Mailbox(c, w).name)
               = {RunOf(s.cmd, s.timeout, s.policy)}
  <2> DEFINE found == {v \in Mailboxes(c) : /\ c.accounts[v[2]].name = c.accounts[w[2]].name
                                            /\ Mailbox(c, v).name = Mailbox(c, w).name}
  <2>1. \A v \in Mailboxes(c) : v[1] = 1
    BY DEF Mailboxes
  <2>2. \A v \in found : WatcherName(c, v) = WatcherName(c, w)
    BY <2>1 DEF WatcherName
  <2>3. found = {w}
    BY <2>2 DEF Valid, DistinctNames, Watchers
  <2>4. MailboxSpec(c, w) \in Specs(c) /\ MailboxSpec(c, w).name = TriggerName(c, w)
    BY <2>1 DEF Specs, MailboxSpec, TriggerName
  <2>5. s = MailboxSpec(c, w)
    BY <2>4, OneSpecPerName DEF Triggered
  <2>6. RunOf(s.cmd, s.timeout, s.policy)
          = RunOf(Mailbox(c, w).on_notify, Setting(c, "command_timeout"), DefaultPolicy(c))
    BY <2>5 DEF MailboxSpec
  <2> HIDE DEF found
  <2>7. TestByMailbox(c, c.accounts[w[2]].name, Mailbox(c, w).name)
          = {RunOf(Mailbox(c, v).on_notify, Setting(c, "command_timeout"), DefaultPolicy(c)) : v \in found}
    BY <2>3 DEF TestByMailbox, found
  <2> QED BY <2>3, <2>6, <2>7
<1> QED BY <1>1, <1>2

(* What a lane does with its command. *)
LaneStep(l) == StartCommand(l) \/ EndCommand(l) \/ PipeHeld(l) \/ Cancel(l) \/ LaneStops(l)

(* Only what has been accepted is put to work. *)
WorkInv ==
  /\ config \subseteq Configs /\ \A c, d \in config : c = d
  /\ pc = "wire" => \A c \in config : Accepted(c)

LEMMA WorkKept == Safety => []WorkInv
<1>1. Init => WorkInv
  BY DEF Init, WorkInv
<1>2. ASSUME WorkInv, [Next]_vars PROVE WorkInv'
  <2> USE DEF WorkInv, loading, hearing
  <2>1. CASE Load
    BY <1>2, <2>1 DEF Load
  <2>2. CASE Wire
    BY <1>2, <2>2 DEF Wire
  <2>3. ASSUME NEW w, TakeOk(w) \/ TakeFailure(w) PROVE WorkInv'
    BY <1>2, <2>3 DEF TakeOk, TakeFailure
  <2>4. CASE AllAnswered \/ Announce \/ TakeFatal \/ TakeSignal \/ Stopped
    BY <1>2, <2>4 DEF AllAnswered, Announce, TakeFatal, TakeSignal, Stopped
  <2>5. CASE Listen \/ Signal
    BY <1>2, <2>5 DEF Listen, Signal
  <2>6. CASE AtRest \/ UNCHANGED vars
    BY <1>2, <2>6 DEF AtRest, vars
  <2>7. ASSUME NEW w, \/ WatcherReady(w) \/ AuthFails(w) \/ PassOn(w) \/ SetupFails(w)
                      \/ Panics(w) \/ WatcherStops(w) \/ Kick(w)
        PROVE  WorkInv'
    BY <1>2, <2>7 DEF WatcherReady, AuthFails, PassOn, SetupFails, Panics, WatcherStops, Kick
  <2>8. ASSUME NEW l, LaneAwaited(l) \/ GiveUp(l) \/ Tick PROVE WorkInv'
    BY <1>2, <2>8 DEF LaneAwaited, GiveUp, NextHandle, Tick
  <2>9. ASSUME NEW l, LaneStep(l) PROVE WorkInv'
    BY <1>2, <2>9 DEF LaneStep, StartCommand, EndCommand, PipeHeld, Cancel, LaneStops
  <2> QED BY <1>2, <2>1, <2>2, <2>3, <2>4, <2>5, <2>6, <2>7, <2>8, <2>9 DEF Next, MainStep, LaneStep
<1> QED BY <1>1, <1>2, PTL DEF Safety

(* Whatever the file says: what the daemon accepts can be wired, and the grace it grants on shutdown
   outlasts every command and request (run_daemon, main.rs:333). *)
THEOREM AcceptedConfigsWork == Safety => []AcceptedConfigWires
<1>1. WorkInv => AcceptedConfigWires
  BY AcceptedWorks, DaemonAssumption DEF WorkInv, AcceptedConfigWires, Accepted, DaemonAssumption
<1> QED BY <1>1, WorkKept, PTL

(* Whatever the file says: test-command runs what the daemon would, by the name of a command or by
   account and mailbox of the accounts (test_command, main.rs:182). *)
THEOREM TestIsTrue == Safety => []TestRunsTheCommand
<1>1. WorkInv => TestRunsTheCommand
  BY TestAgrees DEF WorkInv, TestRunsTheCommand, Accepted
<1> QED BY <1>1, WorkKept, PTL

-----------------------------------------------------------------------------
(* The daemon.                                                             *)

USE DEF loading, waiting, kicks, stopping, hearing

AllOk == \A w \in DOMAIN answer : answer[w] = "ok"

(* What has been taken from initial_ready was "ok", and stays so; the startup signal comes after. *)
ReadyInv ==
  /\ pc \in {"load", "wire", "initial", "announce", "serve", "stop", "over"}
  /\ required /\ pc = "initial" => \A w \in DOMAIN answer \ open : answer[w] = "ok"
  /\ required /\ pc \in {"announce", "serve"} => AllOk
  /\ startup => pc \in {"serve", "stop", "over"} /\ (required => AllOk)
  /\ kicked # {} => startup

(* An answer is given once. *)
LEMMA TellKeeps ==
  ASSUME NEW w, NEW r, Tell(w, r)
  PROVE  /\ DOMAIN answer' = DOMAIN answer
         /\ \A v \in DOMAIN answer : answer[v] = "ok" => answer'[v] = "ok"
BY DEF Tell

(* A task changes nothing the start-up looks at but its answer. *)
LEMMA ReadyKept ==
  ASSUME ReadyInv, UNCHANGED <<required, pc, open, startup, kicked>>,
         answer' = answer \/ \E w, r : Tell(w, r)
  PROVE  ReadyInv'
<1>1. /\ DOMAIN answer' = DOMAIN answer
      /\ \A v \in DOMAIN answer : answer[v] = "ok" => answer'[v] = "ok"
  BY TellKeeps
<1> QED BY <1>1 DEF ReadyInv, AllOk

LEMMA ReadyStep ==
  ASSUME ReadyInv, [Next]_vars
  PROVE  ReadyInv'
<1>1. CASE Load
  BY <1>1 DEF Load, ReadyInv, AllOk
<1>2. CASE Wire
  BY <1>2 DEF Wire, ReadyInv, AllOk
<1>3. ASSUME NEW w, TakeOk(w) PROVE ReadyInv'
  BY <1>3 DEF TakeOk, LeaveSelect, Asked, ReadyInv, AllOk
<1>4. ASSUME NEW w, TakeFailure(w) PROVE ReadyInv'
  BY <1>4 DEF TakeFailure, LeaveSelect, ReadyInv, AllOk
<1>5. CASE AllAnswered
  BY <1>5 DEF AllAnswered, ReadyInv, AllOk
<1>6. CASE Announce
  BY <1>6 DEF Announce, ReadyInv, AllOk
<1>7. CASE TakeFatal \/ TakeSignal
  BY <1>7 DEF TakeFatal, TakeSignal, LeaveSelect, ReadyInv, AllOk
<1>8. CASE Stopped
  BY <1>8 DEF Stopped, ReadyInv, AllOk
<1>9. CASE Listen
  BY <1>9, ReadyKept DEF Listen
<1>10. CASE Signal
  BY <1>10 DEF Signal, ReadyInv, AllOk
<1>11. ASSUME NEW w, WatcherReady(w) \/ AuthFails(w) \/ PassOn(w) \/ SetupFails(w) \/ Panics(w)
                       \/ WatcherStops(w)
       PROVE  ReadyInv'
  BY <1>11, ReadyKept DEF WatcherReady, AuthFails, PassOn, SetupFails, Panics, WatcherStops
<1>12. ASSUME NEW w, Kick(w) PROVE ReadyInv'
  BY <1>12 DEF Kick, ReadyInv, AllOk
<1>13. ASSUME NEW l, LaneStep(l) PROVE ReadyInv'
  BY <1>13, ReadyKept DEF LaneStep, StartCommand, EndCommand, PipeHeld, Cancel, LaneStops
<1>14. ASSUME NEW l, LaneAwaited(l) \/ GiveUp(l) \/ Tick PROVE ReadyInv'
  BY <1>14, ReadyKept DEF LaneAwaited, GiveUp, NextHandle, Tick
<1>15. CASE UNCHANGED vars
  BY <1>15, ReadyKept DEF vars
<1> QED BY <1>1, <1>2, <1>3, <1>4, <1>5, <1>6, <1>7, <1>8, <1>9, <1>10, <1>11, <1>12, <1>13, <1>14,
           <1>15
        DEF Next, MainStep, AtRest, LaneStep

(* With --initial-connect-required neither READY nor run_on_startup comes before every source has
   completed its initial setup (run_daemon, main.rs:660). *)
THEOREM ReadyIsReady == Safety => []ReadyMeansReady
<1>1. Init => ReadyInv
  BY DEF Init, ReadyInv, AllOk, None
<1>2. ReadyInv => ReadyMeansReady
  BY DEF ReadyInv, ReadyMeansReady, AllOk
<1> QED BY <1>1, <1>2, ReadyStep, PTL DEF Safety

-----------------------------------------------------------------------------

(* A failure on its way is that of a watcher that authenticates; a result is settled when the
   daemon stops; only an accepted configuration is put to work. *)
Refused(w) == w \in plan.network /\ w \in DOMAIN task /\ task[w] \in {"failed", "ended"}

ExitInv ==
  /\ DOMAIN answer = DOMAIN task
  /\ pc \in {"load", "wire"} => DOMAIN task = {}
  /\ \A w \in DOMAIN task : task[w] = "failed" => w \in plan.network
  /\ fatal \subseteq {w \in DOMAIN task : Refused(w)}
  /\ \A w \in DOMAIN task : answer[w] = "auth" => Refused(w)
  /\ open \subseteq DOMAIN task
  /\ signals \in Nat /\ (heard => signals > 0)
  /\ pc = "initial" => required
  /\ startup => pc \in {"serve", "stop", "over"}
  /\ \A c, d \in config : c = d
  /\ pc = "wire" => \A c \in config : Accepted(c)
  /\ shutdown => pc \in {"stop", "over"}
  /\ pc = "stop" => \/ exit = "ok" /\ signals > 0
                    \/ exit = "reauth" /\ \E w : Refused(w)
  /\ ExitCodes

(* What no step undoes. *)
LEMMA ExitKept ==
  ASSUME ExitInv, UNCHANGED <<config, required, pc, exit, plan, startup, shutdown, handler>>,
         pc # "over",
         DOMAIN task' = DOMAIN task, DOMAIN answer' = DOMAIN task, open' \subseteq open,
         signals' \in Nat, signals' >= signals, heard' => signals' > 0,
         \A w \in DOMAIN task : /\ Refused(w) => Refused(w)'
                                /\ task'[w] = "failed" => w \in plan.network
                                /\ answer'[w] = "auth" => Refused(w)'
                                /\ w \in fatal' => Refused(w)',
         fatal' \subseteq DOMAIN task
  PROVE  ExitInv'
<1>1. \A w : Refused(w) => Refused(w)'
  BY DEF Refused
<1>2. ExitCodes'
  BY DEF ExitCodes
<1>3. pc' = "stop" => \/ exit' = "ok" /\ signals' > 0
                      \/ exit' = "reauth" /\ \E w : Refused(w)'
  BY <1>1 DEF ExitInv
<1> QED BY <1>2, <1>3 DEF ExitInv

LEMMA ExitStep ==
  ASSUME ExitInv, [Next]_vars
  PROVE  ExitInv'
<1>1. CASE Load
  BY <1>1 DEF Load, ExitInv, ExitCodes, Refused
<1>2. CASE Wire
  <2>1. \A c \in config : Resolves(c)
    BY <1>2, AcceptedResolves DEF Wire, ExitInv, Accepted
  <2>2. PICK c \in config : /\ pc' = IF required THEN "initial" ELSE "announce"
                            /\ config' = {} /\ exit' = exit
                            /\ task' = [w \in Watchers(c) |-> "setup"]
                            /\ answer' = [w \in Watchers(c) |-> "none"]
                            /\ open' = IF required THEN Watchers(c) ELSE {}
    BY <1>2, <2>1 DEF Wire
  <2>3. fatal = {} /\ ~startup /\ ~shutdown /\ pc # "over"
    BY <1>2 DEF Wire, ExitInv
  <2>4. pc' \in {"initial", "announce"} /\ (pc' = "initial" => required') /\ config' = {}
    BY <1>2, <2>2 DEF Wire
  <2>5. /\ fatal' = {} /\ ~startup' /\ ~shutdown' /\ signals' = signals /\ heard' = heard
    BY <1>2, <2>3 DEF Wire
  <2>6. DOMAIN task' = Watchers(c) /\ DOMAIN answer' = Watchers(c) /\ open' \subseteq Watchers(c)
    BY <2>2
  <2>7. \A w \in Watchers(c) : task'[w] = "setup" /\ answer'[w] = "none"
    BY <2>2
  <2> QED BY <2>4, <2>5, <2>6, <2>7 DEF ExitInv, ExitCodes
<1>3. ASSUME NEW w \in DOMAIN task, TakeOk(w) PROVE ExitInv'
  <2>1. pc # "over"
    BY <1>3 DEF TakeOk
  <2> QED BY <1>3, <2>1, ExitKept DEF TakeOk, LeaveSelect, ExitInv, Refused
<1>4. ASSUME NEW w \in DOMAIN task, TakeFailure(w) PROVE ExitInv'
  <2>1. pc = "initial" /\ answer[w] \in {"auth", "error", "dropped"} /\ ~shutdown /\ ~startup /\ required
    BY <1>4 DEF TakeFailure, ExitInv
  <2>2. /\ pc' = "over" /\ exit' = (IF answer[w] = "auth" THEN "reauth" ELSE "failure")
        /\ ~heard' /\ UNCHANGED <<config, required, plan, task, answer, open, fatal, startup, shutdown,
                                  signals>>
    BY <1>4 DEF TakeFailure, LeaveSelect
  <2>3. answer[w] = "auth" => Refused(w)
    BY <2>1 DEF ExitInv
  <2>4. ExitCodes'
    BY <2>1, <2>2, <2>3 DEF ExitCodes, Refused, ExitInv
  <2>5. \A v \in DOMAIN task : Refused(v) <=> Refused(v)'
    BY <2>2 DEF Refused
  <2> QED BY <2>2, <2>4, <2>5 DEF ExitInv
<1>5. CASE AllAnswered
  BY <1>5 DEF AllAnswered, ExitInv, ExitCodes, Refused
<1>6. CASE Announce
  BY <1>6 DEF Announce, ExitInv, ExitCodes, Refused
<1>7. CASE TakeFatal
  <2>1. \E w : Refused(w)
    BY <1>7 DEF TakeFatal, ExitInv
  <2>2. pc' = "stop" /\ exit' = "reauth" /\ shutdown' /\ fatal' \subseteq fatal /\ ~heard'
    BY <1>7 DEF TakeFatal, LeaveSelect
  <2>3. UNCHANGED <<config, required, plan, task, answer, open, startup, signals>>
    BY <1>7 DEF TakeFatal, LeaveSelect
  <2>4. \A v : Refused(v) <=> Refused(v)'
    BY <2>3 DEF Refused
  <2> QED BY <2>1, <2>2, <2>3, <2>4 DEF ExitInv, ExitCodes
<1>8. CASE TakeSignal
  <2>1. signals > 0
    BY <1>8 DEF TakeSignal, ExitInv
  <2> QED BY <1>8, <2>1 DEF TakeSignal, LeaveSelect, ExitInv, ExitCodes, Refused
<1>9. CASE Stopped
  BY <1>9 DEF Stopped, ExitInv, ExitCodes, Refused
<1>10. CASE Listen
  <2>1. ExitCodes'
    BY <1>10 DEF Listen, ExitCodes
  <2> QED BY <1>10, <2>1 DEF Listen, ExitInv, Refused
<1>11. CASE Signal
  BY <1>11, DaemonAssumption DEF Signal, ExitInv, ExitCodes, Refused
<1>12. ASSUME NEW w \in DOMAIN task, WatcherReady(w) \/ SetupFails(w) \/ Panics(w) \/ WatcherStops(w)
       PROVE  ExitInv'
  BY <1>12, ExitKept
     DEF WatcherReady, SetupFails, Panics, WatcherStops, Tell, Alive, ExitInv, Refused
<1>13. ASSUME NEW w \in DOMAIN task, AuthFails(w) PROVE ExitInv'
  BY <1>13, ExitKept DEF AuthFails, Tell, Alive, ExitInv, Refused
<1>14. ASSUME NEW w \in DOMAIN task, PassOn(w) PROVE ExitInv'
  BY <1>14, ExitKept DEF PassOn, Alive, ExitInv, Refused
<1>15. ASSUME NEW w \in DOMAIN task, Kick(w) PROVE ExitInv'
  BY <1>15, ExitKept DEF Kick, Alive, ExitInv, Refused
<1>16. ASSUME NEW l, LaneStep(l) PROVE ExitInv'
  BY <1>16, ExitKept
     DEF LaneStep, StartCommand, EndCommand, PipeHeld, Cancel, LaneStops, Alive, ExitInv, Refused
<1>17. ASSUME NEW l, LaneAwaited(l) \/ GiveUp(l) \/ Tick PROVE ExitInv'
  BY <1>17, ExitKept DEF LaneAwaited, GiveUp, Awaited, NextHandle, Tick, ExitInv, Refused
<1>18. CASE UNCHANGED vars
  BY <1>18 DEF vars, ExitInv, ExitCodes, Refused
<1> QED BY <1>1, <1>2, <1>3, <1>4, <1>5, <1>6, <1>7, <1>8, <1>9, <1>10, <1>11, <1>12, <1>13, <1>14,
           <1>15, <1>16, <1>17, <1>18
        DEF Next, MainStep, AtRest, LaneStep

(* The exit status tells what happened (main.rs:87). *)
THEOREM ExitTellsWhy == Safety => []ExitCodes
<1>1. Init => ExitInv
  BY DEF Init, ExitInv, ExitCodes, Refused, None
<1>2. ExitInv => ExitCodes
  BY DEF ExitInv
<1> QED BY <1>1, <1>2, ExitStep, PTL DEF Safety

-----------------------------------------------------------------------------

(* While the daemon stops: a lane is done with when it has ended or waits for a pipe only; and once
   time has passed no lane is idle or runs its command, and none has been terminating for longer than
   Terminate, so that a lane which takes as long as the grace is one that waits for a pipe. *)
LanesStop ==
  /\ gone # {} \/ since > 0 \/ waited > 0 => pc \in {"stop", "over"}
  /\ since \in 0 .. Terminate /\ waited \in 0 .. Grace
  /\ \A l \in DOMAIN run :
       /\ run[l] \in {"idle", "running", "terminating", "held", "ended", "left"}
       /\ l \in gone => run[l] \in {"ended", "held"}
       /\ run[l] \in {"idle", "running"} => since = 0 /\ waited = 0
       /\ run[l] = "terminating" => waited <= since

(* The lanes are waited for, shutdown is asked for only on the way to that, and a signal is heard
   only by a daemon that waits for one. *)
StopInv ==
  /\ shutdown => pc \in {"stop", "over"}
  /\ pc = "stop" => shutdown
  /\ startup => pc \in {"serve", "stop", "over"}
  /\ pc = "initial" => required
  /\ listening \/ heard => handler /\ pc \in {"initial", "announce", "serve"}
  /\ LanesStop
  /\ StopsCleanly

(* Nothing happens that StopInv speaks of. *)
LEMMA StopKept ==
  ASSUME StopInv,
         UNCHANGED <<pc, exit, required, startup, shutdown, listening, heard, handler, run, stopping>>
  PROVE  StopInv'
BY DEF StopInv, LanesStop, StopsCleanly

(* A command of a lane starts and ends while the daemon goes on. *)
LEMMA RunKeepsStop ==
  ASSUME StopInv, NEW l \in DOMAIN run, LaneStep(l)
  PROVE  StopInv'
<1>1. /\ pc # "over"
      /\ UNCHANGED <<pc, exit, required, startup, shutdown, listening, heard, handler, stopping>>
  BY DEF LaneStep, StartCommand, EndCommand, PipeHeld, Cancel, LaneStops, Alive
<1>2. PICK r : /\ run' = [run EXCEPT ![l] = r]
               /\ r \in {"idle", "running", "terminating", "held", "ended"}
               /\ r = "idle" => ~shutdown
               /\ r = "running" => run[l] = "idle"
               /\ r = "terminating" => run[l] = "running"
               /\ run[l] = "held" => r = "ended" \/ ~shutdown
               /\ run[l] # "ended"
  BY DEF LaneStep, StartCommand, EndCommand, PipeHeld, Cancel, LaneStops
<1>3. DOMAIN run' = DOMAIN run /\ \A k \in DOMAIN run : run'[k] = IF k = l THEN r ELSE run[k]
  BY <1>2
<1>4. gone # {} \/ since > 0 \/ waited > 0 => shutdown
  BY <1>1 DEF StopInv, LanesStop
<1>5. since \in Nat /\ waited \in Nat
  BY DaemonAssumption DEF StopInv, LanesStop, DaemonAssumption
<1>6. ASSUME NEW k \in DOMAIN run'
      PROVE  /\ run'[k] \in {"idle", "running", "terminating", "held", "ended", "left"}
             /\ k \in gone => run'[k] \in {"ended", "held"}
             /\ run'[k] \in {"idle", "running"} => since = 0 /\ waited = 0
             /\ run'[k] = "terminating" => waited <= since
  <2>1. CASE k = l
    BY <1>2, <1>3, <1>4, <1>5, <2>1 DEF StopInv, LanesStop
  <2>2. CASE k # l
    BY <1>3, <2>2 DEF StopInv, LanesStop
  <2> QED BY <2>1, <2>2
<1>7. LanesStop'
  BY <1>1, <1>3, <1>6 DEF StopInv, LanesStop
<1>8. StopsCleanly'
  BY <1>1, <1>2, <1>3 DEF StopInv, StopsCleanly
<1> QED BY <1>1, <1>7, <1>8 DEF StopInv

(* Nothing but a lane that waits for a pipe takes as long as the grace. *)
LEMMA GivenUpIsHeld ==
  ASSUME StopInv, NEW l \in DOMAIN run, GiveUp(l)
  PROVE  run[l] = "held"
<1>1. waited > 0 /\ ~(waited <= since)
  BY DaemonAssumption DEF GiveUp, StopInv, LanesStop, DaemonAssumption
<1>2. run[l] # "left"
  BY DEF GiveUp, Awaited, StopInv, StopsCleanly
<1> QED BY <1>1, <1>2 DEF GiveUp, StopInv, LanesStop

(* The daemon waits for its lanes. *)
LEMMA WaitKeepsStop ==
  ASSUME StopInv, \/ \E l \in DOMAIN run : LaneAwaited(l) \/ GiveUp(l)
                  \/ Tick \/ Stopped
  PROVE  StopInv'
<1>1. ASSUME NEW l \in DOMAIN run, LaneAwaited(l) \/ GiveUp(l) PROVE StopInv'
  <2>1. pc = "stop" /\ run[l] \in {"ended", "held"}
    BY <1>1, GivenUpIsHeld DEF LaneAwaited, GiveUp, Awaited
  <2>2. /\ gone' = gone \cup {l} /\ waited' = 0
        /\ UNCHANGED <<since, pc, exit, required, startup, shutdown, listening, heard, handler, run>>
    BY <1>1 DEF LaneAwaited, GiveUp, NextHandle
  <2>3. LanesStop'
    BY <2>1, <2>2, DaemonAssumption DEF StopInv, LanesStop, DaemonAssumption
  <2>4. StopsCleanly'
    BY <2>1, <2>2 DEF StopInv, StopsCleanly
  <2> QED BY <2>2, <2>3, <2>4 DEF StopInv
<1>2. CASE Tick
  <2>1. /\ pc = "stop" /\ waited < Grace /\ waited' = waited + 1
        /\ since' = IF since < Terminate THEN since + 1 ELSE since
        /\ \A l \in DOMAIN run : /\ run[l] \notin {"idle", "running"}
                                 /\ run[l] = "terminating" => since < Terminate
    BY <1>2 DEF Tick
  <2>2. UNCHANGED <<gone, pc, exit, required, startup, shutdown, listening, heard, handler, run>>
    BY <1>2 DEF Tick
  <2>3. LanesStop'
    BY <2>1, <2>2, DaemonAssumption DEF StopInv, LanesStop, DaemonAssumption
  <2>4. StopsCleanly'
    BY <2>2 DEF StopInv, StopsCleanly
  <2> QED BY <2>2, <2>3, <2>4 DEF StopInv
<1>3. CASE Stopped
  BY <1>3 DEF Stopped, StopInv, LanesStop, StopsCleanly
<1> QED BY <1>1, <1>2, <1>3

LEMMA StopStep ==
  ASSUME StopInv, [Next]_vars
  PROVE  StopInv'
<1>1. CASE Load \/ AllAnswered \/ Announce
  BY <1>1 DEF Load, AllAnswered, Announce, StopInv, LanesStop, StopsCleanly
<1>2. CASE Wire
  <2>1. UNCHANGED <<required, startup, shutdown, listening, heard, handler, stopping>> /\ pc = "wire"
    BY <1>2 DEF Wire
  <2>2. \/ pc' = (IF required THEN "initial" ELSE "announce") /\ \A l \in DOMAIN run' : run'[l] = "idle"
        \/ pc' = "over" /\ UNCHANGED run
    BY <1>2 DEF Wire
  <2>3. ~shutdown /\ gone = {} /\ since = 0 /\ waited = 0
    BY <2>1, DaemonAssumption DEF StopInv, LanesStop, DaemonAssumption
  <2> QED BY <2>1, <2>2, <2>3 DEF StopInv, LanesStop, StopsCleanly
<1>3. ASSUME NEW w, TakeOk(w) PROVE StopInv'
  BY <1>3 DEF TakeOk, LeaveSelect, StopInv, LanesStop, StopsCleanly
<1>4. ASSUME NEW w, TakeFailure(w) PROVE StopInv'
  <2>1. pc = "initial" /\ pc' = "over" /\ UNCHANGED <<required, startup, shutdown, handler, stopping>>
    BY <1>4 DEF TakeFailure, LeaveSelect
  <2>2. ~listening' /\ ~heard' /\ \A l \in DOMAIN run' : run'[l] \in {"left", "ended"}
    BY <1>4 DEF TakeFailure, LeaveSelect
  <2>3. ~shutdown /\ ~startup /\ gone = {} /\ since = 0 /\ waited = 0 /\ required
    BY <2>1, DaemonAssumption DEF StopInv, LanesStop, DaemonAssumption
  <2> QED BY <2>1, <2>2, <2>3 DEF StopInv, LanesStop, StopsCleanly
<1>5. CASE TakeFatal \/ TakeSignal
  BY <1>5 DEF TakeFatal, TakeSignal, LeaveSelect, StopInv, LanesStop, StopsCleanly
<1>6. ASSUME \/ \E l \in DOMAIN run : LaneAwaited(l) \/ GiveUp(l)
             \/ Tick \/ Stopped
      PROVE  StopInv'
  BY <1>6, WaitKeepsStop
<1>7. CASE Listen
  BY <1>7 DEF Listen, StopInv, LanesStop, StopsCleanly
<1>8. CASE Signal
  <2>1. CASE handler
    BY <1>8, <2>1 DEF Signal, StopInv, LanesStop, StopsCleanly
  <2>2. CASE ~handler
    <3>1. /\ pc' = "over" /\ exit' = "killed" /\ heard' = heard
          /\ DOMAIN run' = DOMAIN run
          /\ \A l \in DOMAIN run :
               run'[l] = IF run[l] \in {"running", "terminating"} THEN "left" ELSE run[l]
      BY <1>8, <2>2 DEF Signal
    <3>2. UNCHANGED <<required, startup, shutdown, listening, handler, stopping>>
      BY <1>8 DEF Signal
    <3> QED BY <2>2, <3>1, <3>2 DEF StopInv, LanesStop, StopsCleanly
  <2> QED BY <2>1, <2>2
<1>9. ASSUME NEW w, \/ WatcherReady(w) \/ AuthFails(w) \/ PassOn(w) \/ SetupFails(w) \/ Panics(w)
                    \/ WatcherStops(w) \/ Kick(w)
      PROVE  StopInv'
  BY <1>9, StopKept
     DEF WatcherReady, AuthFails, PassOn, SetupFails, Panics, WatcherStops, Kick
<1>10. ASSUME NEW l \in DOMAIN run, LaneStep(l) PROVE StopInv'
  BY <1>10, RunKeepsStop
<1>11. CASE UNCHANGED vars
  BY <1>11, StopKept DEF vars
<1> QED BY <1>1, <1>2, <1>3, <1>4, <1>5, <1>6, <1>7, <1>8, <1>9, <1>10, <1>11
        DEF Next, MainStep, AtRest, LaneStep

(* Once shutdown has been requested no command is left behind, although a lane is given up after
   the grace (await_task_shutdown, main.rs:1043), because a group is terminated in less; without,
   only where the daemon returns or is killed at once. *)
THEOREM CommandsAreStopped == Safety => []StopsCleanly
<1>1. Init => StopInv
  BY DaemonAssumption DEF Init, StopInv, LanesStop, StopsCleanly, None, DaemonAssumption
<1>2. StopInv => StopsCleanly
  BY DEF StopInv
<1> QED BY <1>1, <1>2, StopStep, PTL DEF Safety

-----------------------------------------------------------------------------

(* There are watchers only once they have been wired, and each has its answer; the lanes are waited
   for at the end. *)
TypeInv ==
  /\ DaemonTypeOK
  /\ DOMAIN answer = DOMAIN task
  /\ pc \in {"load", "wire"} => DOMAIN task = {}
  /\ gone # {} => pc \in {"stop", "over"}

(* Tasks come and go in their own places. *)
LEMMA TaskTypes ==
  ASSUME TypeInv, NEW w \in DOMAIN task,
         \/ WatcherReady(w) \/ AuthFails(w) \/ PassOn(w) \/ SetupFails(w) \/ Panics(w)
         \/ WatcherStops(w)
  PROVE  TypeInv'
<1>1. UNCHANGED <<pc, exit, plan, open, kicked, run, gone, since, waited>>
  BY DEF WatcherReady, AuthFails, PassOn, SetupFails, Panics, WatcherStops
<1>2. PICK t \in {"setup", "working", "failed", "ended"} : task' = [task EXCEPT ![w] = t]
  BY DEF WatcherReady, AuthFails, PassOn, SetupFails, Panics, WatcherStops
<1>3. answer' = answer \/ \E r \in {"ok", "auth", "error", "dropped"} : Tell(w, r)
  BY DEF WatcherReady, AuthFails, PassOn, SetupFails, Panics, WatcherStops
<1>4. fatal' = fatal \/ fatal' = fatal \cup {w}
  BY DEF WatcherReady, AuthFails, PassOn, SetupFails, Panics, WatcherStops
<1>5. /\ DOMAIN answer' = DOMAIN answer
      /\ \A v \in DOMAIN answer : answer'[v] \in {"none", "ok", "auth", "error", "dropped"}
  BY <1>3 DEF Tell, TypeInv, DaemonTypeOK
<1>6. /\ DOMAIN task' = DOMAIN task
      /\ \A v \in DOMAIN task : task'[v] \in {"setup", "working", "failed", "ended"}
  BY <1>2 DEF TypeInv, DaemonTypeOK
<1> QED BY <1>1, <1>4, <1>5, <1>6 DEF TypeInv, DaemonTypeOK

LEMMA TypeStep ==
  ASSUME TypeInv, [Next]_vars
  PROVE  TypeInv'
<1> USE DEF TypeInv, DaemonTypeOK
<1>1. CASE Load \/ AllAnswered \/ Announce
  BY <1>1 DEF Load, AllAnswered, Announce
<1>2. CASE Wire
  <2>1. CASE pc' = "over"
    BY <1>2, <2>1 DEF Wire
  <2>2. CASE pc' # "over"
    <3>1. PICK c \in config :
            /\ pc' \in {"initial", "announce"} /\ exit' = exit
            /\ plan' = [network |-> {w \in Watchers(c) : Network(c, w)},
                        startup |-> {w \in Watchers(c) : RunsOnStartup(c, w)}]
            /\ task' = [w \in Watchers(c) |-> "setup"]
            /\ answer' = [w \in Watchers(c) |-> "none"]
            /\ open' \subseteq Watchers(c)
            /\ run' = [l \in 1 .. LaneCount(c) |-> "idle"]
      BY <1>2, <2>2 DEF Wire
    <3>2. fatal' = {} /\ kicked' = {} /\ gone' = {} /\ UNCHANGED <<since, waited>>
      BY <1>2 DEF Wire
    <3> QED BY <3>1, <3>2
  <2> QED BY <2>1, <2>2
<1>3. ASSUME NEW w, TakeOk(w) \/ TakeFailure(w) PROVE TypeInv'
  BY <1>3 DEF TakeOk, TakeFailure
<1>4. CASE TakeFatal \/ TakeSignal \/ Stopped
  BY <1>4 DEF TakeFatal, TakeSignal, Stopped
<1>5. CASE Listen \/ Signal
  BY <1>5 DEF Listen, Signal
<1>6. ASSUME NEW w \in DOMAIN task, \/ WatcherReady(w) \/ AuthFails(w) \/ PassOn(w) \/ SetupFails(w)
                                    \/ Panics(w) \/ WatcherStops(w)
      PROVE  TypeInv'
  BY <1>6, TaskTypes
<1>7. ASSUME NEW w, Kick(w) PROVE TypeInv'
  BY <1>7 DEF Kick
<1>8. ASSUME NEW l, LaneStep(l) PROVE TypeInv'
  BY <1>8 DEF LaneStep, StartCommand, EndCommand, PipeHeld, Cancel, LaneStops
<1>9. ASSUME NEW l \in DOMAIN run, LaneAwaited(l) \/ GiveUp(l) PROVE TypeInv'
  BY <1>9, DaemonAssumption DEF LaneAwaited, GiveUp, Awaited, NextHandle, DaemonAssumption
<1>10. CASE Tick
  BY <1>10, DaemonAssumption DEF Tick, DaemonAssumption
<1>11. CASE UNCHANGED vars
  BY <1>11 DEF vars
<1> QED BY <1>1, <1>2, <1>3, <1>4, <1>5, <1>6, <1>7, <1>8, <1>9, <1>10, <1>11
        DEF Next, MainStep, AtRest, LaneStep

(* The variables keep their types; every answer, failure and startup event is that of a watcher the
   configuration has. *)
THEOREM DaemonTypeCorrect == Safety => []DaemonTypeOK
<1>1. Init => TypeInv
  BY DaemonAssumption DEF Init, TypeInv, DaemonTypeOK, None, DaemonAssumption
<1>2. TypeInv => DaemonTypeOK
  BY DEF TypeInv
<1> QED BY <1>1, <1>2, TypeStep, PTL DEF Safety
=============================================================================

---------------------------- MODULE ResumeProofs -----------------------------
(***************************************************************************)
(* What Resume guarantees for any number of sources, any length of the     *)
(* history and any stream of signals.                                      *)
(*                                                                         *)
(* Both invariants of the run are proved.  OncePerResume needs to know     *)
(* what the history holds: the latest broadcasts, as many as fit (Window). *)
(* Then a resume that is not in it was broadcast longer ago than that, if  *)
(* ever, and adding it keeps the distance.                                 *)
(***************************************************************************)
EXTENDS Resume, Integers, TLAPS

(* The history is the end of what has been broadcast. *)
Window ==
  /\ Len(recent) = IF Len(told) < Recent THEN Len(told) ELSE Recent
  /\ \A k \in 1 .. Len(recent) : recent[k] = told[(Len(told) - Len(recent)) + k]

(* The part of the type invariant the proofs need: the two sequences and the readers' places. *)
Places == recent \in Seq(Nat) /\ told \in Seq(Nat) /\ at \in [Sources -> Nat]

HistoryInv == Places /\ Window /\ OncePerResume

(* A place in a window that is one shorter. *)
LEMMA Shift ==
  ASSUME NEW a \in Int, NEW b \in Int, NEW k \in Int
  PROVE  (b - (a - 1)) + k = (b - a) + (k + 1)
OBVIOUS

(* Broadcasting keeps the history a window of the broadcasts and them apart (Broadcast). *)
LEMMA BroadcastKeepsApart ==
  ASSUME NEW id \in Nat, HistoryInv, Broadcast(id)
  PROVE  /\ recent' \in Seq(Nat) /\ told' \in Seq(Nat)
         /\ Window' /\ OncePerResume'
<1> USE ResumeAssumption
<1>1. CASE Known(id)
  BY <1>1 DEF HistoryInv, Places, Window, OncePerResume, Broadcast
<1>2. CASE ~Known(id)
  <2> DEFINE kept == IF Len(recent) = Recent THEN Tail(recent) ELSE recent
             gone == Len(told) - Len(kept)
  <2>1. recent' = Append(kept, id) /\ told' = Append(told, id)
    BY <1>2 DEF Broadcast
  <2>2. recent \in Seq(Nat) /\ told \in Seq(Nat) /\ Len(recent) \in Nat /\ Len(told) \in Nat
    BY DEF HistoryInv, Places
  <2>3. /\ kept \in Seq(Nat)
        /\ Len(kept) = IF Len(recent) = Recent THEN Recent - 1 ELSE Len(recent)
        /\ kept = IF Len(recent) = Recent THEN Tail(recent) ELSE recent
    BY <2>2
  <2>12. Len(kept) \in Nat /\ gone = Len(told) - Len(kept) /\ gone \in Int
    BY <2>2, <2>3
  <2> HIDE DEF kept, gone
  <2>4. \A k \in 1 .. Len(kept) : kept[k] = told[gone + k]
    <3>1. CASE Len(recent) = Recent
      <4> SUFFICES ASSUME NEW k \in 1 .. Len(kept) PROVE kept[k] = told[gone + k]
        OBVIOUS
      <4>1. k + 1 \in 1 .. Len(recent) /\ kept[k] = recent[k + 1]
        BY <3>1, <2>2, <2>3
      <4>2. recent[k + 1] = told[(Len(told) - Len(recent)) + (k + 1)]
        BY <4>1 DEF HistoryInv, Window
      <4>3. gone + k = (Len(told) - Len(recent)) + (k + 1)
        <5>1. Len(kept) = Len(recent) - 1
          BY <3>1, <2>3
        <5> QED BY <5>1, <2>2, <2>12, Shift
      <4> QED BY <4>1, <4>2, <4>3
    <3>2. CASE Len(recent) # Recent
      BY <3>2, <2>2, <2>3, <2>12 DEF HistoryInv, Window
    <3> QED BY <3>1, <3>2
  <2>11. /\ Len(recent') = Len(kept) + 1 /\ Len(told') = Len(told) + 1
         /\ \A k \in 1 .. Len(kept) : recent'[k] = kept[k]
         /\ \A k \in 1 .. Len(told) : told'[k] = told[k]
         /\ recent'[Len(kept) + 1] = id /\ told'[Len(told) + 1] = id
    BY <2>1, <2>2, <2>3
  <2>5. Len(recent') = IF Len(told') < Recent THEN Len(told') ELSE Recent
    BY <2>1, <2>2, <2>3 DEF HistoryInv, Window
  <2>6. Len(told') - Len(recent') = gone
    BY <2>2, <2>11, <2>12
  <2>7. ASSUME NEW k \in 1 .. Len(recent')
        PROVE  recent'[k] = told'[gone + k]
    <3>1. CASE k = Len(kept) + 1
      BY <3>1, <2>2, <2>11, <2>12
    <3>2. CASE k # Len(kept) + 1
      <4>1. k \in 1 .. Len(kept)
        BY <3>2, <2>7, <2>11, <2>12
      <4>3. Len(recent) <= Len(told)
        BY <2>2 DEF HistoryInv, Window
      <4>4. Len(kept) <= Len(told)
        BY <4>3, <2>2, <2>3
      <4>2. gone + k \in 1 .. Len(told)
        BY <4>1, <4>4, <2>2, <2>12
      <4> QED BY <4>1, <4>2, <2>4, <2>11
    <3> QED BY <3>1, <3>2
  <2>8. Window'
    BY <2>5, <2>6, <2>7 DEF Window
  <2>9. ASSUME NEW i \in DOMAIN told', NEW j \in DOMAIN told', i < j, told'[i] = told'[j]
        PROVE  j - i > Recent
    <3>1. CASE j \in DOMAIN told
      <4>1. i \in 1 .. Len(told) /\ j \in 1 .. Len(told)
        BY <3>1, <2>1, <2>2, <2>9
      <4>2. told[i] = told[j]
        BY <4>1, <2>9, <2>11
      <4>3. i \in DOMAIN told
        BY <4>1, <2>2
      <4> QED BY <3>1, <4>2, <4>3, <2>9 DEF HistoryInv, OncePerResume
    <3>2. CASE j \notin DOMAIN told
      <4>1. j = Len(told) + 1 /\ i \in 1 .. Len(told) /\ told[i] = id
        <5>1. DOMAIN told = 1 .. Len(told) /\ DOMAIN told' = 1 .. Len(told) + 1
          BY <2>1, <2>2
        <5>2. j = Len(told) + 1 /\ i \in 1 .. Len(told)
          BY <5>1, <3>2, <2>2, <2>9
        <5>3. told'[j] = id /\ told'[i] = told[i]
          BY <5>2, <2>1, <2>2
        <5> QED BY <5>2, <5>3, <2>9
      <4>2. i \notin (Len(told) - Len(recent)) + 1 .. Len(told)
        <5> SUFFICES ASSUME i > Len(told) - Len(recent) PROVE FALSE
          BY <4>1, <2>2
        <5> DEFINE k == i - (Len(told) - Len(recent))
        <5>1. k \in 1 .. Len(recent) /\ i = (Len(told) - Len(recent)) + k
          <6>1. i \in Int /\ i <= Len(told)
            BY <4>1, <2>2
          <6> QED BY <6>1, <2>2
        <5> HIDE DEF k
        <5>2. recent[k] = told[i]
          BY <5>1 DEF HistoryInv, Window
        <5>3. k \in DOMAIN recent
          BY <5>1, <2>2
        <5> QED BY <5>2, <5>3, <4>1, <1>2 DEF Known
      <4>3. Len(recent) = Recent
        <5>1. Len(recent) # Len(told)
          BY <4>1, <4>2, <2>2
        <5> QED BY <5>1 DEF HistoryInv, Window
      <4> QED BY <4>1, <4>2, <4>3, <2>2
    <3> QED BY <3>1, <3>2
  <2>10. OncePerResume'
    BY <2>9 DEF OncePerResume
  <2> QED BY <2>1, <2>2, <2>3, <2>8, <2>10
<1> QED BY <1>1, <1>2

(* The history is the window of the broadcasts in every state. *)
LEMMA HistoryStep ==
  ASSUME sent \in Seq(Signals), HistoryInv, [Next]_vars
  PROVE  HistoryInv'
<1>1. ASSUME UNCHANGED <<recent, told>>, at' \in [Sources -> Nat] PROVE HistoryInv'
  BY <1>1 DEF HistoryInv, Places, Window, OncePerResume
<1>2. ASSUME UNCHANGED <<recent, told, at>> PROVE HistoryInv'
  BY <1>1, <1>2 DEF HistoryInv, Places
<1>3. ASSUME NEW sig \in Signals, Send(sig) PROVE HistoryInv'
  BY <1>2, <1>3 DEF Send
<1>4. CASE Shutdown
  BY <1>2, <1>4 DEF Shutdown
<1>5. CASE Reconnect
  BY <1>2, <1>5 DEF Reconnect
<1>6. ASSUME NEW s \in Sources, WatcherStep(s) PROVE HistoryInv'
  <2>1. CASE Subscribe(s)
    BY <1>1, <2>1 DEF Subscribe, HistoryInv, Places
  <2>2. CASE SetupFails(s)
    BY <1>2, <2>2 DEF SetupFails
  <2>3. CASE SeeSuspending(s)
    BY <1>1, <2>3 DEF SeeSuspending, HistoryInv, Places
  <2>4. CASE SeeResumed(s)
    <3>1. at[s] \in Nat /\ at' \in [Sources -> Nat] /\ Broadcast(at[s])
      BY <2>4 DEF SeeResumed, HistoryInv, Places
    <3> QED BY <3>1, BroadcastKeepsApart DEF HistoryInv, Places
  <2>5. CASE SeeShutdown(s)
    BY <1>2, <2>5 DEF SeeShutdown
  <2> QED BY <1>6, <2>1, <2>2, <2>3, <2>4, <2>5 DEF WatcherStep
<1>7. ASSUME NEW s \in Sources, StreamEnds(s) \/ RunnerStep(s) \/ RunnerPanics(s)
      PROVE  HistoryInv'
  BY <1>2, <1>7 DEF StreamEnds, RunnerStep, RunnerPanics, Run, RunnerStops, ShowPanic
<1>8. CASE UNCHANGED vars \/ Terminated
  BY <1>2, <1>8 DEF vars, Terminated
<1> QED BY <1>3, <1>4, <1>5, <1>6, <1>7, <1>8 DEF Next

(* What logind sends stays a sequence of signals. *)
LEMMA SentStep ==
  ASSUME sent \in Seq(Signals), [Next]_vars
  PROVE  sent' \in Seq(Signals)
BY DEF Next, vars, Send, Shutdown, Reconnect, Terminated, WatcherStep, Subscribe, SetupFails,
       SeeSuspending, SeeResumed, SeeShutdown, StreamEnds, RunnerStep, Run, RunnerStops, ShowPanic,
       RunnerPanics

(* Two broadcasts of one resume are at least a full history apart, whatever the listeners' lags
   (ResumeBroadcaster::broadcast, system_resume.rs:52). *)
THEOREM BroadcastsApart == Spec => []OncePerResume
<1>1. Init => sent \in Seq(Signals) /\ HistoryInv
  BY ResumeAssumption DEF Init, HistoryInv, Places, Window, OncePerResume
<1>2. sent \in Seq(Signals) /\ HistoryInv /\ [Next]_vars => (sent \in Seq(Signals) /\ HistoryInv)'
  BY HistoryStep, SentStep
<1>3. HistoryInv => OncePerResume
  BY DEF HistoryInv
<1> QED BY <1>1, <1>2, <1>3, PTL DEF Spec, Safety

-----------------------------------------------------------------------------
(* A watcher has ended without a mark only because its runner is gone, and a runner is gone only
   after a shutdown or a panic that has been reported; before the subscription there is no event
   for it to panic on. *)
EndsInv ==
  /\ phase \in [Sources -> {"Starting", "Idling", "Stopped", "Crashed"}]
  /\ listener \in [Sources -> {"setup", "listening", "ended"}]
  /\ runner \in [Sources -> {"live", "panicked", "gone"}] /\ queue \in [Sources -> Nat]
  /\ shutdown \in BOOLEAN
  /\ \A s \in Sources :
       /\ listener[s] = "setup" => queue[s] = 0 /\ (shutdown \/ runner[s] = "live")
       /\ phase[s] = "Idling" => listener[s] = "listening" \/ shutdown \/ runner[s] = "panicked"
       /\ phase[s] = "Idling" => shutdown \/ runner[s] \in {"live", "panicked"}

(* Every step keeps it. *)
LEMMA EndsStep ==
  ASSUME EndsInv, [Next]_vars
  PROVE  EndsInv'
<1> USE DEF EndsInv
<1>1. ASSUME NEW sig \in Signals, Send(sig) PROVE EndsInv'
  BY <1>1 DEF Send
<1>2. CASE Shutdown
  BY <1>2 DEF Shutdown
<1>3. CASE Reconnect
  BY <1>3 DEF Reconnect
<1>4. ASSUME NEW s \in Sources, WatcherStep(s) PROVE EndsInv'
  <2>1. CASE Subscribe(s)
    BY <2>1 DEF Subscribe
  <2>2. CASE SetupFails(s)
    BY <2>2 DEF SetupFails
  <2>3. CASE SeeSuspending(s)
    BY <2>3 DEF SeeSuspending
  <2>4. CASE SeeResumed(s)
    <3>1. listener[s] = "listening" /\ UNCHANGED <<phase, runner, shutdown>>
      BY <2>4 DEF SeeResumed, Unread, Listening
    <3>2. CASE runner[s] = "live" /\ UNCHANGED listener
      <4>1. queue' \in [Sources -> Nat] /\ \A r \in Sources : r # s => queue'[r] = queue[r]
        BY <2>4, <3>2 DEF SeeResumed
      <4> QED BY <3>1, <3>2, <4>1
    <3>3. CASE /\ runner[s] # "live" /\ UNCHANGED queue
               /\ listener' = [listener EXCEPT ![s] = "ended"]
      BY <3>1, <3>3
    <3> QED BY <2>4, <3>2, <3>3 DEF SeeResumed
  <2>5. CASE SeeShutdown(s)
    BY <2>5 DEF SeeShutdown
  <2> QED BY <1>4, <2>1, <2>2, <2>3, <2>4, <2>5 DEF WatcherStep
<1>5. ASSUME NEW s \in Sources, StreamEnds(s) PROVE EndsInv'
  BY <1>5 DEF StreamEnds
<1>6. ASSUME NEW s \in Sources, RunnerStep(s) PROVE EndsInv'
  <2>1. CASE Run(s)
    BY <2>1 DEF Run
  <2>2. CASE RunnerStops(s)
    BY <2>2 DEF RunnerStops
  <2>3. CASE ShowPanic(s)
    BY <2>3 DEF ShowPanic
  <2> QED BY <1>6, <2>1, <2>2, <2>3 DEF RunnerStep
<1>7. ASSUME NEW s \in Sources, RunnerPanics(s) PROVE EndsInv'
  BY <1>7 DEF RunnerPanics
<1>8. CASE UNCHANGED vars \/ Terminated
  BY <1>8 DEF vars, Terminated
<1> QED BY <1>1, <1>2, <1>3, <1>4, <1>5, <1>6, <1>7, <1>8 DEF Next

(* EndsInv holds in every state. *)
LEMMA EndsHold == Spec => []EndsInv
<1>1. ASSUME Init PROVE EndsInv
  <2>1. /\ phase \in [Sources -> {"Starting", "Idling", "Stopped", "Crashed"}]
        /\ listener \in [Sources -> {"setup", "listening", "ended"}]
        /\ runner \in [Sources -> {"live", "panicked", "gone"}] /\ queue \in [Sources -> Nat]
        /\ shutdown \in BOOLEAN
    BY <1>1 DEF Init
  <2>2. \A s \in Sources : phase[s] = "Starting" /\ queue[s] = 0 /\ runner[s] = "live"
    BY <1>1 DEF Init
  <2> QED BY <2>1, <2>2 DEF EndsInv
<1> QED BY <1>1, EndsStep, PTL DEF Spec, Safety

(* A source that shows as idling listens, or the daemon is stopping, or its runner's panic is about
   to be reported (watch_system_resume_with_listener, system_resume.rs:335). *)
THEOREM IdlingListens == Spec => []ListenerHonest
<1>1. EndsInv => ListenerHonest
  BY DEF EndsInv, ListenerHonest, Listening
<1> QED BY <1>1, EndsHold, PTL

-----------------------------------------------------------------------------
(* A listener's place is one it got when it subscribed, or a later one. *)
TruthInv ==
  /\ sent \in Seq(Signals) /\ HistoryInv /\ listener \in [Sources -> {"setup", "listening", "ended"}]
  /\ \A s \in Sources : Listening(s) => at[s] >= 1
  /\ BroadcastsTrue

(* What has been broadcast stays true while signals come in. *)
LEMMA SentGrows ==
  ASSUME sent \in Seq(Signals), told \in Seq(Nat), BroadcastsTrue, NEW sig \in Signals,
         sent' = Append(sent, sig), UNCHANGED told
  PROVE  BroadcastsTrue'
<1>1. Len(sent) \in Nat /\ Len(sent') = Len(sent) + 1 /\ \A n \in 1 .. Len(sent) : sent'[n] = sent[n]
  OBVIOUS
<1> QED BY <1>1 DEF BroadcastsTrue

(* What is read is broadcast, or it was (Broadcast). *)
LEMMA BroadcastTells ==
  ASSUME HistoryInv, BroadcastsTrue, sent \in Seq(Signals), NEW id \in 1 .. Len(sent),
         sent[id] = "resumed", Broadcast(id), UNCHANGED sent
  PROVE  BroadcastsTrue' /\ \E i \in DOMAIN told' : told'[i] = id
<1>0. told \in Seq(Nat) /\ recent \in Seq(Nat) /\ Len(told) \in Nat /\ Len(recent) \in Nat /\ id \in Nat
  BY DEF HistoryInv, Places
<1>1. CASE Known(id)
  <2>1. PICK k \in 1 .. Len(recent) : recent[k] = id
    BY <1>0, <1>1 DEF Known
  <2>2. told[(Len(told) - Len(recent)) + k] = id
    BY <2>1 DEF HistoryInv, Window
  <2>3. Len(recent) <= Len(told)
    BY <1>0, ResumeAssumption DEF ResumeAssumption, HistoryInv, Window
  <2>4. (Len(told) - Len(recent)) + k \in 1 .. Len(told)
    BY <1>0, <2>1, <2>3
  <2>5. UNCHANGED told
    BY <1>1 DEF Broadcast
  <2>6. (Len(told) - Len(recent)) + k \in DOMAIN told
    BY <1>0, <2>4
  <2> QED BY <2>2, <2>5, <2>6 DEF BroadcastsTrue
<1>2. CASE ~Known(id)
  <2>1. told' = Append(told, id)
    BY <1>2 DEF Broadcast
  <2>2. /\ DOMAIN told = 1 .. Len(told) /\ DOMAIN told' = 1 .. Len(told) + 1
        /\ told'[Len(told) + 1] = id /\ \A i \in 1 .. Len(told) : told'[i] = told[i]
    BY <1>0, <2>1
  <2>3. Len(told) + 1 \in DOMAIN told'
    BY <1>0, <2>2
  <2>4. ASSUME NEW i \in DOMAIN told' PROVE told'[i] \in 1 .. Len(sent) /\ sent[told'[i]] = "resumed"
    <3>1. CASE i = Len(told) + 1
      BY <2>2, <3>1
    <3>2. CASE i # Len(told) + 1
      <4>1. i \in DOMAIN told /\ told'[i] = told[i]
        BY <1>0, <2>2, <2>4, <3>2
      <4> QED BY <4>1 DEF BroadcastsTrue
    <3> QED BY <3>1, <3>2
  <2> QED BY <2>2, <2>3, <2>4 DEF BroadcastsTrue
<1> QED BY <1>1, <1>2

(* Every step keeps the broadcasts true, and tells of a resume that is read. *)
LEMMA TruthStep ==
  ASSUME TruthInv, [Next]_vars
  PROVE  /\ TruthInv'
         /\ \A s \in Sources :
              Listening(s) /\ at'[s] # at[s] /\ sent[at[s]] = "resumed" =>
                \E i \in DOMAIN told' : told'[i] = at[s]
<1> DEFINE Told == \A s \in Sources :
                     Listening(s) /\ at'[s] # at[s] /\ sent[at[s]] = "resumed" =>
                       \E i \in DOMAIN told' : told'[i] = at[s]
<1>1. sent' \in Seq(Signals) /\ HistoryInv'
  BY SentStep, HistoryStep DEF TruthInv
<1>2. /\ listener \in [Sources -> {"setup", "listening", "ended"}] /\ at \in [Sources -> Nat]
      /\ \A s \in Sources : listener[s] = "listening" => at[s] >= 1
  BY DEF TruthInv, HistoryInv, Places, Listening
<1>3. ASSUME UNCHANGED <<sent, told, listener, at>> PROVE TruthInv' /\ Told
  BY <1>1, <1>2, <1>3 DEF TruthInv, BroadcastsTrue, Listening
<1>4. CASE Shutdown \/ Reconnect \/ Terminated \/ UNCHANGED vars
  BY <1>3, <1>4 DEF Shutdown, Reconnect, Terminated, vars
<1>5. ASSUME NEW sig \in Signals, Send(sig) PROVE TruthInv' /\ Told
  <2>1. UNCHANGED <<told, listener, at>> /\ sent' = Append(sent, sig)
    BY <1>5 DEF Send
  <2>2. BroadcastsTrue'
    BY <2>1, SentGrows DEF TruthInv, HistoryInv, Places
  <2> QED BY <1>1, <1>2, <2>1, <2>2 DEF TruthInv, Listening
<1>6. ASSUME NEW s \in Sources,
             RunnerStep(s) \/ RunnerPanics(s)
      PROVE  TruthInv' /\ Told
  BY <1>3, <1>6 DEF RunnerStep, Run, RunnerStops, ShowPanic, RunnerPanics
<1>7. ASSUME NEW s \in Sources, UNCHANGED <<sent, told>>,
             listener' \in [Sources -> {"setup", "listening", "ended"}],
             \A r \in Sources : r # s => listener'[r] = listener[r] /\ at'[r] = at[r],
             listener'[s] = "listening" => at'[s] >= 1,
             listener[s] = "listening" => at'[s] = at[s]
      PROVE  TruthInv' /\ Told
  <2>1. BroadcastsTrue'
    BY <1>7 DEF TruthInv, BroadcastsTrue
  <2>2. \A r \in Sources : listener'[r] = "listening" => at'[r] >= 1
    BY <1>2, <1>7
  <2>3. Told
    BY <1>2, <1>7 DEF Listening
  <2> QED BY <1>1, <1>7, <2>1, <2>2, <2>3 DEF TruthInv, Listening
<1>8. ASSUME NEW s \in Sources, SetupFails(s) \/ SeeShutdown(s) \/ StreamEnds(s)
      PROVE  TruthInv' /\ Told
  <2>1. listener' = [listener EXCEPT ![s] = "ended"] /\ UNCHANGED <<sent, told, at>>
    BY <1>8 DEF SetupFails, SeeShutdown, StreamEnds
  <2>2. listener' \in [Sources -> {"setup", "listening", "ended"}] /\ listener'[s] = "ended"
    BY <1>2, <2>1
  <2>3. \A r \in Sources : r # s => listener'[r] = listener[r]
    BY <1>2, <2>1
  <2> QED BY <1>7, <2>1, <2>2, <2>3
<1>9. ASSUME NEW s \in Sources, Subscribe(s) PROVE TruthInv' /\ Told
  <2>1. /\ listener[s] = "setup" /\ listener' = [listener EXCEPT ![s] = "listening"]
        /\ at' = [at EXCEPT ![s] = Len(sent) + 1] /\ UNCHANGED <<sent, told>>
    BY <1>9 DEF Subscribe
  <2>2. listener' \in [Sources -> {"setup", "listening", "ended"}]
    BY <1>2, <2>1
  <2>3. \A r \in Sources : r # s => listener'[r] = listener[r] /\ at'[r] = at[r]
    BY <1>2, <2>1
  <2>4. Len(sent) \in Nat
    BY DEF TruthInv
  <2>5. at'[s] >= 1
    BY <1>2, <2>1, <2>4
  <2> QED BY <1>7, <2>1, <2>2, <2>3, <2>5
<1>10. ASSUME NEW s \in Sources, SeeSuspending(s) PROVE TruthInv' /\ Told
  <2>1. /\ at' = [at EXCEPT ![s] = at[s] + 1] /\ sent[at[s]] = "suspending"
        /\ UNCHANGED <<sent, told, listener>>
    BY <1>10 DEF SeeSuspending
  <2>2. BroadcastsTrue' /\ Told
    BY <1>2, <2>1 DEF TruthInv, BroadcastsTrue
  <2>3. \A r \in Sources : listener'[r] = "listening" => at'[r] >= 1
    BY <1>2, <2>1
  <2> QED BY <1>1, <1>2, <2>1, <2>2, <2>3 DEF TruthInv, Listening
<1>11. ASSUME NEW s \in Sources, SeeResumed(s) PROVE TruthInv' /\ Told
  <2>1. /\ at' = [at EXCEPT ![s] = at[s] + 1] /\ sent[at[s]] = "resumed" /\ Broadcast(at[s])
        /\ UNCHANGED sent /\ at[s] \in 1 .. Len(sent) /\ listener[s] = "listening"
        /\ listener' = listener \/ listener' = [listener EXCEPT ![s] = "ended"]
    BY <1>2, <1>11 DEF SeeResumed, Unread, Listening, TruthInv
  <2>2. BroadcastsTrue' /\ \E i \in DOMAIN told' : told'[i] = at[s]
    BY <2>1, BroadcastTells DEF TruthInv
  <2>3. Told
    BY <1>2, <2>1, <2>2
  <2>4. \A r \in Sources : listener'[r] = "listening" => at'[r] >= 1
    BY <1>2, <2>1
  <2> QED BY <1>1, <1>2, <2>1, <2>2, <2>3, <2>4 DEF TruthInv, Listening
<1> QED
  BY <1>4, <1>5, <1>6, <1>8, <1>9, <1>10, <1>11 DEF Next, WatcherStep

(* TruthInv holds in every state. *)
LEMMA TruthHolds == Spec => []TruthInv
<1>1. ASSUME Init PROVE TruthInv
  <2>1. sent \in Seq(Signals) /\ HistoryInv /\ BroadcastsTrue
    BY <1>1, ResumeAssumption DEF Init, HistoryInv, Places, Window, OncePerResume, BroadcastsTrue
  <2>2. /\ listener \in [Sources -> {"setup", "listening", "ended"}]
        /\ \A s \in Sources : ~Listening(s)
    BY <1>1 DEF Init, Listening
  <2> QED BY <2>1, <2>2 DEF TruthInv
<1> QED BY <1>1, TruthStep, PTL DEF Spec, Safety

(* No session is dropped for a signal that was no resume (watch_system_resume_with_listener,
   system_resume.rs:335). *)
THEOREM BroadcastsAreResumes == Spec => []BroadcastsTrue
<1>1. TruthInv => BroadcastsTrue
  BY DEF TruthInv
<1> QED BY <1>1, TruthHolds, PTL

(* A resume is passed over as known only after it has been broadcast: the safety half of
   EveryResumeHeard (ResumeBroadcaster::broadcast, system_resume.rs:52). *)
THEOREM ReadResumesAreTold == Spec => ReadIsBroadcast
<1>1. TruthInv /\ [Next]_vars =>
        [\A s \in Sources :
           Listening(s) /\ at'[s] # at[s] /\ sent[at[s]] = "resumed" =>
             \E i \in DOMAIN told' : told'[i] = at[s] ]_vars
  BY TruthStep
<1> QED BY <1>1, TruthHolds, PTL DEF Spec, Safety, ReadIsBroadcast

-----------------------------------------------------------------------------
(* What the other invariants leave of the types. *)
RestTypes ==
  /\ sent \in Seq(Signals) /\ told \in Seq(Nat) /\ Len(sent) <= MaxSignals
  /\ ready \in [Sources -> {"nothing", "ok", "error"}]
  /\ queue \in [Sources -> 0 .. Capacity]
  /\ heard \in Nat /\ fresh \in Nat /\ faults \in Nat

(* A resume adds at most one event to the channel of its source, and none to a full one. *)
LEMMA QueueGrows ==
  ASSUME NEW s \in Sources, queue \in [Sources -> 0 .. Capacity], SeeResumed(s)
  PROVE  /\ queue' \in [Sources -> 0 .. Capacity]
         /\ UNCHANGED <<sent, ready, heard, fresh, faults>>
<1> USE ResumeAssumption DEF ResumeAssumption
<1>1. UNCHANGED <<sent, ready, heard, fresh, faults>>
  BY Zenon DEF SeeResumed
<1>2. \/ UNCHANGED queue
      \/ queue[s] < Capacity /\ queue' = [queue EXCEPT ![s] = queue[s] + 1]
  BY Zenon DEF SeeResumed
<1>3. CASE queue[s] < Capacity /\ queue' = [queue EXCEPT ![s] = queue[s] + 1]
  <2> DEFINE n == queue[s] + 1
  <2>1. n \in 0 .. Capacity
    BY <1>3
  <2> HIDE DEF n
  <2>2. queue' = [queue EXCEPT ![s] = n]
    BY <1>3 DEF n
  <2> QED BY <1>1, <2>1, <2>2
<1> QED BY <1>1, <1>2, <1>3

(* No event is put into a full channel. *)
LEMMA RestStep ==
  ASSUME RestTypes, sent' \in Seq(Signals), told' \in Seq(Nat), [Next]_vars
  PROVE  RestTypes'
<1> USE ResumeAssumption DEF ResumeAssumption, RestTypes
<1>1. ASSUME NEW sig \in Signals, Send(sig) PROVE RestTypes'
  <2>1. Len(sent) \in Nat /\ Len(sent') = Len(sent) + 1 /\ Len(sent) < MaxSignals
    BY <1>1 DEF Send
  <2> QED BY <1>1, <2>1 DEF Send
<1>2. CASE Shutdown \/ Terminated \/ UNCHANGED vars
  BY <1>2 DEF Shutdown, Terminated, vars
<1>3. CASE Reconnect
  <2>1. Len(told) \in Nat /\ Len(sent) \in Nat
    OBVIOUS
  <2> QED BY <1>3, <2>1 DEF Reconnect
<1>4. ASSUME NEW s \in Sources, Subscribe(s) \/ SetupFails(s) PROVE RestTypes'
  BY <1>4 DEF Subscribe, SetupFails
<1>5. ASSUME NEW s \in Sources, SeeSuspending(s) \/ SeeShutdown(s) \/ RunnerStops(s) \/ ShowPanic(s)
      PROVE  RestTypes'
  BY <1>5 DEF SeeSuspending, SeeShutdown, RunnerStops, ShowPanic
<1>6. ASSUME NEW s \in Sources, StreamEnds(s) \/ RunnerPanics(s) PROVE RestTypes'
  BY <1>6 DEF StreamEnds, RunnerPanics
<1>7. ASSUME NEW s \in Sources, Run(s) PROVE RestTypes'
  BY <1>7 DEF Run
<1>8. ASSUME NEW s \in Sources, SeeResumed(s) PROVE RestTypes'
  BY <1>8, QueueGrows
<1> QED
  BY <1>1, <1>2, <1>3, <1>4, <1>5, <1>6, <1>7, <1>8 DEF Next, WatcherStep, RunnerStep

(* The variables keep their types; an event channel never holds more than it may, however many
   resumes come while the runner settles (watch_system_resume_with_listener, system_resume.rs:335). *)
THEOREM ResumeTypeCorrect == Spec => []ResumeTypeOK
<1>1. Init => RestTypes
  BY ResumeAssumption DEF ResumeAssumption, Init, RestTypes
<1>2. TruthInv' => sent' \in Seq(Signals) /\ told' \in Seq(Nat)
  BY DEF TruthInv, HistoryInv, Places
<1>3. TruthInv /\ EndsInv /\ RestTypes => ResumeTypeOK
  BY DEF TruthInv, HistoryInv, Places, EndsInv, RestTypes, ResumeTypeOK
<1> QED BY <1>1, <1>2, <1>3, RestStep, TruthHolds, EndsHold, PTL DEF Spec, Safety
=============================================================================

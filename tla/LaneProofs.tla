----------------------------- MODULE LaneProofs -----------------------------
(***************************************************************************)
(* Proofs about the command lane, for any set of sources and commands and  *)
(* any channel capacity; and, at the end, about the runners of the sources *)
(* over it (Pipeline): they keep the lane's terms, so that what is proved  *)
(* of the lane holds with them too, and they lose no wake-up.              *)
(*                                                                         *)
(* NoLostWakeup is inductive over the invariant of the lane, which is      *)
(* needed where the lane answers: without shutdown it answers only what it *)
(* has begun to serve, as every command is configured, and what it has not *)
(* begun to serve stays on its way (UnderWay).                             *)
(***************************************************************************)
EXTENDS Pipeline, SequenceTheorems, TLAPS

(* The inductive invariant: neither PendingCoherent nor RequestPlaces is inductive alone. *)
LaneInv ==
  PlaceTypes /\ PendingCoherent /\ RequestPlaces /\ PhaseHonest /\ ReturnsOnlyOnShutdown

-----------------------------------------------------------------------------
(* Sequences without repetition.                                           *)

(* What Append does to the elements of a sequence. *)
LEMMA AppendElements ==
  ASSUME NEW S, NEW q \in Seq(S), NEW x \in S
  PROVE  /\ Append(q, x) \in Seq(S)
         /\ Len(Append(q, x)) = Len(q) + 1
         /\ Range(Append(q, x)) = Range(q) \cup {x}
         /\ IsInjective(q) /\ x \notin Range(q) => IsInjective(Append(q, x))
<1> DEFINE p == Append(q, x)
<1>1. /\ p \in Seq(S) /\ Len(p) = Len(q) + 1 /\ p[Len(q) + 1] = x
      /\ \A i \in 1..Len(q) : p[i] = q[i]
  BY AppendProperties
<1>2. /\ DOMAIN p = 1..(Len(q) + 1) /\ DOMAIN q = 1..Len(q) /\ Len(q) \in Nat
  BY <1>1, LenProperties
<1> HIDE DEF p
<1>3. Range(p) = Range(q) \cup {x}
  <2>1. ASSUME NEW y \in Range(p) PROVE y \in Range(q) \cup {x}
    BY <2>1, <1>1, <1>2 DEF Range
  <2>2. ASSUME NEW y \in Range(q) PROVE y \in Range(p)
    BY <2>2, <1>1, <1>2 DEF Range
  <2>3. x \in Range(p)
    BY <1>1, <1>2 DEF Range
  <2> QED BY <2>1, <2>2, <2>3
<1>4. IsInjective(q) /\ x \notin Range(q) => IsInjective(p)
  <2> SUFFICES ASSUME IsInjective(q), x \notin Range(q),
                      NEW i \in DOMAIN p, NEW j \in DOMAIN p, p[i] = p[j]
               PROVE  i = j
    BY DEF IsInjective
  <2>1. \A k \in 1..Len(q) : p[k] # x
    BY <1>1, <1>2 DEF Range
  <2> QED BY <1>1, <1>2, <2>1 DEF IsInjective
<1> QED BY <1>1, <1>3, <1>4 DEF p

(* What Tail does to the elements of a sequence that repeats none. *)
LEMMA TailElements ==
  ASSUME NEW S, NEW q \in Seq(S), q # <<>>, IsInjective(q)
  PROVE  /\ Tail(q) \in Seq(S)
         /\ Len(Tail(q)) = Len(q) - 1
         /\ Head(q) \in S /\ Head(q) \in Range(q)
         /\ Range(Tail(q)) = Range(q) \ {Head(q)}
         /\ IsInjective(Tail(q))
<1> DEFINE p == Tail(q)
<1>1. /\ p \in Seq(S) /\ Len(p) = Len(q) - 1 /\ Head(q) = q[1] /\ Head(q) \in S
      /\ \A i \in 1..Len(p) : p[i] = q[i + 1]
  BY HeadTailProperties
<1>2. /\ DOMAIN p = 1..Len(p) /\ DOMAIN q = 1..Len(q) /\ Len(q) \in Nat \ {0} /\ Len(p) \in Nat
  BY <1>1, LenProperties, EmptySeq
<1> HIDE DEF p
<1>3. Head(q) \in Range(q)
  BY <1>1, <1>2 DEF Range
<1>4. Range(p) = Range(q) \ {Head(q)}
  <2>1. ASSUME NEW y \in Range(p) PROVE y \in Range(q) /\ y # Head(q)
    <3>1. PICK i \in 1..Len(p) : y = p[i]
      BY <1>2 DEF Range
    <3>2. i + 1 \in 1..Len(q) /\ y = q[i + 1] /\ i + 1 # 1 /\ 1 \in 1..Len(q)
      BY <3>1, <1>1, <1>2
    <3> QED BY <3>2, <1>1, <1>2 DEF Range, IsInjective
  <2>2. ASSUME NEW y \in Range(q), y # Head(q) PROVE y \in Range(p)
    <3>1. PICK i \in 1..Len(q) : y = q[i]
      BY <1>2 DEF Range
    <3>2. i - 1 \in 1..Len(p) /\ (i - 1) + 1 = i
      BY <3>1, <2>2, <1>1, <1>2
    <3>3. p[i - 1] = y
      BY <3>1, <3>2, <1>1
    <3> QED BY <3>2, <3>3, <1>2 DEF Range
  <2> QED BY <2>1, <2>2
<1>5. IsInjective(p)
  <2> SUFFICES ASSUME NEW i \in 1..Len(p), NEW j \in 1..Len(p), p[i] = p[j] PROVE i = j
    BY <1>2 DEF IsInjective
  <2>1. i + 1 \in 1..Len(q) /\ j + 1 \in 1..Len(q) /\ q[i + 1] = q[j + 1]
    BY <1>1, <1>2
  <2>2. i + 1 = j + 1
    BY <2>1, <1>2 DEF IsInjective
  <2> QED BY <2>2
<1> QED BY <1>1, <1>3, <1>4, <1>5 DEF p

(* The empty sequence has no elements. *)
LEMMA EmptyElements == Range(<<>>) = {} /\ IsInjective(<<>>)
BY DEF Range, IsInjective

(* A sequence with no elements is empty. *)
LEMMA NoElements == ASSUME NEW S, NEW q \in Seq(S), Range(q) = {} PROVE q = <<>>
<1>1. DOMAIN q = 1..Len(q) /\ Len(q) \in Nat
  BY LenProperties
<1>2. ASSUME Len(q) # 0 PROVE FALSE
  <2>1. 1 \in DOMAIN q
    BY <1>1, <1>2
  <2> QED BY <2>1 DEF Range
<1> QED BY <1>2, EmptySeq

(* A queue whose first element is taken, whose last is added, or that is emptied, keeps the turns
   of its elements. *)
LEMMA TurnsKept ==
  ASSUME NEW S, NEW q \in Seq(S), IsInjective(q)
  PROVE  /\ InTurn(q, q) /\ InTurn(q, <<>>)
         /\ q # <<>> => InTurn(q, Tail(q))
         /\ \A x \in S : x \notin Range(q) => InTurn(q, Append(q, x))
<1>1. InTurn(q, q) /\ InTurn(q, <<>>)
  BY EmptyElements DEF InTurn, Ahead
<1>2. ASSUME q # <<>> PROVE InTurn(q, Tail(q))
  <2> DEFINE p == Tail(q)
  <2>1. /\ p \in Seq(S) /\ Len(p) = Len(q) - 1 /\ Head(q) = q[1]
        /\ \A i \in 1..Len(p) : p[i] = q[i + 1]
    BY <1>2, HeadTailProperties
  <2>2. Range(p) = Range(q) \ {q[1]}
    BY <1>2, <2>1, TailElements
  <2>3. /\ DOMAIN p = 1..Len(p) /\ DOMAIN q = 1..Len(q) /\ Len(q) \in Nat \ {0} /\ Len(p) \in Nat
    BY <1>2, <2>1, LenProperties, EmptySeq
  <2> HIDE DEF p
  <2>4. ASSUME NEW x, NEW y, Ahead(p, y, x) PROVE Ahead(q, y, x)
    <3>1. PICK i \in 1..Len(p), j \in 1..Len(p) : i < j /\ p[i] = y /\ p[j] = x
      BY <2>3, <2>4 DEF Ahead
    <3>2. i + 1 \in DOMAIN q /\ j + 1 \in DOMAIN q /\ i + 1 < j + 1
      BY <2>1, <2>3, <3>1
    <3>3. q[i + 1] = y /\ q[j + 1] = x
      BY <2>1, <3>1
    <3> QED BY <3>2, <3>3 DEF Ahead
  <2>5. ASSUME NEW x \in Range(q), NEW y, Ahead(q, y, x), x \notin Range(p) PROVE FALSE
    <3>1. PICK i \in 1..Len(q), j \in 1..Len(q) : i < j /\ q[i] = y /\ q[j] = x
      BY <2>3, <2>5 DEF Ahead
    <3>2. q[j] = q[1] /\ 1 \in 1..Len(q) /\ j # 1
      BY <2>2, <2>3, <2>5, <3>1
    <3> QED BY <2>3, <3>2 DEF IsInjective
  <2> QED BY <2>4, <2>5 DEF InTurn, p
<1>3. ASSUME NEW x \in S, x \notin Range(q) PROVE InTurn(q, Append(q, x))
  <2> DEFINE p == Append(q, x)
  <2>1. /\ p \in Seq(S) /\ Len(p) = Len(q) + 1 /\ p[Len(q) + 1] = x
        /\ \A i \in 1..Len(q) : p[i] = q[i]
    BY AppendProperties
  <2>2. Range(p) = Range(q) \cup {x}
    BY AppendElements
  <2>3. /\ DOMAIN p = 1..(Len(q) + 1) /\ DOMAIN q = 1..Len(q) /\ Len(q) \in Nat
    BY <2>1, LenProperties
  <2> HIDE DEF p
  <2>4. ASSUME NEW y \in Range(q), NEW z, Ahead(p, z, y) PROVE Ahead(q, z, y)
    <3>1. PICK i \in 1..(Len(q) + 1), j \in 1..(Len(q) + 1) : i < j /\ p[i] = z /\ p[j] = y
      BY <2>3, <2>4 DEF Ahead
    <3>2. j # Len(q) + 1
      BY <1>3, <2>1, <2>4, <3>1
    <3>3. i \in 1..Len(q) /\ j \in 1..Len(q)
      BY <2>3, <3>1, <3>2
    <3> QED BY <2>1, <2>3, <3>1, <3>3 DEF Ahead
  <2> QED BY <2>2, <2>4 DEF InTurn, p
<1> QED BY <1>1, <1>2, <1>3
-----------------------------------------------------------------------------
(* The three operations on the lane's queues.                              *)

(* Receive takes the oldest request, which its source believes to be queued. *)
LEMMA ReceiveKeeps ==
  ASSUME LaneInv, NEW s \in Sources, Receive(s)
  PROVE  /\ requests' \in Seq(Sources) /\ Len(requests') <= Cap
         /\ life[s] = "queued"
         /\ Range(requests') = Range(requests) \ {s}
         /\ IsInjective(requests')
<1>1. requests \in Seq(Sources) /\ IsInjective(requests) /\ requests # <<>>
  BY DEF LaneInv, PlaceTypes, RequestPlaces, Receive
<1>2. s \in Range(requests) /\ requests' = Tail(requests) /\ s = Head(requests)
  BY <1>1, TailElements DEF Receive
<1>3. Len(requests) \in Nat /\ Len(requests') = Len(requests) - 1 /\ Len(requests) <= Cap
  BY <1>1, <1>2, TailElements, LenProperties DEF LaneInv, PlaceTypes
<1>4. life[s] = "queued"
  BY <1>2 DEF LaneInv, RequestPlaces
<1> QED BY <1>1, <1>2, <1>3, <1>4, TailElements, LaneAssumption DEF LaneAssumption

(* Push keeps order and waiters coherent and adds s to the waiters of its command. *)
LEMMA PushKeeps ==
  ASSUME LaneInv, NEW s \in Sources, Push(s)
  PROVE  /\ order' \in Seq(Commands)
         /\ waiters' = [waiters EXCEPT ![CmdOf[s]] = @ \cup {s}]
         /\ waiters' \in [Commands -> SUBSET Sources]
         /\ PendingCoherent'
<1> DEFINE c == CmdOf[s]
<1>1. /\ c \in Commands /\ order \in Seq(Commands) /\ waiters \in [Commands -> SUBSET Sources]
      /\ Range(order) = {d \in Commands : waiters[d] # {}} /\ IsInjective(order)
  BY LaneAssumption DEF LaneInv, PlaceTypes, PendingCoherent, LaneAssumption
<1>2. /\ waiters' = [waiters EXCEPT ![c] = @ \cup {s}]
      /\ order' = IF waiters[c] = {} THEN Append(order, c) ELSE order
  BY DEF Push
<1> HIDE DEF c
<1>3. /\ waiters' \in [Commands -> SUBSET Sources]
      /\ {d \in Commands : waiters'[d] # {}} = {d \in Commands : waiters[d] # {}} \cup {c}
  BY <1>1, <1>2
<1>4. /\ order' \in Seq(Commands) /\ IsInjective(order')
      /\ Range(order') = {d \in Commands : waiters[d] # {}} \cup {c}
  <2>1. CASE waiters[c] = {}
    BY <1>1, <1>2, <2>1, AppendElements
  <2>2. CASE waiters[c] # {}
    BY <1>1, <1>2, <2>2
  <2> QED BY <2>1, <2>2
<1> QED BY <1>2, <1>3, <1>4 DEF PendingCoherent, c

(* PopNextCommand takes the command at the front of order, which has waiters. *)
LEMMA PopKeeps ==
  ASSUME LaneInv, NEW c \in Commands, PopNextCommand(c)
  PROVE  /\ order # <<>> /\ c = Head(order) /\ order' = Tail(order)
         /\ order' \in Seq(Commands)
         /\ waiters' = [waiters EXCEPT ![c] = {}]
         /\ waiters' \in [Commands -> SUBSET Sources]
         /\ waiters[c] # {}
         /\ PendingCoherent'
<1>1. /\ order \in Seq(Commands) /\ waiters \in [Commands -> SUBSET Sources]
      /\ Range(order) = {d \in Commands : waiters[d] # {}} /\ IsInjective(order)
  BY DEF LaneInv, PlaceTypes, PendingCoherent
<1>2. DOMAIN order = 1..Len(order) /\ Len(order) \in Nat
  BY <1>1, LenProperties
<1>3. PICK i \in 1..Len(order) :
        /\ \A j \in 1..(i - 1) : waiters[order[j]] = {}
        /\ waiters[order[i]] # {}
        /\ c = order[i]
        /\ order' = SubSeq(order, i + 1, Len(order))
        /\ waiters' = [waiters EXCEPT ![c] = {}]
  BY DEF PopNextCommand
<1>4. i = 1
  <2> SUFFICES ASSUME i # 1 PROVE FALSE
    OBVIOUS
  <2>1. 1 \in DOMAIN order /\ 1 \in 1..(i - 1)
    BY <1>2, <1>3
  <2>2. order[1] \in Range(order)
    BY <2>1 DEF Range
  <2> QED BY <2>1, <2>2, <1>1, <1>3
<1>5. order # <<>> /\ Len(order) >= 1
  BY <1>2, <1>3, EmptySeq
<1>6. order' = Tail(order) /\ c = Head(order)
  <2>1. order' = SubSeq(order, 2, Len(order))
    BY <1>3, <1>4
  <2>2. Tail(order) = SubSeq(order, 2, Len(order))
    BY <1>1, <1>5, TailIsSubSeq
  <2>3. Head(order) = order[1]
    BY <1>1, <1>5, HeadTailProperties
  <2> QED BY <2>1, <2>2, <2>3, <1>3, <1>4
<1>7. order' \in Seq(Commands) /\ IsInjective(order') /\ Range(order') = Range(order) \ {c}
  BY <1>1, <1>5, <1>6, TailElements
<1>8. /\ waiters' \in [Commands -> SUBSET Sources]
      /\ {d \in Commands : waiters'[d] # {}} = {d \in Commands : waiters[d] # {}} \ {c}
  BY <1>1, <1>3
<1> QED BY <1>1, <1>3, <1>5, <1>6, <1>7, <1>8 DEF PendingCoherent

(* Answer keeps the type of life. *)
LEMMA AnswerKeeps ==
  ASSUME NEW S, NEW r \in Lives, life \in [Sources -> Lives], Answer(S, r)
  PROVE  /\ life' \in [Sources -> Lives]
         /\ \A s \in Sources : life'[s] = IF s \in S THEN r ELSE life[s]
BY DEF Answer
-----------------------------------------------------------------------------
(* Every action preserves the invariant.                                   *)

(* Steps of the sources. *)
LEMMA SourceKeeps ==
  ASSUME LaneInv, NEW s \in Sources, SourceStep(s)
  PROVE  LaneInv'
<1> USE DEF Lives, Answers, RunReports, Refusals
<1>1. CASE Trigger(s)
  BY <1>1 DEF Trigger, Request, Answer, runnerVars, LaneInv, PlaceTypes, PendingCoherent, RequestPlaces,
     PhaseHonest, ReturnsOnlyOnShutdown, IsEmpty
<1>2. CASE Send(s)
  <2>1. /\ requests \in Seq(Sources) /\ requests' = Append(requests, s) /\ s \notin Range(requests)
        /\ Len(requests) < Cap /\ Len(requests) \in Nat /\ Cap \in Nat /\ IsInjective(requests)
    BY <1>2, LenProperties, LaneAssumption DEF Send, Enqueue, LaneInv, PlaceTypes, RequestPlaces,
         LaneAssumption
  <2>2. /\ requests' \in Seq(Sources) /\ Len(requests') <= Cap
        /\ Range(requests') = Range(requests) \cup {s} /\ IsInjective(requests')
    BY <2>1, AppendElements
  <2>3. PlaceTypes' /\ PendingCoherent' /\ PhaseHonest' /\ ReturnsOnlyOnShutdown'
    BY <1>2, <2>2 DEF Send, Enqueue, Answer, runnerVars, LaneInv, PlaceTypes, PendingCoherent, PhaseHonest,
         ReturnsOnlyOnShutdown
  <2>4. RequestPlaces'
    BY <1>2, <2>2 DEF Send, Enqueue, Answer, runnerVars, LaneInv, PlaceTypes, RequestPlaces, IsEmpty
  <2> QED BY <2>3, <2>4 DEF LaneInv
<1>3. CASE SendStopped(s)
  BY <1>3 DEF SendStopped, Answer, runnerVars, LaneInv, PlaceTypes, PendingCoherent, RequestPlaces,
     PhaseHonest, ReturnsOnlyOnShutdown, IsEmpty
<1>4. CASE TakeAnswer(s)
  BY <1>4 DEF TakeAnswer, Collect, Answer, runnerVars, LaneInv, PlaceTypes, PendingCoherent, RequestPlaces,
     PhaseHonest, ReturnsOnlyOnShutdown, IsEmpty
<1>5. CASE Leave(s)
  BY <1>5 DEF Leave, Abandon, Answer, runnerVars, LaneInv, PlaceTypes, PendingCoherent, RequestPlaces,
     PhaseHonest, ReturnsOnlyOnShutdown, IsEmpty
<1> QED BY <1>1, <1>2, <1>3, <1>4, <1>5 DEF SourceStep

(* The runner takes a request from the channel into PendingRequests. *)
LEMMA PushReceivedKeeps ==
  ASSUME LaneInv, pc \in {"idle", "cooling", "drain"},
         NEW s \in Sources, Receive(s), Push(s),
         pc = "cooling" => CmdOf[s] # command,
         pc' = IF pc = "idle" THEN "next" ELSE pc,
         UNCHANGED <<command, batch, phase, left, shutdown>>
  PROVE  LaneInv'
<1> USE DEF Lives, Answers, RunReports, Refusals
<1>1. /\ requests' \in Seq(Sources) /\ Len(requests') <= Cap /\ life[s] = "queued"
      /\ Range(requests') = Range(requests) \ {s} /\ IsInjective(requests')
  BY ReceiveKeeps
<1>2. /\ order' \in Seq(Commands) /\ waiters' \in [Commands -> SUBSET Sources]
      /\ waiters' = [waiters EXCEPT ![CmdOf[s]] = @ \cup {s}] /\ PendingCoherent'
  BY PushKeeps
<1>3. Answer({s}, "held")
  BY DEF Push
<1>4. PlaceTypes' /\ PhaseHonest' /\ ReturnsOnlyOnShutdown'
  BY <1>1, <1>2, <1>3 DEF Answer, LaneInv, PlaceTypes, PhaseHonest, ReturnsOnlyOnShutdown, Points
<1>5. RequestPlaces'
  BY <1>1, <1>2, <1>3, LaneAssumption
     DEF Answer, LaneInv, PlaceTypes, RequestPlaces, IsEmpty, LaneAssumption
<1> QED BY <1>2, <1>4, <1>5 DEF LaneInv

(* The runner returns, everything pending and the batch S cancelled. *)
LEMMA CancelKeeps ==
  ASSUME LaneInv, NEW p \in {"idle", "cooling", "drain"}, CancelPending(p, batch)
  PROVE  LaneInv'
<1> USE DEF Lives, Answers, RunReports, Refusals
<1>1. PendingCoherent'
  BY EmptyElements DEF CancelPending, PendingCoherent
<1>2. PlaceTypes' /\ PhaseHonest' /\ ReturnsOnlyOnShutdown'
  BY DEF CancelPending, Answer, LaneInv, PlaceTypes, PhaseHonest, ReturnsOnlyOnShutdown, Points
<1>3. \A s \in Sources : life[s] = "held" => s \in batch \cup AllPending
  BY LaneAssumption DEF CancelPending, LaneInv, RequestPlaces, AllPending, LaneAssumption
<1>4. \A s \in batch \cup AllPending : life[s] = "held"
  BY LaneAssumption DEF CancelPending, LaneInv, PlaceTypes, RequestPlaces, AllPending, LaneAssumption
<1>5. RequestPlaces'
  BY <1>3, <1>4, LaneAssumption
     DEF CancelPending, Answer, LaneInv, PlaceTypes, RequestPlaces, IsEmpty, LaneAssumption
<1> QED BY <1>1, <1>2, <1>5 DEF LaneInv
(* A command popped from PendingRequests starts to run, or to cool down. *)
LEMMA PopServeKeeps ==
  ASSUME LaneInv, pc = "next", NEW c \in Configured, PopNextCommand(c),
         command' = c, batch' = waiters[c],
         \/ pc' = "running" /\ phase' = "Running" /\ Answer(waiters[c], "started")
         \/ pc' = "cooling" /\ phase' = "CoolingDown" /\ UNCHANGED life,
         UNCHANGED <<requests, left, shutdown>>
  PROVE  LaneInv'
<1> USE DEF Lives, Answers, RunReports, Refusals
<1>1. c \in Commands
  BY LaneAssumption DEF LaneAssumption
<1>2. /\ order' \in Seq(Commands) /\ waiters' \in [Commands -> SUBSET Sources]
      /\ waiters' = [waiters EXCEPT ![c] = {}] /\ waiters[c] # {} /\ PendingCoherent'
  BY <1>1, PopKeeps
<1>3. PlaceTypes' /\ PhaseHonest' /\ ReturnsOnlyOnShutdown'
  BY <1>1, <1>2 DEF Answer, LaneInv, PlaceTypes, PhaseHonest, ReturnsOnlyOnShutdown, Points, Phases
<1>4. /\ \A s \in waiters[c] : s \in Sources /\ CmdOf[s] = c /\ life[s] = "held"
      /\ \A s \in Sources : life[s] # "started"
      /\ \A s \in Sources : life[s] = "held" <=> s \in waiters[CmdOf[s]]
  BY <1>1 DEF LaneInv, PlaceTypes, RequestPlaces
<1>5. RequestPlaces'
  BY <1>1, <1>2, <1>4, LaneAssumption
     DEF Answer, LaneInv, PlaceTypes, RequestPlaces, IsEmpty, LaneAssumption
<1> QED BY <1>2, <1>3, <1>5 DEF LaneInv

(* Steps of the runner. *)
LEMMA RunnerKeeps ==
  ASSUME LaneInv, RunnerMove
  PROVE  LaneInv'
<1> USE DEF Lives, Answers, RunReports, Refusals
<1>1. CASE Begin
  BY <1>1 DEF Begin, LaneInv, PlaceTypes, PendingCoherent, RequestPlaces, PhaseHonest,
       ReturnsOnlyOnShutdown, IsEmpty, Points,
     Phases
<1>2. CASE IdleReceive
  <2>1. PICK s \in Sources : Receive(s) /\ Push(s)
    BY <1>2 DEF IdleReceive
  <2> QED BY <1>2, <2>1, PushReceivedKeeps DEF IdleReceive
<1>3. CASE IdleShutdown
  <2>1. batch = {}
    BY <1>3 DEF IdleShutdown, CancelPending, LaneInv, RequestPlaces
  <2> QED BY <1>3, <2>1, CancelKeeps DEF IdleShutdown
<1>4. CASE NextNone
  <2>1. order \in Seq(Commands) /\ Range(order) = {c \in Commands : waiters[c] # {}}
    BY DEF LaneInv, PlaceTypes, PendingCoherent
  <2>2. Range(order) = {}
    <3>1. DOMAIN order = 1..Len(order)
      BY <2>1, LenProperties
    <3> QED BY <1>4, <2>1, <3>1 DEF NextNone, Range
  <2>3. order = <<>> /\ order' = order /\ IsEmpty
    BY <1>4, <2>1, <2>2, NoElements DEF NextNone, IsEmpty
  <2> QED BY <1>4, <2>3 DEF NextNone, LaneInv, PlaceTypes, PendingCoherent, RequestPlaces,
       PhaseHonest, ReturnsOnlyOnShutdown,
     IsEmpty, Points
<1>5. CASE NextUnknown
  <2>1. PICK c \in Commands \ Configured : PopNextCommand(c) /\ Answer(waiters[c], "unknown")
    BY <1>5 DEF NextUnknown
  <2>2. /\ order' \in Seq(Commands) /\ waiters' \in [Commands -> SUBSET Sources]
        /\ waiters' = [waiters EXCEPT ![c] = {}] /\ PendingCoherent'
    BY <2>1, PopKeeps
  <2>3. PlaceTypes' /\ PhaseHonest' /\ ReturnsOnlyOnShutdown'
    BY <1>5, <2>1, <2>2 DEF NextUnknown, Answer, LaneInv, PlaceTypes, PhaseHonest, ReturnsOnlyOnShutdown
  <2>4. /\ \A s \in waiters[c] : s \in Sources /\ CmdOf[s] = c /\ life[s] = "held"
        /\ \A s \in Sources : life[s] = "held" <=> s \in waiters[CmdOf[s]]
    BY <1>5, <2>1 DEF NextUnknown, LaneInv, PlaceTypes, RequestPlaces
  <2>5. RequestPlaces'
    BY <1>5, <2>1, <2>2, <2>4, LaneAssumption
       DEF NextUnknown, Answer, LaneInv, PlaceTypes, RequestPlaces, IsEmpty, LaneAssumption
  <2> QED BY <2>2, <2>3, <2>5 DEF LaneInv
<1>6. CASE NextRun
  <2>1. PICK c \in Configured : PopNextCommand(c) /\ StartRun(c, waiters[c])
    BY <1>6 DEF NextRun
  <2> QED BY <1>6, <2>1, PopServeKeeps DEF NextRun, StartRun
<1>7. CASE NextCoolDown
  <2>1. PICK c \in Configured : PopNextCommand(c) /\ command' = c /\ batch' = waiters[c]
    BY <1>7 DEF NextCoolDown
  <2> QED BY <1>7, <2>1, PopServeKeeps DEF NextCoolDown
<1>8. CASE CoolingElapsed
  <2>1. \A s \in batch : s \in Sources /\ life[s] = "held"
    BY <1>8 DEF CoolingElapsed, LaneInv, PlaceTypes, RequestPlaces
  <2>2. PlaceTypes' /\ PendingCoherent' /\ PhaseHonest' /\ ReturnsOnlyOnShutdown'
    BY <1>8 DEF CoolingElapsed, StartRun, Answer, LaneInv, PlaceTypes, PendingCoherent, PhaseHonest,
         ReturnsOnlyOnShutdown,
       Points, Phases
  <2>3. RequestPlaces'
    BY <1>8, <2>1, LaneAssumption
       DEF CoolingElapsed, StartRun, Answer, LaneInv, PlaceTypes, RequestPlaces, LaneAssumption
  <2> QED BY <2>2, <2>3 DEF LaneInv
<1>9. CASE CoolingShutdown
  BY <1>9, CancelKeeps DEF CoolingShutdown
<1>10. CASE CoolingJoin
  <2>1. PICK s \in Sources : /\ Receive(s) /\ CmdOf[s] = command
                             /\ batch' = batch \cup {s} /\ Answer({s}, "held")
    BY <1>10 DEF CoolingJoin
  <2>2. /\ requests' \in Seq(Sources) /\ Len(requests') <= Cap /\ life[s] = "queued"
        /\ Range(requests') = Range(requests) \ {s} /\ IsInjective(requests')
    BY <2>1, ReceiveKeeps
  <2>3. PlaceTypes' /\ PendingCoherent' /\ PhaseHonest' /\ ReturnsOnlyOnShutdown'
    BY <1>10, <2>1, <2>2
       DEF CoolingJoin, Answer, LaneInv, PlaceTypes, PendingCoherent, PhaseHonest, ReturnsOnlyOnShutdown
  <2>4. RequestPlaces'
    BY <1>10, <2>1, <2>2, LaneAssumption
       DEF CoolingJoin, Answer, LaneInv, PlaceTypes, RequestPlaces, LaneAssumption
  <2> QED BY <2>3, <2>4 DEF LaneInv
<1>11. CASE CoolingPush
  <2>1. PICK s \in Sources : Receive(s) /\ CmdOf[s] # command /\ Push(s)
    BY <1>11 DEF CoolingPush
  <2> QED BY <1>11, <2>1, PushReceivedKeeps DEF CoolingPush
<1>12. CASE FinishRun
  <2>1. PICK r \in RunReports : Answer(batch, r)
    BY <1>12 DEF FinishRun, EndRun, RunEnds
  <2>2. /\ \A s \in batch : s \in Sources /\ life[s] = "started"
        /\ \A s \in Sources : life[s] = "started" => s \in batch
    BY <1>12 DEF FinishRun, EndRun, RunEnds, LaneInv, PlaceTypes, RequestPlaces
  <2>3. PlaceTypes' /\ PendingCoherent' /\ PhaseHonest' /\ ReturnsOnlyOnShutdown'
    BY <1>12, <2>1, LaneAssumption
       DEF FinishRun, EndRun, RunEnds, Answer, LaneInv, PlaceTypes, PendingCoherent, PhaseHonest,
            ReturnsOnlyOnShutdown, Points, Phases,
           LaneAssumption
  <2>4. RequestPlaces'
    BY <1>12, <2>1, <2>2, LaneAssumption
       DEF FinishRun, EndRun, RunEnds, Answer, LaneInv, PlaceTypes, RequestPlaces, LaneAssumption
  <2> QED BY <2>3, <2>4 DEF LaneInv
<1>13. CASE DrainReceive
  <2>1. PICK s \in Sources : Receive(s) /\ Push(s)
    BY <1>13 DEF DrainReceive
  <2> QED BY <1>13, <2>1, PushReceivedKeeps DEF DrainReceive
<1>14. CASE DrainDone
  BY <1>14 DEF DrainDone, GoOn, LaneInv, PlaceTypes, PendingCoherent, RequestPlaces, PhaseHonest,
       ReturnsOnlyOnShutdown, Points
<1>15. CASE DrainShutdown
  <2>1. batch = {}
    BY <1>15 DEF DrainShutdown, CancelPending, LaneInv, RequestPlaces
  <2> QED BY <1>15, <2>1, CancelKeeps DEF DrainShutdown
<1>16. CASE DropReceiver
  <2>1. PlaceTypes' /\ PendingCoherent' /\ PhaseHonest' /\ ReturnsOnlyOnShutdown'
    BY <1>16, LaneAssumption
       DEF DropReceiver, Answer, LaneInv, PlaceTypes, PendingCoherent, PhaseHonest,
            ReturnsOnlyOnShutdown, Points, LaneAssumption
  <2>2. RequestPlaces'
    BY <1>16, EmptyElements DEF DropReceiver, Answer, LaneInv, PlaceTypes, RequestPlaces, IsEmpty
  <2> QED BY <2>1, <2>2 DEF LaneInv
<1>17. CASE MarkStopped
  BY <1>17 DEF MarkStopped, LaneInv, PlaceTypes, PendingCoherent, RequestPlaces, PhaseHonest,
       ReturnsOnlyOnShutdown, IsEmpty,
     Phases
<1> QED BY <1>1, <1>2, <1>3, <1>4, <1>5, <1>6, <1>7, <1>8, <1>9, <1>10, <1>11, <1>12, <1>13,
       <1>14, <1>15, <1>16, <1>17 DEF RunnerMove

(* The invariant holds initially and every step preserves it. *)
LEMMA LaneInvInductive ==
  /\ Init => LaneInv
  /\ LaneInv /\ [Next]_vars => LaneInv'
<1>1. ASSUME Init PROVE LaneInv
  <2>0. requests \in Seq(Sources) /\ Len(requests) <= Cap /\ order \in Seq(Commands)
    BY <1>1, EmptySeq, LaneAssumption DEF Init, LaneAssumption
  <2>1. PlaceTypes /\ PhaseHonest /\ ReturnsOnlyOnShutdown
    BY <1>1, <2>0 DEF Init, PlaceTypes, PhaseHonest, ReturnsOnlyOnShutdown, Points, Phases, Lives
  <2>2. PendingCoherent
    BY <1>1, EmptyElements DEF Init, PendingCoherent
  <2>3. RequestPlaces
    BY <1>1, EmptyElements, LaneAssumption DEF Init, RequestPlaces, IsEmpty, LaneAssumption
  <2> QED BY <2>1, <2>2, <2>3 DEF LaneInv
<1>2. ASSUME LaneInv, [Next]_vars PROVE LaneInv'
  <2>1. CASE RunnerStep
    BY <1>2, <2>1, RunnerKeeps DEF RunnerStep
  <2>2. CASE \E s \in Sources : SourceStep(s)
    BY <1>2, <2>2, SourceKeeps
  <2>3. CASE TimePasses
    BY <1>2, <2>3 DEF TimePasses, LaneInv, PlaceTypes, PendingCoherent, RequestPlaces,
         PhaseHonest, ReturnsOnlyOnShutdown,
       IsEmpty
  <2>4. CASE Shutdown
    BY <1>2, <2>4 DEF Shutdown, runnerVars, LaneInv, PlaceTypes, PendingCoherent, RequestPlaces,
       PhaseHonest, ReturnsOnlyOnShutdown, IsEmpty
  <2>5. CASE UNCHANGED vars
    BY <1>2, <2>5 DEF vars, LaneInv, PlaceTypes, PendingCoherent, RequestPlaces, PhaseHonest,
         ReturnsOnlyOnShutdown, IsEmpty
  <2> QED BY <1>2, <2>1, <2>2, <2>3, <2>4, <2>5 DEF Next, Terminated
<1> QED BY <1>1, <1>2
-----------------------------------------------------------------------------
(* The theorems.                                                           *)

(* PendingRequests' two fields never disagree: no command with waiters is missing from the
   order in which commands are popped, none is listed twice. *)
THEOREM LanePendingCoherent == Safety => []PendingCoherent
<1>1. LaneInv => PendingCoherent
  BY DEF LaneInv
<1> QED BY <1>1, LaneInvInductive, PTL DEF Safety

(* No request is lost or duplicated by the lane, through cooldowns, drains and shutdown. *)
THEOREM LaneKeepsRequests == Safety => []RequestPlaces
<1>1. LaneInv => RequestPlaces
  BY DEF LaneInv
<1> QED BY <1>1, LaneInvInductive, PTL DEF Safety

(* The phase the health check reads is Running exactly while a command runs. *)
THEOREM LanePhaseHonest == Safety => []PhaseHonest
<1>1. LaneInv => PhaseHonest
  BY DEF LaneInv
<1> QED BY <1>1, LaneInvInductive, PTL DEF Safety

(* A lane's runner returns only after shutdown has been signalled. *)
THEOREM LaneReturnsOnlyOnShutdown == Safety => []ReturnsOnlyOnShutdown
<1>1. LaneInv => ReturnsOnlyOnShutdown
  BY DEF LaneInv
<1> QED BY <1>1, LaneInvInductive, PTL DEF Safety

(* What last_finished has on record of a command is the time since a run of it really ended. *)
Recorded == AgeTypes /\ finished = rest

(* The record and the time that has passed stay together: the end of a run is entered for its own
   command, at the moment it happens, and nothing else is ever entered or forgotten. *)
LEMMA RecordedStep ==
  ASSUME LaneInv, Recorded, [Next]_vars
  PROVE  Recorded'
<1> USE LaneAssumption DEF LaneAssumption, Recorded, AgeTypes
<1>1. CASE TimePasses
  <2>1. ASSUME NEW age \in [Configured -> Nat], \A c \in Configured : age[c] <= Interval[c]
        PROVE  /\ Older(age) \in [Configured -> Nat]
               /\ \A c \in Configured : Older(age)[c] <= Interval[c]
    BY <2>1 DEF Older
  <2> QED BY <1>1, <2>1 DEF TimePasses
<1>2. ASSUME RunnerStep PROVE Recorded'
  <2>1. CASE FinishRun
    <3>1. pc = "running" /\ pc' # "running" /\ command \in Configured
      BY <2>1 DEF FinishRun, EndRun, RunEnds, LaneInv, RequestPlaces
    <3>2. rest' = [c \in Configured |-> IF c = command THEN 0 ELSE rest[c]]
      BY <1>2, <3>1 DEF RunnerStep, Observe
    <3>3. finished' = [finished EXCEPT ![command] = 0]
      BY <2>1 DEF FinishRun, EndRun
    <3>4. finished' = rest'
      BY <3>2, <3>3
    <3>5. \A c \in Configured : finished'[c] = IF c = command THEN 0 ELSE finished[c]
      BY <3>3
    <3>6. finished' \in [Configured -> Nat]
      BY <3>3
    <3>7. \A c \in Configured : finished'[c] <= Interval[c]
      BY <3>5
    <3> QED BY <3>4, <3>6, <3>7
  <2>2. CASE ~FinishRun
    <3>1. finished' = finished /\ (pc = "running" => pc' = pc)
      BY <1>2, <2>2 DEF RunnerStep, RunnerMove, Begin, IdleReceive, IdleShutdown, NextNone,
        NextUnknown, NextRun, NextCoolDown, CoolingElapsed, CoolingShutdown, CoolingJoin, CoolingPush,
        DrainReceive, DrainDone, GoOn, DrainShutdown, CancelPending, DropReceiver, MarkStopped
    <3>2. rest' = [c \in Configured |-> rest[c]]
      BY <1>2, <3>1 DEF RunnerStep, Observe
    <3> QED BY <3>1, <3>2
  <2> QED BY <2>1, <2>2
<1>3. CASE \E s \in Sources : SourceStep(s)
  BY <1>3 DEF SourceStep, Trigger, Request, Send, Enqueue, SendStopped, TakeAnswer, Collect, Leave,
    Abandon, runnerVars
<1>4. CASE Shutdown \/ UNCHANGED vars
  BY <1>4 DEF Shutdown, runnerVars, vars
<1> QED BY <1>1, <1>2, <1>3, <1>4 DEF Next, Terminated

(* So the record is right in every state. *)
LEMMA LaneRecords == Safety => [](LaneInv /\ Recorded)
<1>1. Init => Recorded
  BY LaneAssumption DEF LaneAssumption, Init, Recorded, AgeTypes
<1> QED BY <1>1, LaneInvInductive, RecordedStep, PTL DEF Safety

(* The lane's variables keep their types and the request channel its bound. *)
THEOREM LaneTypeCorrect == Safety => []TypeOK
<1>1. LaneInv /\ Recorded => TypeOK
  BY DEF LaneInv, Recorded, TypeOK
<1> QED BY <1>1, LaneRecords, PTL

(* Between the end of a run and the start of the next of its command at least min_interval passes:
   the runner's record, which is all it reads, agrees with the time that has really passed
   (last_finished, lane.rs:203). *)
THEOREM LaneMinInterval == Safety => MinIntervalRespected
<1>1. ASSUME LaneInv, Recorded, [Next]_vars
      PROVE  [phase' = "Running" /\ phase # "Running" => rest[command'] >= Interval[command']]_vars
  <2> SUFFICES ASSUME Next, phase' = "Running", phase # "Running"
               PROVE  rest[command'] >= Interval[command']
    BY <1>1
  <2>1. ASSUME RunnerMove PROVE finished[command'] >= Interval[command']
    BY <2>1 DEF RunnerMove, Begin, IdleReceive, IdleShutdown, NextNone, NextUnknown, NextRun,
       NextCoolDown, CoolingElapsed, CoolingShutdown, CoolingJoin, CoolingPush, FinishRun, EndRun, RunEnds,
       DrainReceive, DrainDone, GoOn, DrainShutdown, CancelPending, DropReceiver, MarkStopped, StartRun
  <2>2. ASSUME ~RunnerStep PROVE UNCHANGED phase
    BY <2>2 DEF Next, SourceStep, Trigger, Request, Send, Enqueue, SendStopped, TakeAnswer, Collect, Leave,
       Abandon, TimePasses, Shutdown, Terminated, runnerVars, vars
  <2> QED BY <1>1, <2>1, <2>2 DEF Recorded, RunnerStep
<1> QED BY <1>1, LaneRecords, PTL DEF Safety, MinIntervalRespected

(* A lane that ends a run during shutdown begins no other (the drain before the next, lane.rs:214). *)
THEOREM LaneRunsNothingMore == Safety => NoSecondRunAfterShutdown
<1> DEFINE Over == shutdown /\ pc \in {"drain", "returning", "stopped"}
<1>1. Over /\ [Next]_vars => Over'
  BY DEF Next, RunnerStep, RunnerMove, Begin, IdleReceive, IdleShutdown, NextNone, NextUnknown, NextRun,
    NextCoolDown, CoolingElapsed, CoolingShutdown, CoolingJoin, CoolingPush, FinishRun, EndRun,
    RunEnds, StartRun,
    DrainReceive, DrainDone, GoOn, DrainShutdown, CancelPending, DropReceiver, MarkStopped, SourceStep,
    Trigger, Request, Send, Enqueue, SendStopped, TakeAnswer, Collect, Leave, Abandon, TimePasses,
    Shutdown, Terminated,
    runnerVars, vars
<1>2. (shutdown /\ pc = "drain" => Over) /\ (Over => pc # "running")
  OBVIOUS
<1> QED BY <1>1, <1>2, PTL DEF Safety, NoSecondRunAfterShutdown

(* A step keeps the turns of the channel and of PendingRequests. *)
LEMMA TurnStep ==
  ASSUME LaneInv, [Next]_vars
  PROVE  /\ InTurn(requests, requests') /\ InTurn(order, order')
         /\ command' \notin {command, "none"} => order # <<>> /\ command' = Head(order)
<1>1. /\ requests \in Seq(Sources) /\ IsInjective(requests)
      /\ order \in Seq(Commands) /\ IsInjective(order)
  BY DEF LaneInv, PlaceTypes, RequestPlaces, PendingCoherent
<1>2. /\ InTurn(requests, requests) /\ InTurn(requests, <<>>)
      /\ InTurn(order, order) /\ InTurn(order, <<>>)
  BY <1>1, TurnsKept
<1>3. ASSUME NEW s \in Sources, Receive(s) PROVE InTurn(requests, requests')
  BY <1>1, <1>3, TurnsKept DEF Receive
<1>4. ASSUME NEW s \in Sources, Push(s) PROVE InTurn(order, order')
  <2>1. CASE waiters[CmdOf[s]] = {}
    <3>1. CmdOf[s] \in Commands /\ CmdOf[s] \notin Range(order) /\ order' = Append(order, CmdOf[s])
      BY <1>4, <2>1, LaneAssumption DEF Push, LaneInv, PendingCoherent, LaneAssumption
    <3> QED BY <1>1, <3>1, TurnsKept
  <2>2. CASE waiters[CmdOf[s]] # {}
    BY <1>2, <1>4, <2>2 DEF Push
  <2> QED BY <2>1, <2>2
<1>5. ASSUME NEW c \in Commands, PopNextCommand(c)
      PROVE  InTurn(order, order') /\ order # <<>> /\ c = Head(order)
  <2>1. order # <<>> /\ c = Head(order) /\ order' = Tail(order)
    BY <1>5, PopKeeps
  <2> QED BY <1>1, <2>1, TurnsKept
<1>6. CASE \E s \in Sources : SourceStep(s)
  <2>1. PICK s \in Sources : SourceStep(s)
    BY <1>6
  <2>2. CASE Send(s)
    <3>1. s \notin Range(requests) /\ requests' = Append(requests, s) /\ UNCHANGED <<order, command>>
      BY <2>2 DEF Send, Enqueue, LaneInv, RequestPlaces, runnerVars
    <3> QED BY <1>1, <1>2, <3>1, TurnsKept
  <2>3. CASE ~Send(s)
    BY <1>2, <2>1, <2>3 DEF SourceStep, Trigger, Request, SendStopped, TakeAnswer, Collect, Leave, Abandon,
      runnerVars
  <2> QED BY <2>2, <2>3
<1>7. CASE IdleReceive \/ DrainReceive \/ CoolingPush
  <2>1. PICK s \in Sources : Receive(s) /\ Push(s)
    BY <1>7 DEF IdleReceive, DrainReceive, CoolingPush
  <2>2. UNCHANGED command
    BY <1>7 DEF IdleReceive, DrainReceive, CoolingPush
  <2> QED BY <1>3, <1>4, <2>1, <2>2
<1>8. CASE CoolingJoin
  <2>1. PICK s \in Sources : Receive(s)
    BY <1>8 DEF CoolingJoin
  <2> QED BY <1>2, <1>3, <1>8, <2>1 DEF CoolingJoin
<1>9. CASE NextUnknown
  <2>1. PICK c \in Commands \ Configured : PopNextCommand(c)
    BY <1>9 DEF NextUnknown
  <2> QED BY <1>2, <1>5, <1>9, <2>1 DEF NextUnknown
<1>10. CASE NextRun \/ NextCoolDown
  <2>1. PICK c \in Configured : PopNextCommand(c) /\ command' = c /\ UNCHANGED requests
    BY <1>10 DEF NextRun, NextCoolDown, StartRun
  <2> QED BY <1>2, <1>5, <2>1, LaneAssumption DEF LaneAssumption
<1>11. CASE CoolingElapsed \/ CoolingShutdown \/ IdleShutdown \/ DrainShutdown
  BY <1>2, <1>11 DEF CoolingElapsed, StartRun, CoolingShutdown, IdleShutdown, DrainShutdown, CancelPending
<1>12. CASE FinishRun \/ DropReceiver \/ NextNone
  BY <1>2, <1>12 DEF FinishRun, EndRun, RunEnds, DropReceiver, NextNone
<1>13. CASE Begin \/ DrainDone \/ MarkStopped
  BY <1>2, <1>13 DEF Begin, DrainDone, GoOn, MarkStopped
<1>14. CASE TimePasses \/ Shutdown \/ UNCHANGED vars
  BY <1>2, <1>14 DEF TimePasses, Shutdown, runnerVars, vars
<1> QED BY <1>6, <1>7, <1>8, <1>9, <1>10, <1>11, <1>12, <1>13, <1>14
   DEF Next, RunnerStep, RunnerMove, Terminated

(* Requests are served in turn: what the channel's and the pending queue's order promise, and what
   rules out that one command starves another (PendingRequests, lane.rs:344). *)
THEOREM LaneServesInTurn == Safety => ServedInTurn
<1>1. LaneInv /\ [Next]_vars =>
        [ /\ InTurn(requests, requests')
          /\ InTurn(order, order')
          /\ command' \notin {command, "none"} => order # <<>> /\ command' = Head(order) ]_vars
  BY TurnStep
<1> QED BY <1>1, LaneInvInductive, PTL DEF Safety, ServedInTurn
-----------------------------------------------------------------------------
(* The lane implements CommandService.                                     *)

(* Moving the requests of S from one abstract status to another. *)
LEMMA StatusMoves ==
  ASSUME LaneInv, NEW S \in SUBSET Sources, NEW r \in Lives, Answer(S, r)
  PROVE  /\ r \in {"none", "sending"} => Service!Move(S, "idle")
         /\ r \in {"queued", "held"} => Service!Move(S, "waiting")
         /\ r = "started" => Service!Move(S, "served")
         /\ r \in RunReports => Service!Move(S, "reported")
         /\ r \in Refusals => Service!Move(S, "refused")
BY DEF LaneInv, PlaceTypes, Answer, ServiceStatus, Service!Move, Lives, Answers, RunReports, Refusals

(* What the abstract status of a request says of its place in the lane. *)
LEMMA StatusPlaces ==
  ASSUME LaneInv
  PROVE  /\ \A s \in Sources : life[s] \in {"queued", "held"} => s \in Service!InStatus("waiting")
         /\ \A s \in Sources : life[s] \in RunReports => ServiceStatus[s] = "reported"
         /\ \A s \in Sources : life[s] \in Refusals => ServiceStatus[s] = "refused"
         /\ \A s \in Sources : life[s] \in {"none", "sending"} => ServiceStatus[s] = "idle"
         /\ Service!InStatus("served") = IF pc = "running" THEN batch ELSE {}
BY DEF LaneInv, PlaceTypes, RequestPlaces, ServiceStatus, Service!InStatus, Lives, Answers, RunReports,
   Refusals

(* A step that leaves every request's abstract status alone. *)
LEMMA StatusStays ==
  ASSUME LaneInv, NEW S \in SUBSET Sources, NEW r \in Lives, Answer(S, r),
         \/ r \in {"none", "sending"} /\ \A s \in S : life[s] \in {"none", "sending"}
         \/ r \in {"queued", "held"} /\ \A s \in S : life[s] \in {"queued", "held"}
  PROVE  UNCHANGED ServiceStatus
BY DEF LaneInv, PlaceTypes, Answer, ServiceStatus, Lives, Answers, RunReports, Refusals

(* A source's step is a step of the service or changes nothing it knows of. *)
LEMMA SourceRefines ==
  ASSUME LaneInv, NEW s \in Sources, SourceStep(s)
  PROVE  \/ Service!Accept(s) \/ Service!RefuseNew(s) \/ Service!Release(s)
         \/ UNCHANGED <<ServiceStatus, shutdown>>
<1> USE DEF Lives, Answers, RunReports, Refusals
<1>1. CASE Trigger(s)
  BY <1>1, StatusStays DEF Trigger, Request
<1>2. CASE Send(s)
  BY <1>2, StatusMoves, StatusPlaces DEF Send, Enqueue, Service!Accept
<1>3. CASE SendStopped(s)
  <2>1. shutdown
    BY <1>3 DEF SendStopped, LaneInv, ReturnsOnlyOnShutdown
  <2> QED BY <1>3, <2>1, StatusMoves, StatusPlaces DEF SendStopped, Service!RefuseNew
<1>4. CASE TakeAnswer(s)
  BY <1>4, StatusMoves, StatusPlaces DEF TakeAnswer, Collect, Service!Release
<1>5. CASE Leave(s)
  BY <1>5, StatusStays DEF Leave, Abandon
<1> QED BY <1>1, <1>2, <1>3, <1>4, <1>5 DEF SourceStep
(* A request moves from the channel into the lane: the service sees nothing. *)
LEMMA HoldingRefines ==
  ASSUME LaneInv, NEW s \in Sources, Receive(s), Answer({s}, "held"), UNCHANGED shutdown
  PROVE  UNCHANGED <<ServiceStatus, shutdown>>
BY ReceiveKeeps, StatusStays DEF Lives

(* A run begins for the sources W, all of which waited for c. *)
LEMMA ServeRefines ==
  ASSUME LaneInv, pc # "running", NEW c \in Configured, NEW W \in SUBSET Sources, W # {},
         \A s \in W : life[s] = "held" /\ CmdOf[s] = c,
         Answer(W, "started"), UNCHANGED shutdown
  PROVE  Service!Serve(c)
<1>1. Service!InStatus("served") = {} /\ W \in SUBSET Service!InStatus("waiting")
  BY StatusPlaces
<1>2. Service!Move(W, "served")
  BY StatusMoves DEF Lives
<1> QED BY <1>1, <1>2 DEF Service!Serve

(* Waiting sources are refused, during shutdown or for an unknown command. *)
LEMMA RefuseRefines ==
  ASSUME LaneInv, NEW W \in SUBSET Sources, NEW r \in Refusals,
         \A s \in W : life[s] \in {"queued", "held"} /\ (shutdown \/ CmdOf[s] \notin Configured),
         Answer(W, r), UNCHANGED shutdown
  PROVE  Service!Refuse \/ UNCHANGED <<ServiceStatus, shutdown>>
<1>1. W \in SUBSET Service!InStatus("waiting")
  BY StatusPlaces
<1>2. Service!Move(W, "refused")
  BY StatusMoves DEF Lives, Answers
<1>3. CASE W = {}
  BY <1>3 DEF Answer, ServiceStatus
<1>4. CASE W # {}
  BY <1>1, <1>2, <1>4 DEF Service!Refuse
<1> QED BY <1>3, <1>4

(* cancel_pending refuses exactly the requests the lane holds. *)
LEMMA CancelRefines ==
  ASSUME LaneInv, NEW p \in {"idle", "cooling", "drain"}, CancelPending(p, batch)
  PROVE  Service!Refuse \/ UNCHANGED <<ServiceStatus, shutdown>>
<1>1. batch \cup AllPending \in SUBSET Sources
  BY DEF LaneInv, PlaceTypes, AllPending
<1>2. \A s \in batch \cup AllPending : life[s] = "held"
  BY LaneAssumption DEF CancelPending, LaneInv, PlaceTypes, RequestPlaces, AllPending, LaneAssumption
<1> QED BY <1>1, <1>2, RefuseRefines DEF CancelPending, Refusals

(* A step of the runner is a step of the service or changes nothing it knows of. *)
LEMMA RunnerRefines ==
  ASSUME LaneInv, RunnerMove
  PROVE  \/ \E c \in Commands : Service!Serve(c)
         \/ Service!Report
         \/ Service!Refuse
         \/ UNCHANGED <<ServiceStatus, shutdown>>
<1>1. CASE Begin \/ NextNone \/ NextCoolDown \/ DrainDone \/ MarkStopped
  BY <1>1 DEF Begin, NextNone, NextCoolDown, DrainDone, GoOn, MarkStopped, ServiceStatus
<1>2. CASE IdleReceive \/ CoolingPush \/ DrainReceive \/ CoolingJoin
  BY <1>2, HoldingRefines DEF IdleReceive, CoolingPush, DrainReceive, CoolingJoin, Push
<1>3. CASE IdleShutdown \/ DrainShutdown
  <2>1. batch = {}
    BY <1>3 DEF IdleShutdown, DrainShutdown, CancelPending, LaneInv, RequestPlaces
  <2> QED BY <1>3, <2>1, CancelRefines DEF IdleShutdown, DrainShutdown
<1>4. CASE CoolingShutdown
  BY <1>4, CancelRefines DEF CoolingShutdown
<1>5. CASE NextUnknown
  <2>1. PICK c \in Commands \ Configured : PopNextCommand(c) /\ Answer(waiters[c], "unknown")
    BY <1>5 DEF NextUnknown
  <2>2. /\ waiters[c] \in SUBSET Sources
        /\ \A s \in waiters[c] : life[s] = "held" /\ CmdOf[s] = c
    BY <2>1 DEF LaneInv, PlaceTypes, RequestPlaces
  <2> QED BY <1>5, <2>1, <2>2, RefuseRefines DEF NextUnknown, Refusals
<1>6. CASE NextRun
  <2>1. PICK c \in Configured : PopNextCommand(c) /\ StartRun(c, waiters[c])
    BY <1>6 DEF NextRun
  <2>2. c \in Commands
    BY LaneAssumption DEF LaneAssumption
  <2>3. /\ waiters[c] \in SUBSET Sources /\ waiters[c] # {}
        /\ \A s \in waiters[c] : life[s] = "held" /\ CmdOf[s] = c
    BY <2>1, <2>2, PopKeeps DEF LaneInv, PlaceTypes, RequestPlaces
  <2> QED BY <1>6, <2>1, <2>2, <2>3, ServeRefines DEF NextRun, StartRun
<1>7. CASE CoolingElapsed
  <2>1. /\ batch \in SUBSET Sources /\ batch # {} /\ command \in Configured
        /\ \A s \in batch : life[s] = "held" /\ CmdOf[s] = command
    BY <1>7 DEF CoolingElapsed, LaneInv, PlaceTypes, RequestPlaces
  <2> QED BY <1>7, <2>1, ServeRefines, LaneAssumption DEF CoolingElapsed, StartRun, LaneAssumption
<1>8. CASE FinishRun
  <2>1. PICK r \in RunReports : Answer(batch, r)
    BY <1>8 DEF FinishRun, EndRun, RunEnds
  <2>2. batch \in SUBSET Sources /\ batch # {} /\ Service!InStatus("served") = batch
    BY <1>8, StatusPlaces DEF FinishRun, EndRun, RunEnds, LaneInv, PlaceTypes, RequestPlaces
  <2>3. Service!Move(batch, "reported")
    BY <2>1, <2>2, StatusMoves DEF Lives, Answers
  <2> QED BY <1>8, <2>2, <2>3 DEF FinishRun, EndRun, RunEnds, Service!Report
<1>9. CASE DropReceiver
  <2>1. shutdown
    BY <1>9 DEF DropReceiver, LaneInv, ReturnsOnlyOnShutdown
  <2> QED BY <1>9, <2>1, RefuseRefines DEF DropReceiver, Refusals
<1> QED BY <1>1, <1>2, <1>3, <1>4, <1>5, <1>6, <1>7, <1>8, <1>9 DEF RunnerMove

(* The lane implements CommandService: single flight, every run fresh for the sources it
   serves, and no refusal before shutdown except of a name nobody configured. *)
THEOREM LaneImplementsService == Safety => ImplementsService
<1>1. Init => Service!ServiceInit
  BY DEF Init, Service!ServiceInit, ServiceStatus
<1>2. ASSUME LaneInv, [Next]_vars
      PROVE  [Service!ServiceNext]_<<ServiceStatus, shutdown>>
  <2>1. CASE RunnerStep
    BY <1>2, <2>1, RunnerRefines DEF RunnerStep, Service!ServiceNext
  <2>2. CASE \E s \in Sources : SourceStep(s)
    BY <1>2, <2>2, SourceRefines DEF Service!ServiceNext
  <2>3. CASE TimePasses
    BY <2>3 DEF TimePasses, ServiceStatus
  <2>4. CASE Shutdown
    BY <2>4 DEF Shutdown, ServiceStatus, Service!ServiceNext, Service!Close
  <2>5. CASE UNCHANGED vars
    BY <2>5 DEF vars, ServiceStatus
  <2> QED BY <1>2, <2>1, <2>2, <2>3, <2>4, <2>5 DEF Next, Terminated
<1> QED BY <1>1, <1>2, LaneInvInductive, PTL
       DEF Safety, ImplementsService, Service!ServiceSafety, Service!svars


(* What one source sees of a step of the service. *)
LEMMA SeenStep ==
  ASSUME NEW s \in Sources, CmdOf \in [Sources -> Commands],
         [Service!ServiceNext]_<<ServiceStatus, shutdown>>
  PROVE  SeenBy(s)!ServiceNext \/ UNCHANGED SeenBy(s)!svars
<1> DEFINE mine == [t \in {s} |-> ServiceStatus[t]]
<1>1. ASSUME NEW S \in SUBSET Sources, NEW x, Service!Move(S, x)
      PROVE  IF s \in S THEN SeenBy(s)!Move({s}, x) ELSE mine' = mine
  BY <1>1 DEF Service!Move, SeenBy!Move, ServiceStatus
<1>2. \A x : SeenBy(s)!InStatus(x) = IF s \in Service!InStatus(x) THEN {s} ELSE {}
  BY DEF SeenBy!InStatus, Service!InStatus
<1>3. \A x : Service!InStatus(x) \in SUBSET Sources
  BY DEF Service!InStatus
<1>4. CASE \E t \in Sources : Service!Accept(t) \/ Service!RefuseNew(t) \/ Service!Release(t)
  <2>1. PICK t \in Sources : Service!Accept(t) \/ Service!RefuseNew(t) \/ Service!Release(t)
    BY <1>4
  <2>2. UNCHANGED shutdown /\ \E x : Service!Move({t}, x)
    BY <2>1 DEF Service!Accept, Service!RefuseNew, Service!Release
  <2>3. CASE t = s
    BY <1>1, <2>1, <2>3 DEF Service!Accept, Service!RefuseNew, Service!Release, SeenBy!Accept,
      SeenBy!RefuseNew, SeenBy!Release, SeenBy!ServiceNext
  <2>4. CASE t # s
    BY <1>1, <2>2, <2>4 DEF SeenBy!svars
  <2> QED BY <2>3, <2>4
<1>5. CASE \E c \in Commands : Service!Serve(c)
  <2>1. PICK c \in Commands : Service!Serve(c)
    BY <1>5
  <2>2. PICK S \in SUBSET Service!InStatus("waiting") :
          S # {} /\ (\A t \in S : CmdOf[t] = c) /\ Service!Move(S, "served")
    BY <2>1 DEF Service!Serve
  <2>3. Service!InStatus("served") = {} /\ c \in Configured /\ UNCHANGED shutdown
    BY <2>1 DEF Service!Serve
  <2>4. CASE s \in S
    <3>1. SeenBy(s)!InStatus("served") = {} /\ {s} \in SUBSET SeenBy(s)!InStatus("waiting")
      BY <1>2, <2>2, <2>3, <2>4
    <3>2. SeenBy(s)!Move({s}, "served") /\ [t \in {s} |-> CmdOf[t]][s] = c
      BY <1>1, <1>3, <2>2, <2>4
    <3>3. SeenBy(s)!Serve(c)
      BY <2>3, <3>1, <3>2 DEF SeenBy!Serve
    <3> QED BY <3>3 DEF SeenBy!ServiceNext
  <2>5. CASE s \notin S
    BY <1>1, <1>3, <2>2, <2>3, <2>5 DEF SeenBy!svars
  <2> QED BY <2>4, <2>5
<1>6. CASE Service!Report
  BY <1>1, <1>2, <1>3, <1>6 DEF Service!Report, SeenBy!Report, SeenBy!ServiceNext, SeenBy!svars
<1>7. CASE Service!Refuse
  <2>1. PICK S \in SUBSET Service!InStatus("waiting") :
          (\A t \in S : shutdown \/ CmdOf[t] \notin Configured) /\ Service!Move(S, "refused")
    BY <1>7 DEF Service!Refuse
  <2>2. UNCHANGED shutdown
    BY <1>7 DEF Service!Refuse
  <2>3. CASE s \in S
    <3>1. {s} \in SUBSET SeenBy(s)!InStatus("waiting") /\ SeenBy(s)!Move({s}, "refused")
      BY <1>1, <1>2, <1>3, <2>1, <2>3
    <3>2. shutdown \/ [t \in {s} |-> CmdOf[t]][s] \notin Configured
      BY <2>1, <2>3
    <3>3. SeenBy(s)!Refuse
      BY <2>2, <3>1, <3>2 DEF SeenBy!Refuse
    <3> QED BY <3>3 DEF SeenBy!ServiceNext
  <2>4. CASE s \notin S
    BY <1>1, <1>3, <2>1, <2>2, <2>4 DEF SeenBy!svars
  <2> QED BY <2>3, <2>4
<1>8. CASE Service!Close
  BY <1>8 DEF Service!Close, SeenBy!Close, SeenBy!ServiceNext
<1>9. CASE UNCHANGED <<ServiceStatus, shutdown>>
  BY <1>9 DEF SeenBy!svars
<1> QED BY <1>4, <1>5, <1>6, <1>7, <1>8, <1>9 DEF Service!ServiceNext

(* Each source can take the lane for its own: the view FsState has of it is justified
   (CommandTrigger::start, lane.rs:95). *)
THEOREM LaneServesEach == Safety => EachSourceServed
<1>1. Init => \A s \in Sources : SeenBy(s)!ServiceInit
  BY DEF Init, SeenBy!ServiceInit, ServiceStatus
<1>2. [Service!ServiceNext]_<<ServiceStatus, shutdown>> =>
        [\A s \in Sources : SeenBy(s)!ServiceNext \/ UNCHANGED SeenBy(s)!svars]_vars
  BY SeenStep, LaneAssumption DEF LaneAssumption
<1> QED BY <1>1, <1>2, LaneImplementsService, PTL
       DEF Safety, EachSourceServed, ImplementsService, Service!ServiceSafety, Service!svars

-----------------------------------------------------------------------------
(* The runners of the sources over the lane.                               *)

(* What an answer to S does to a request: it moves if it is in S, and only then. *)
LEMMA AnswerMoves ==
  ASSUME LaneInv, NEW S, NEW r, Answer(S, r), NEW s \in Sources
  PROVE  life'[s] = IF s \in S THEN r ELSE life[s]
BY DEF Answer

(* What makes a runner's request its only one: it submits with none under way, and it is done with
   the lane once it has returned. *)
Terms ==
  /\ rpc \in [Sources -> RunnerPoints]
  /\ \A s \in Sources :
       /\ s \in left => rpc[s] = "returned"
       /\ rpc[s] \in {"waiting", "quiet"} => life[s] = "none"

(* The lane sends nothing to a source that has not asked. *)
LEMMA LaneMindsItsOwn ==
  ASSUME LaneInv, NEW s \in Sources, life[s] = "none",
         RunnerMove \/ \E t \in Sources : Send(t) \/ SendStopped(t)
  PROVE  life'[s] = "none"
<1>1. CASE \E t \in Sources : Send(t) \/ SendStopped(t)
  BY <1>1, AnswerMoves DEF Send, Enqueue, SendStopped
<1>2. ASSUME NEW t \in Sources, Receive(t), Answer({t}, "held") PROVE life'[s] = "none"
  BY <1>2, ReceiveKeeps, AnswerMoves
<1>3. CASE IdleReceive \/ CoolingPush \/ DrainReceive \/ CoolingJoin
  BY <1>2, <1>3 DEF IdleReceive, CoolingPush, DrainReceive, CoolingJoin, Push
<1>4. s \notin batch \/ pc \notin {"cooling", "running"}
  BY DEF LaneInv, RequestPlaces
<1>5. \A c \in Commands : s \notin waiters[c]
  BY DEF LaneInv, RequestPlaces
<1>6. pc \notin {"cooling", "running"} => batch = {}
  BY DEF LaneInv, RequestPlaces
<1>7. CASE IdleShutdown \/ CoolingShutdown \/ DrainShutdown
  <2>1. Answer(batch \cup AllPending, "cancelled")
    BY <1>6, <1>7 DEF IdleShutdown, CoolingShutdown, DrainShutdown, CancelPending
  <2>2. s \notin batch \cup AllPending
    BY <1>4, <1>5, <1>6 DEF AllPending
  <2> QED BY <2>1, <2>2, AnswerMoves
<1>8. CASE NextUnknown \/ NextRun
  <2>1. PICK c \in Commands, r \in {"unknown", "started"} : Answer(waiters[c], r)
    BY <1>8, LaneAssumption DEF NextUnknown, NextRun, StartRun, LaneAssumption
  <2> QED BY <1>5, <2>1, AnswerMoves
<1>9. CASE CoolingElapsed \/ FinishRun
  <2>1. PICK r : Answer(batch, r)
    BY <1>9 DEF CoolingElapsed, StartRun, FinishRun, EndRun, RunEnds
  <2> QED BY <1>4, <1>6, <2>1, AnswerMoves
<1>10. CASE DropReceiver
  BY <1>10, AnswerMoves DEF DropReceiver
<1>11. CASE Begin \/ NextNone \/ NextCoolDown \/ DrainDone \/ MarkStopped
  BY <1>11 DEF Begin, NextNone, NextCoolDown, DrainDone, GoOn, MarkStopped
<1> QED BY <1>1, <1>3, <1>7, <1>8, <1>9, <1>10, <1>11 DEF RunnerMove

(* Every step of runners and lane keeps the terms, and where they are kept it is one the lane
   allows. *)
LEMMA TermsStep ==
  ASSUME LaneInv, Terms, [PNext]_allVars
  PROVE  Terms' /\ [Next]_vars
<1> USE DEF Terms, RunnerPoints
<1>1. CASE LaneStep
  <2>1. UNCHANGED left
    BY <1>1 DEF LaneStep, RunnerStep, RunnerMove, Begin, IdleReceive, IdleShutdown, NextNone, NextUnknown,
      NextRun, NextCoolDown, CoolingElapsed, CoolingShutdown, CoolingJoin, CoolingPush, FinishRun, EndRun,
      RunEnds, DrainReceive, DrainDone, GoOn, DrainShutdown, CancelPending, DropReceiver, MarkStopped,
      Send, Enqueue, SendStopped
  <2>2. Terms'
    BY <1>1, <2>1, LaneMindsItsOwn DEF LaneStep, RunnerStep
  <2>3. Next
    BY <1>1 DEF LaneStep, Next, SourceStep
  <2> QED BY <2>2, <2>3
<1>2. CASE TimeOrSignal
  BY <1>2 DEF TimeOrSignal, Shutdown, TimePasses, pipeVars, Next
<1>3. ASSUME NEW s \in Sources, QueueEvent(s) \/ WatcherEnds(s) \/ QuietElapses(s)
      PROVE  Terms' /\ [Next]_vars
  BY <1>3 DEF QueueEvent, WatcherEnds, QuietElapses, vars
<1>4. ASSUME NEW s \in Sources, TakeEvent(s) \/ EventsClosed(s) \/ QuietRestarts(s)
      PROVE  Terms' /\ [Next]_vars
  BY <1>4 DEF TakeEvent, EventsClosed, QuietRestarts, vars
<1>5. ASSUME NEW s \in Sources, Submit(s) PROVE Terms' /\ [Next]_vars
  <2>1. s \notin left /\ life[s] = "none"
    BY <1>5 DEF Submit
  <2>2. \A t \in Sources : life'[t] = IF t = s THEN "sending" ELSE life[t]
    BY <1>5, AnswerMoves DEF Submit, Request
  <2>3. Terms'
    BY <1>5, <2>2 DEF Submit, Request
  <2> QED BY <1>5, <2>1, <2>3 DEF Submit, Trigger, Next, SourceStep
<1>6. ASSUME NEW s \in Sources, Finish(s) PROVE Terms' /\ [Next]_vars
  <2>1. s \notin left
    BY <1>6 DEF Finish
  <2>2. \A t \in Sources : life'[t] = IF t = s THEN "none" ELSE life[t]
    BY <1>6, AnswerMoves DEF Finish, Collect
  <2>3. Terms'
    BY <1>6, <2>2 DEF Finish, Collect
  <2> QED BY <1>6, <2>1, <2>3 DEF Finish, TakeAnswer, Next, SourceStep
<1>7. ASSUME NEW s \in Sources, Quit(s) PROVE Terms' /\ [Next]_vars
  <2>1. s \notin left
    BY <1>7 DEF Quit
  <2>2. \A t \in Sources : life[t] = "none" => life'[t] = "none"
    BY <1>7, AnswerMoves DEF Quit, Abandon
  <2>3. Terms'
    BY <1>7, <2>2 DEF Quit, Abandon
  <2> QED BY <1>7, <2>1, <2>3 DEF Quit, Leave, Next, SourceStep
<1>8. CASE PTerminated \/ UNCHANGED allVars
  BY <1>8 DEF PTerminated, allVars, vars, pipeVars
<1> QED BY <1>1, <1>2, <1>3, <1>4, <1>5, <1>6, <1>7, <1>8 DEF PNext, RunnerTask

(* Nothing in a runner's step looks at the lane's books, and yet every step of sources and runners is
   one the lane allows: no second request while one is under way, nothing after the runner has
   returned (run_once, debounce.rs:119). *)
THEOREM RunnersKeepTerms == PSafety => KeepsLaneTerms
<1>1. PInit => Init /\ Terms
  BY DEF PInit, Init, Terms, RunnerPoints
<1>2. Init => LaneInv
  BY LaneInvInductive
<1>3. LaneInv /\ Terms /\ [PNext]_allVars => [Next]_vars /\ LaneInv' /\ Terms'
  BY TermsStep, LaneInvInductive
<1> QED BY <1>1, <1>2, <1>3, PTL DEF PSafety, KeepsLaneTerms, Safety

(* So whatever the runners do, they have what the lane promises: single flight and fresh runs, a
   service each, their turn, and min_interval between runs (DebounceRunner::run, debounce.rs:39). *)
THEOREM RunnersAreServed ==
  PSafety => ImplementsService /\ EachSourceServed /\ ServedInTurn /\ MinIntervalRespected
BY RunnersKeepTerms, LaneImplementsService, LaneServesEach, LaneServesInTurn, LaneMinInterval, PTL
   DEF KeepsLaneTerms

Pending == {"sending", "queued", "held"}

(* A request that is popped is held, and its command is configured. *)
LEMMA PoppedIsHeld ==
  ASSUME LaneInv, NEW c \in Commands, PopNextCommand(c)
  PROVE  /\ c \in Configured
         /\ \A s \in waiters[c] : s \in Sources /\ life[s] = "held"
<1>1. waiters[c] # {} /\ waiters[c] \subseteq Sources
  BY DEF PopNextCommand, LaneInv, PlaceTypes
<1>2. \A s \in waiters[c] : CmdOf[s] = c /\ s \in Sources
  BY <1>1 DEF LaneInv, RequestPlaces
<1>3. c \in Configured
  BY <1>1, <1>2, PipelineAssumption DEF PipelineAssumption
<1> QED BY <1>2, <1>3 DEF LaneInv, RequestPlaces

(* Without shutdown, a request the lane has not begun to serve stays on its way, or its service
   begins; it is answered in no other manner (run, lane.rs:154). *)
LEMMA UnderWay ==
  ASSUME LaneInv, ~shutdown, NEW s \in Sources, life[s] \in Pending,
         RunnerMove \/ \E t \in Sources : Send(t) \/ SendStopped(t)
  PROVE  \/ life'[s] \in Pending
         \/ life[s] = "held" /\ life'[s] = "started"
<1> USE DEF Pending
<1>1. CASE \E t \in Sources : Send(t)
  BY <1>1, AnswerMoves DEF Send, Enqueue
<1>2. CASE \E t \in Sources : SendStopped(t)
  BY <1>2 DEF SendStopped, LaneInv, ReturnsOnlyOnShutdown
<1>3. ASSUME NEW t \in Sources, Push(t) PROVE life'[s] \in Pending
  BY <1>3, AnswerMoves DEF Push
<1>4. CASE IdleReceive \/ CoolingPush \/ DrainReceive
  BY <1>3, <1>4 DEF IdleReceive, CoolingPush, DrainReceive
<1>5. CASE CoolingJoin
  BY <1>5, AnswerMoves DEF CoolingJoin
<1>6. CASE IdleShutdown \/ CoolingShutdown \/ DrainShutdown
  BY <1>6 DEF IdleShutdown, CoolingShutdown, DrainShutdown, CancelPending
<1>7. CASE NextUnknown
  <2>1. PICK c \in Commands \ Configured : PopNextCommand(c)
    BY <1>7 DEF NextUnknown
  <2> QED BY <2>1, PoppedIsHeld
<1>8. CASE NextRun
  <2>1. PICK c \in Configured : PopNextCommand(c) /\ Answer(waiters[c], "started")
    BY <1>8 DEF NextRun, StartRun
  <2> QED BY <2>1, PoppedIsHeld, AnswerMoves, LaneAssumption DEF LaneAssumption
<1>9. CASE CoolingElapsed
  <2>1. Answer(batch, "started") /\ \A t \in batch : t \in Sources => life[t] = "held"
    BY <1>9 DEF CoolingElapsed, StartRun, LaneInv, RequestPlaces
  <2> QED BY <2>1, AnswerMoves
<1>10. CASE FinishRun
  <2>1. s \notin batch
    BY <1>10 DEF FinishRun, EndRun, RunEnds, LaneInv, RequestPlaces
  <2>2. PICK r \in RunReports : Answer(batch, r)
    BY <1>10 DEF FinishRun, EndRun, RunEnds
  <2> QED BY <2>1, <2>2, AnswerMoves
<1>11. CASE DropReceiver
  BY <1>11 DEF DropReceiver, LaneInv, ReturnsOnlyOnShutdown
<1>12. CASE Begin \/ NextNone \/ NextCoolDown \/ DrainDone \/ MarkStopped
  BY <1>12 DEF Begin, NextNone, NextCoolDown, DrainDone, GoOn, MarkStopped
<1> QED BY <1>1, <1>2, <1>4, <1>5, <1>6, <1>7, <1>8, <1>9, <1>10, <1>11, <1>12 DEF RunnerMove

-----------------------------------------------------------------------------

Channels ==
  /\ events \in [Sources -> Nat] /\ rpc \in [Sources -> RunnerPoints]
  /\ dirty \in [Sources -> BOOLEAN]

WakeupInv == Channels /\ NoLostWakeup

(* Every step keeps every wake-up. *)
LEMMA WakeupStep ==
  ASSUME LaneInv, WakeupInv, [PNext]_allVars
  PROVE  WakeupInv'
<1> USE PipelineAssumption DEF WakeupInv, Channels, NoLostWakeup, RunnerPoints
<1>1. CASE LaneStep
  <2> SUFFICES ASSUME NEW s \in Sources, dirty'[s], ~shutdown'
               PROVE  \/ events'[s] > 0
                      \/ rpc'[s] = "quiet"
                      \/ rpc'[s] = "await" /\ life'[s] \in {"sending", "queued", "held"}
    BY <1>1 DEF LaneStep
  <2>1. UNCHANGED shutdown
    BY <1>1 DEF LaneStep, RunnerStep, RunnerMove, Begin, IdleReceive, IdleShutdown, NextNone, NextUnknown,
      NextRun,
      NextCoolDown, CoolingElapsed, CoolingShutdown, CoolingJoin, CoolingPush, FinishRun, EndRun, RunEnds,
      DrainReceive, DrainDone, GoOn, DrainShutdown, CancelPending, DropReceiver, MarkStopped, Send,
      Enqueue, SendStopped
  <2>2. dirty[s] /\ ~shutdown /\ ~(life[s] = "held" /\ life'[s] = "started")
    BY <1>1, <2>1 DEF LaneStep
  <2>3. CASE events[s] > 0 \/ rpc[s] = "quiet"
    BY <1>1, <2>3 DEF LaneStep
  <2>4. CASE rpc[s] = "await" /\ life[s] \in {"sending", "queued", "held"}
    BY <1>1, <2>2, <2>4, UnderWay DEF LaneStep, RunnerStep, Pending
  <2> QED BY <2>2, <2>3, <2>4
<1>2. CASE TimeOrSignal
  BY <1>2 DEF TimeOrSignal, Shutdown, TimePasses, pipeVars
<1>3. ASSUME NEW s \in Sources, QueueEvent(s) PROVE WakeupInv'
  BY <1>3 DEF QueueEvent, vars
<1>4. ASSUME NEW s \in Sources, WatcherEnds(s) \/ QuietElapses(s) PROVE WakeupInv'
  BY <1>4 DEF WatcherEnds, QuietElapses, vars
<1>5. ASSUME NEW s \in Sources, TakeEvent(s) \/ EventsClosed(s) \/ QuietRestarts(s) PROVE WakeupInv'
  BY <1>5 DEF TakeEvent, EventsClosed, QuietRestarts, vars
<1>6. ASSUME NEW s \in Sources, Submit(s) PROVE WakeupInv'
  <2>1. \A t \in Sources : life'[t] = IF t = s THEN "sending" ELSE life[t]
    BY <1>6, AnswerMoves DEF Submit, Request
  <2> QED BY <1>6, <2>1 DEF Submit, Request
<1>7. ASSUME NEW s \in Sources, Finish(s) PROVE WakeupInv'
  <2>1. life[s] \notin {"sending", "queued", "held"}
    BY <1>7 DEF Finish, Collect, Answers, RunReports, Refusals
  <2>2. \A t \in Sources : t # s => life'[t] = life[t]
    BY <1>7, AnswerMoves DEF Finish, Collect
  <2> QED BY <1>7, <2>1, <2>2 DEF Finish, Collect
<1>8. ASSUME NEW s \in Sources, Quit(s) PROVE WakeupInv'
  BY <1>8 DEF Quit, Abandon
<1>9. CASE PTerminated \/ UNCHANGED allVars
  BY <1>9 DEF PTerminated, allVars, vars, pipeVars
<1> QED BY <1>1, <1>2, <1>3, <1>4, <1>5, <1>6, <1>7, <1>8, <1>9 DEF PNext, RunnerTask

(* No event is forgotten between try_send and the start of a run, whatever the runners drain
   (debounce.rs:70), for any sources, commands and capacities. *)
THEOREM NoWakeupIsLost == PSafety => []NoLostWakeup
<1>1. PInit => WakeupInv
  BY DEF PInit, WakeupInv, Channels, NoLostWakeup, RunnerPoints
<1>2. PSafety => []LaneInv
  BY RunnersKeepTerms, LaneInvInductive, PTL DEF KeepsLaneTerms, Safety
<1>3. WakeupInv => NoLostWakeup
  BY DEF WakeupInv
<1> QED BY <1>1, <1>2, <1>3, WakeupStep, PTL DEF PSafety

-----------------------------------------------------------------------------

RunnerTypes ==
  /\ events \in [Sources -> 0..EventCap]
  /\ open \in [Sources -> BOOLEAN] /\ settled \in [Sources -> BOOLEAN]
  /\ rpc \in [Sources -> RunnerPoints]
  /\ dirty \in [Sources -> BOOLEAN]

(* No step takes an event channel beyond its capacity, or a runner to a place it does not know. *)
LEMMA RunnerTypeStep ==
  ASSUME RunnerTypes, [PNext]_allVars
  PROVE  RunnerTypes'
<1> USE PipelineAssumption DEF PipelineAssumption, RunnerTypes, RunnerPoints
<1>1. CASE LaneStep
  BY <1>1 DEF LaneStep
<1>2. CASE TimeOrSignal
  BY <1>2 DEF TimeOrSignal, pipeVars
<1>3. ASSUME NEW s \in Sources, QueueEvent(s) PROVE RunnerTypes'
  BY <1>3 DEF QueueEvent
<1>4. ASSUME NEW s \in Sources, WatcherEnds(s) \/ QuietElapses(s) PROVE RunnerTypes'
  BY <1>4 DEF WatcherEnds, QuietElapses
<1>5. ASSUME NEW s \in Sources, TakeEvent(s) \/ EventsClosed(s) \/ QuietRestarts(s) PROVE RunnerTypes'
  <2>1. events[s] > 0 => events[s] - 1 \in 0..EventCap
    OBVIOUS
  <2>2. CASE TakeEvent(s)
    <3> DEFINE n == events[s] - 1
    <3>1. n \in 0..EventCap /\ events' = [events EXCEPT ![s] = n]
      BY <2>1, <2>2 DEF TakeEvent
    <3> HIDE DEF n
    <3>2. events' \in [Sources -> 0..EventCap]
      BY <3>1
    <3> QED BY <2>2, <3>2 DEF TakeEvent
  <2>3. CASE EventsClosed(s) \/ QuietRestarts(s)
    BY <2>1, <2>3 DEF EventsClosed, QuietRestarts
  <2> QED BY <1>5, <2>2, <2>3
<1>6. ASSUME NEW s \in Sources, Submit(s) PROVE RunnerTypes'
  BY <1>6 DEF Submit
<1>7. ASSUME NEW s \in Sources, Finish(s) \/ Quit(s) PROVE RunnerTypes'
  BY <1>7 DEF Finish, Quit
<1>8. CASE PTerminated \/ UNCHANGED allVars
  BY <1>8 DEF PTerminated, allVars, pipeVars
<1> QED BY <1>1, <1>2, <1>3, <1>4, <1>5, <1>6, <1>7, <1>8 DEF PNext, RunnerTask

(* Lane and runners keep their types together; the drop of an event into a full channel keeps the
   channel within its bound, for any bound (DebounceRunner, debounce.rs:70). *)
THEOREM PipelineTypeCorrect == PSafety => []PTypeOK
<1>1. PInit => RunnerTypes
  BY PipelineAssumption DEF PipelineAssumption, PInit, RunnerTypes, RunnerPoints
<1>2. PSafety => []TypeOK
  BY RunnersKeepTerms, LaneTypeCorrect, PTL DEF KeepsLaneTerms
<1>3. TypeOK /\ RunnerTypes => PTypeOK
  BY DEF RunnerTypes, PTypeOK
<1> QED BY <1>1, <1>2, <1>3, RunnerTypeStep, PTL DEF PSafety
=============================================================================

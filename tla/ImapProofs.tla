----------------------------- MODULE ImapProofs ------------------------------
(***************************************************************************)
(* What an imap_idle source keeps whatever happens to its sessions, for    *)
(* any number of changes and faults: it reports its state honestly in      *)
(* every world, and in the tame one it misses no change.                   *)
(*                                                                         *)
(* The second is not inductive.  It needs what can be under way between    *)
(* server and client at each await (Shape): in the tame world the answer   *)
(* to IDLE finds no report before it that would be passed over.  And it    *)
(* needs what holds before the first IDLE of all (Baseline): a change      *)
(* after the snapshot is still to be reported.                             *)
(***************************************************************************)
EXTENDS ImapWatcher, SequenceTheorems, TLAPS

Early == {"head", "connect", "auth", "examine", "backoff", "stopped", "failed"}

Flags ==
  /\ pc \in Points /\ ready \in {"nothing", "ok", "failed"}
  /\ established \in BOOLEAN /\ connectedOnce \in BOOLEAN
  /\ pc \in Early => ~established
  /\ pc \in {"idling", "done", "leaving"} => established

HonestInv == Flags /\ ImapReportsHonestly

(* Every step keeps what is reported in line with the session. *)
LEMMA HonestStep ==
  ASSUME HonestInv, [Next]_vars
  PROVE  HonestInv'
<1> USE DEF HonestInv, Flags, ImapReportsHonestly, Early, Points, Waiting
<1>1. CASE Change \/ ServerStep \/ EndIdle \/ ServerDies \/ Resume \/ Shutdown \/ Act
  BY <1>1 DEF Change, ServerStep, AnswerExamine, AnswerIdle, Report, AnswerDone, EndIdle, ServerDies,
    Resume, Shutdown, Act, session, report
<1>2. CASE LoopHead \/ Stop \/ BackoffOver
  BY <1>2 DEF LoopHead, Stop, BackoffOver, session, report
<1>3. CASE Connect \/ Authenticate
  BY <1>3 DEF Connect, Authenticate, session, report
<1>4. CASE SessionFails \/ AuthFails
  BY <1>4 DEF SessionFails, AuthFails, DropSession
<1>5. CASE SeeResume \/ Leave
  BY <1>5 DEF SeeResume, Leave, DropSession, report
<1>6. CASE ReadExamine \/ PassOver \/ ServerEndedIdle
  BY <1>6 DEF ReadExamine, PassOver, ServerEndedIdle, EnterIdle, session, report
<1>7. CASE IdleStarted
  BY <1>7 DEF IdleStarted
<1>8. CASE ReadChange \/ ReadLate \/ IdleDone
  BY <1>8 DEF ReadChange, ReadLate, IdleDone, EnterIdle, report
<1>9. CASE ReadHalf \/ Refresh \/ IdleShutdown
  BY <1>9 DEF ReadHalf, Refresh, IdleShutdown, FinishIdle, report
<1>10. CASE Terminated \/ UNCHANGED vars
  BY <1>10 DEF Terminated, vars, session, report
<1> QED
  BY <1>1, <1>2, <1>3, <1>4, <1>5, <1>6, <1>7, <1>8, <1>9, <1>10 DEF Next, LoopStep, ReadStep

(* The phase and what start-up is told are true to the session, whatever drops it (imap.rs:136). *)
THEOREM ImapIsHonest == Spec => []ImapReportsHonestly
<1>1. Init => HonestInv
  BY DEF Init, HonestInv, Flags, ImapReportsHonestly, Early, Points, Waiting
<1>2. HonestInv => ImapReportsHonestly
  BY DEF HonestInv
<1> QED BY <1>1, <1>2, HonestStep, PTL DEF Spec, Safety

-----------------------------------------------------------------------------
(* The lines of the tame world.                                            *)

Reports == Seq({"change"})
Has(q) == \E i \in 1 .. Len(q) : q[i] = "change"

(* What an IDLE may leave to be read: reports, and its completion once the server has ended it. *)
Body(at, q) ==
  \/ at = "idle" /\ q \in Reports
  \/ at = "selected" /\ \E r \in Reports : q = Append(r, "ok")

(* What it means for the end of a line of them to be added. *)
LEMMA AddLine ==
  ASSUME NEW q \in Seq(Lines), NEW x \in Lines
  PROVE  /\ Append(q, x) \in Seq(Lines) /\ Append(q, x) # <<>>
         /\ Has(Append(q, x)) <=> Has(q) \/ x = "change"
         /\ q # <<>> => /\ Head(Append(q, x)) = Head(q)
                        /\ Tail(Append(q, x)) = Append(Tail(q), x)
         /\ q = <<>> => Head(Append(q, x)) = x /\ Tail(Append(q, x)) = <<>>
<1>1. /\ Len(Append(q, x)) = Len(q) + 1 /\ Append(q, x)[Len(q) + 1] = x /\ Len(q) \in Nat
      /\ \A i \in 1 .. Len(q) : Append(q, x)[i] = q[i]
  BY AppendProperties, LenProperties
<1>2. Has(Append(q, x)) <=> Has(q) \/ x = "change"
  BY <1>1 DEF Has
<1> QED BY <1>1, <1>2, AppendProperties

LEMMA TakeALine ==
  ASSUME NEW q \in Seq(Lines), q # <<>>
  PROVE  /\ Tail(q) \in Seq(Lines) /\ Head(q) \in Lines
         /\ Has(q) <=> Head(q) = "change" \/ Has(Tail(q))
<1>1. /\ Len(q) \in Nat \ {0} /\ Tail(q) \in Seq(Lines) /\ Len(Tail(q)) = Len(q) - 1
      /\ Head(q) = q[1] /\ \A i \in 1 .. Len(Tail(q)) : Tail(q)[i] = q[i + 1]
      /\ Head(q) \in Lines
  BY HeadTailProperties, LenProperties, EmptySeq
<1>2. ASSUME Has(q), Head(q) # "change" PROVE Has(Tail(q))
  <2>1. PICK i \in 1 .. Len(q) : q[i] = "change"
    BY <1>2 DEF Has
  <2>2. i - 1 \in 1 .. Len(Tail(q)) /\ Tail(q)[i - 1] = "change"
    BY <1>1, <1>2, <2>1
  <2> QED BY <2>2 DEF Has
<1>3. ASSUME Has(Tail(q)) PROVE Has(q)
  <2>1. PICK i \in 1 .. Len(Tail(q)) : Tail(q)[i] = "change"
    BY <1>3 DEF Has
  <2>2. i + 1 \in 1 .. Len(q) /\ q[i + 1] = "change"
    BY <1>1, <2>1
  <2> QED BY <2>2 DEF Has
<1>4. Head(q) = "change" => Has(q)
  BY <1>1 DEF Has
<1> QED BY <1>1, <1>2, <1>3, <1>4

LEMMA ReportsAreLines ==
  ASSUME NEW q \in Reports
  PROVE  /\ q \in Seq(Lines) /\ Append(q, "change") \in Reports
         /\ q # <<>> => Head(q) = "change" /\ Tail(q) \in Reports
BY HeadTailProperties, AppendProperties DEF Reports, Lines

(* A change before the acknowledgement of EXAMINE. *)
LEMMA TwoLines ==
  Head(<<"change", "ok">>) = "change" /\ Tail(<<"change", "ok">>) = <<"ok">>
<1> DEFINE one == <<"change">>
<1>1. <<"change", "ok">> = Append(one, "ok") /\ <<"ok">> = Append(<<>>, "ok")
  OBVIOUS
<1>2. one = Append(<<>>, "change") /\ {"change", "ok"} \subseteq Lines
  BY DEF Lines
<1>3. one \in Seq(Lines) /\ one # <<>> /\ Head(one) = "change" /\ Tail(one) = <<>>
  BY <1>2, EmptySeq, AddLine
<1> HIDE DEF one
<1>4. "ok" \in Lines
  BY <1>2
<1>5. Head(Append(one, "ok")) = Head(one) /\ Tail(Append(one, "ok")) = Append(Tail(one), "ok")
  BY <1>3, <1>4, AddLine
<1> QED BY <1>1, <1>3, <1>5

(* Reading the first line of a body. *)
LEMMA BodyTail ==
  ASSUME NEW q, NEW at, Body(at, q)
  PROVE  /\ q \in Seq(Lines)
         /\ q # <<>> /\ Head(q) = "change" => Body(at, Tail(q))
         /\ q # <<>> /\ Head(q) = "ok" => at = "selected" /\ Tail(q) = <<>> /\ ~Has(q)
         /\ q # <<>> => Head(q) \in {"change", "ok"}
<1>1. CASE at = "idle" /\ q \in Reports
  BY <1>1, ReportsAreLines DEF Body
<1>2. CASE at = "selected" /\ \E r \in Reports : q = Append(r, "ok")
  <2>1. PICK r \in Reports : q = Append(r, "ok")
    BY <1>2
  <2>2. r \in Seq(Lines) /\ "ok" \in Lines
    BY ReportsAreLines DEF Lines
  <2>3. CASE r = <<>>
    <3>1. ~Has(r)
      BY <2>3 DEF Has
    <3> QED BY <1>2, <2>1, <2>2, <2>3, <3>1, AddLine
  <2>4. CASE r # <<>>
    <3>1. /\ q \in Seq(Lines) /\ q # <<>> /\ Head(q) = "change"
          /\ Tail(q) = Append(Tail(r), "ok") /\ Tail(r) \in Reports
      BY <2>1, <2>2, <2>4, AddLine, ReportsAreLines
    <3>2. Body(at, Tail(q))
      BY <1>2, <3>1 DEF Body
    <3> QED BY <3>1, <3>2
  <2> QED BY <2>3, <2>4
<1> QED BY <1>1, <1>2 DEF Body

(* What the server adds while IDLE. *)
LEMMA BodyGrows ==
  ASSUME NEW q, Body("idle", q)
  PROVE  /\ q \in Seq(Lines)
         /\ Body("idle", Append(q, "change")) /\ Has(Append(q, "change"))
         /\ Body("selected", Append(q, "ok")) /\ (Has(q) => Has(Append(q, "ok")))
         /\ q \o <<"ok">> = Append(q, "ok")
         /\ Body("selected", q \o <<"change", "ok">>) /\ Has(q \o <<"change", "ok">>)
<1>1. q \in Reports /\ q \in Seq(Lines) /\ Append(q, "change") \in Reports
  BY ReportsAreLines DEF Body
<1>2. {"change", "ok"} \subseteq Lines
  BY DEF Lines
<1>3. q \o <<"ok">> = Append(q, "ok")
  BY <1>1
<1>4. q \o <<"change", "ok">> = Append(Append(q, "change"), "ok")
  BY <1>1
<1>5. /\ Append(q, "change") \in Seq(Lines)
      /\ Has(Append(q, "change")) /\ (Has(q) => Has(Append(q, "ok")))
  BY <1>1, <1>2, AddLine
<1>6. Has(Append(Append(q, "change"), "ok"))
  BY <1>2, <1>5, AddLine
<1>7. Body("idle", Append(q, "change")) /\ Body("selected", Append(q, "ok"))
  BY <1>1 DEF Body
<1>8. Body("selected", Append(Append(q, "change"), "ok"))
  BY <1>1 DEF Body
<1> QED BY <1>1, <1>3, <1>4, <1>5, <1>6, <1>7, <1>8

-----------------------------------------------------------------------------
(* The tame world.                                                         *)

Bare == srv = "none" /\ cmd = "none" /\ pipe = <<>> /\ ~pending

(* What is under way at each await, unless the connection is dead. *)
Shape ==
  /\ pc \in {"head", "connect", "backoff", "stopped", "failed"} => Bare
  /\ pc = "auth" /\ srv # "dead" => srv = "auth" /\ cmd = "none" /\ pipe = <<>> /\ ~pending
  /\ pc = "examine" /\ srv # "dead" =>
       \/ srv = "auth" /\ cmd = "EXAMINE" /\ pipe = <<>> /\ ~pending
       \/ srv = "selected" /\ cmd = "none" /\ pipe \in {<<"change", "ok">>, <<"ok">>}
  /\ pc = "continuation" /\ srv # "dead" =>
       \/ srv = "selected" /\ cmd = "IDLE" /\ pipe = <<>>
       \/ /\ cmd = "none" /\ pipe \in Seq(Lines) /\ pipe # <<>>
          /\ Head(pipe) = "cont" /\ Body(srv, Tail(pipe))
  /\ pc = "idling" /\ srv # "dead" => cmd = "none" /\ Body(srv, pipe)
  /\ pc \in {"done", "leaving"} /\ srv # "dead" =>
       /\ cmd \in {"none", "DONE"} /\ (srv = "idle" => cmd = "DONE")
       /\ Body(srv, pipe)

(* Before the first IDLE: a change the snapshot does not show is still to be reported. *)
Baseline ==
  ready = "nothing" /\ srv \in {"selected", "idle"} =>
    acted = changes \/ pending \/ (pc = "continuation" /\ Has(pipe))

NothingOpen ==
  established /\ srv # "dead" => acted = changes \/ queued \/ pending \/ Has(pipe)

TameInv ==
  /\ world = {} /\ ~half /\ (told => queued)
  /\ Shape /\ Baseline /\ NothingOpen

LEMMA TameNoticed == ASSUME TameInv, HonestInv PROVE NothingPassedOver
<1> SUFFICES ASSUME established, srv # "dead", Has(pipe) PROVE "change" \in Range(pipe)
  BY DEF TameInv, NothingOpen, NothingPassedOver
<1>1. pc \in {"continuation", "idling", "done", "leaving"}
  BY DEF HonestInv, Flags, Early, Points, Waiting
<1>2. pipe \in Seq(Lines)
  BY <1>1, BodyTail, EmptySeq DEF TameInv, Shape
<1> QED BY <1>2, LenProperties DEF Has, Range

(* A session that is over leaves nothing behind. *)
LEMMA DropTame ==
  ASSUME TameInv, DropSession, UNCHANGED <<world, queued>>,
         pc' \in {"head", "backoff", "stopped", "failed"}
  PROVE  TameInv'
BY DEF DropSession, TameInv, Shape, Bare, Baseline, NothingOpen


(* Steps of the server and of the surroundings.  A report is added to what is to be read. *)
LEMMA ServerTame ==
  ASSUME TameInv, HonestInv,
         Change \/ ServerStep \/ EndIdle \/ ServerDies \/ Resume \/ Shutdown \/ Act
  PROVE  TameInv'
<1> USE DEF TameInv
<1>0. /\ pc \in {"head", "connect", "auth", "examine", "backoff", "stopped", "failed",
                  "continuation", "idling", "done", "leaving"}
      /\ established => pc \in {"continuation", "idling", "done", "leaving"}
  BY DEF HonestInv, Flags, Early, Points, Waiting
<1>1. srv = "idle" /\ cmd = "none" => pc \in {"continuation", "idling"}
  BY <1>0 DEF Shape, Bare
<1>2. srv = "idle" => pc \in {"continuation", "idling", "done", "leaving"}
  BY <1>0 DEF Shape, Bare
<1>3. CASE Change
  <2>1. established /\ srv # "dead" => srv \in {"selected", "idle"}
    BY <1>0 DEF Shape, Body
  <2> QED BY <1>3, <2>1 DEF Change, session, others, Shape, Bare, Baseline, NothingOpen
<1>4. CASE AnswerExamine
  <2>1. pc = "examine" /\ pipe = <<>>
    BY <1>0, <1>4 DEF AnswerExamine, Shape, Bare
  <2>2. pipe' = <<"change", "ok">>
    BY <1>4, <2>1 DEF AnswerExamine
  <2> QED BY <1>0, <1>4, <2>1, <2>2
    DEF AnswerExamine, session, report, others, Shape, Bare, Baseline, NothingOpen, HonestInv,
    ImapReportsHonestly, Flags
<1>5. CASE AnswerIdle
  <2>1. pc = "continuation" /\ pipe = <<>>
    BY <1>0, <1>5 DEF AnswerIdle, Shape, Bare, Body
  <2>2. /\ pipe' \in Seq(Lines) /\ pipe' # <<>>
        /\ Head(pipe') = "cont" /\ Tail(pipe') = <<>> /\ ~Has(pipe)
    BY <1>5, <2>1, AddLine, EmptySeq DEF AnswerIdle, Lines, Has
  <2>3. <<>> \in Reports
    BY EmptySeq DEF Reports
  <2> QED BY <1>5, <2>1, <2>2, <2>3
    DEF AnswerIdle, session, report, others, Shape, Body, Bare, Baseline, NothingOpen
<1>6. CASE Report
  <2>1. srv = "idle" /\ pipe' = Append(pipe, "change") /\ UNCHANGED <<srv, cmd, pc>>
    BY <1>6 DEF Report
  <2>2. CASE pc = "continuation"
    <3>1. pipe \in Seq(Lines) /\ pipe # <<>> /\ Head(pipe) = "cont" /\ Body("idle", Tail(pipe))
      BY <2>1, <2>2 DEF Shape
    <3>2. /\ pipe' \in Seq(Lines) /\ pipe' # <<>> /\ Head(pipe') = "cont"
          /\ Tail(pipe') = Append(Tail(pipe), "change") /\ Has(pipe')
      BY <2>1, <3>1, AddLine DEF Lines
    <3>3. Body("idle", Tail(pipe'))
      BY <3>1, <3>2, BodyGrows
    <3> QED BY <1>6, <2>1, <2>2, <3>1, <3>2, <3>3
      DEF Report, session, report, others, Shape, Baseline, NothingOpen
  <2>3. CASE pc # "continuation"
    <3>1. Body("idle", pipe') /\ Has(pipe')
      BY <1>2, <2>1, <2>3, BodyGrows DEF Shape
    <3>2. ready # "nothing"
      BY <1>2, <2>1, <2>3 DEF HonestInv, Flags, ImapReportsHonestly
    <3> QED BY <1>2, <1>6, <2>1, <2>3, <3>1, <3>2
      DEF Report, session, report, others, Shape, Baseline, NothingOpen
  <2> QED BY <2>2, <2>3
<1>7. CASE AnswerDone
  <2>1. pc \in {"done", "leaving"} /\ Body("idle", pipe)
    BY <1>2, <1>7 DEF AnswerDone, Shape
  <2>2. CASE pending
    <3>1. pipe' = pipe \o <<"change", "ok">>
      BY <1>7, <2>2 DEF AnswerDone
    <3>2. Body("selected", pipe') /\ Has(pipe')
      BY <2>1, <3>1, BodyGrows
    <3>3. ready # "nothing"
      BY <2>1 DEF HonestInv, Flags, ImapReportsHonestly
    <3> QED BY <1>7, <2>1, <3>2, <3>3
      DEF AnswerDone, session, report, others, Shape, Baseline, NothingOpen
  <2>3. CASE ~pending
    <3>1. pipe' = pipe \o <<"ok">>
      BY <1>7, <2>3 DEF AnswerDone
    <3> QED BY <1>7, <2>1, <2>3, <3>1, BodyGrows
      DEF AnswerDone, session, report, others, Shape, Baseline, NothingOpen
  <2> QED BY <2>2, <2>3
<1>8. CASE EndIdle
  <2>1. /\ srv = "idle" /\ srv' = "selected" /\ pipe' = Append(pipe, "ok") /\ cmd = "none"
        /\ UNCHANGED <<cmd, pc>>
    BY <1>8 DEF EndIdle
  <2>2. CASE pc = "continuation"
    <3>1. pipe \in Seq(Lines) /\ pipe # <<>> /\ Head(pipe) = "cont" /\ Body("idle", Tail(pipe))
      BY <2>1, <2>2 DEF Shape
    <3>2. /\ pipe' \in Seq(Lines) /\ pipe' # <<>> /\ Head(pipe') = "cont"
          /\ Tail(pipe') = Append(Tail(pipe), "ok") /\ (Has(pipe) => Has(pipe'))
      BY <2>1, <3>1, AddLine DEF Lines
    <3>3. Body("selected", Tail(pipe'))
      BY <3>1, <3>2, BodyGrows
    <3> QED BY <1>8, <2>1, <2>2, <3>2, <3>3
      DEF EndIdle, session, report, Shape, Baseline, NothingOpen
  <2>3. CASE pc = "idling"
    <3>1. Body("selected", pipe') /\ (Has(pipe) => Has(pipe'))
      BY <2>1, <2>3, BodyGrows DEF Shape
    <3> QED BY <1>8, <2>1, <2>3, <3>1 DEF EndIdle, session, report, Shape, Baseline, NothingOpen
  <2> QED BY <1>1, <2>1, <2>2, <2>3
<1>9. CASE ServerDies
  BY <1>0, <1>9 DEF ServerDies, session, Shape, Bare, Baseline, NothingOpen
<1>10. CASE Resume \/ Shutdown
  BY <1>10 DEF Resume, Shutdown, server, session, report, Shape, Bare, Baseline, NothingOpen
<1>11. CASE Act
  BY <1>11 DEF Act, server, session, others, Shape, Bare, Baseline, NothingOpen
<1> QED BY <1>3, <1>4, <1>5, <1>6, <1>7, <1>8, <1>9, <1>10, <1>11 DEF ServerStep

(* Steps of the watcher.  It passes over no report, and reads each with an event queued. *)
LEMMA WatcherTame ==
  ASSUME TameInv, HonestInv,
         \/ LoopStep \/ SessionFails \/ AuthFails \/ SeeResume
         \/ ReadStep \/ ReadHalf \/ Refresh \/ IdleShutdown
  PROVE  TameInv'
<1> USE DEF TameInv
<1>1. CASE LoopHead \/ Stop \/ BackoffOver
  BY <1>1 DEF LoopHead, Stop, BackoffOver, server, session, others, Shape, Bare, Baseline,
    NothingOpen
<1>2. CASE Leave
  BY <1>2, DropTame DEF Leave, others
<1>3. CASE SessionFails
  BY <1>3, DropTame DEF SessionFails
<1>4. CASE AuthFails
  BY <1>4, DropTame DEF AuthFails
<1>5. CASE SeeResume
  BY <1>5, DropTame DEF SeeResume
<1>6. CASE Connect
  BY <1>6 DEF Connect, session, report, others, Shape, Bare, Baseline, NothingOpen
<1>7. CASE Authenticate
  BY <1>7 DEF Authenticate, session, report, others, Shape, Baseline, NothingOpen
<1>8. CASE ReadExamine
  <2>1. ~established
    BY <1>8 DEF ReadExamine, HonestInv, Flags, Early
  <2>2. CASE srv = "dead"
    BY <1>8, <2>1, <2>2 DEF ReadExamine, TakeLine, NextLine, EnterIdle, session, report, others, Shape,
      Baseline, NothingOpen
  <2>3. CASE srv # "dead"
    <3>1. srv = "selected" /\ cmd = "none" /\ pipe \in {<<"change", "ok">>, <<"ok">>}
      BY <1>8, <2>3 DEF ReadExamine, TakeLine, Shape
    <3>2. \/ Head(pipe) = "change" /\ Tail(pipe) = <<"ok">>
          \/ Head(pipe) = "ok" /\ Tail(pipe) = <<>>
      <4>1. CASE pipe = <<"change", "ok">>
        BY <4>1, TwoLines
      <4>2. CASE pipe = <<"ok">>
        BY <4>2
      <4> QED BY <3>1, <4>1, <4>2
    <3> QED BY <1>8, <2>1, <3>1, <3>2
      DEF ReadExamine, TakeLine, NextLine, EnterIdle, session, report, others, Shape, Baseline, NothingOpen
  <2> QED BY <2>2, <2>3
<1>9. CASE PassOver
  <2>1. srv = "dead"
    BY <1>9 DEF PassOver, TakeLine, NextLine, Shape
  <2> QED BY <1>9, <2>1 DEF PassOver, session, report, others, Shape, Baseline, NothingOpen
<1>10. CASE IdleStarted
  <2>1. CASE srv = "dead"
    BY <1>10, <2>1 DEF IdleStarted, others, Shape, Baseline, NothingOpen
  <2>2. CASE srv # "dead"
    <3>1. /\ cmd = "none" /\ Body(srv, Tail(pipe)) /\ pipe' = Tail(pipe)
          /\ pipe \in Seq(Lines) /\ pipe # <<>> /\ Head(pipe) = "cont"
      BY <1>10, <2>2 DEF IdleStarted, TakeLine, Shape
    <3>2. Has(pipe) <=> Has(pipe')
      BY <3>1, TakeALine
    <3>3. srv \in {"selected", "idle"}
      BY <3>1 DEF Body
    <3>4. acted = changes \/ queued' \/ pending \/ Has(pipe)
      BY <1>10, <2>2, <3>3 DEF IdleStarted, Baseline, NothingOpen, HonestInv, Flags, ImapReportsHonestly
    <3> QED BY <1>10, <3>1, <3>2, <3>4
      DEF IdleStarted, others, Shape, Baseline, NothingOpen
  <2> QED BY <2>1, <2>2
<1>11. CASE ReadChange
  <2>1. srv # "dead" => Body(srv, pipe')
    BY <1>11, BodyTail DEF ReadChange, TakeLine, NextLine, Shape
  <2>2. ready # "nothing"
    BY <1>11 DEF ReadChange, HonestInv, Flags, ImapReportsHonestly
  <2> QED BY <1>11, <2>1, <2>2 DEF ReadChange, others, Shape, Baseline, NothingOpen
<1>12. CASE ServerEndedIdle \/ IdleDone
  <2>1. srv # "dead" => srv = "selected" /\ pipe' = <<>> /\ ~Has(pipe)
    BY <1>12, BodyTail DEF ServerEndedIdle, IdleDone, TakeLine, NextLine, Shape
  <2>2. ready # "nothing"
    BY <1>12 DEF ServerEndedIdle, IdleDone, HonestInv, Flags, ImapReportsHonestly
  <2> QED BY <1>12, <2>1, <2>2
    DEF ServerEndedIdle, IdleDone, EnterIdle, session, report, others, Shape, Baseline, NothingOpen
<1>13. CASE ReadLate
  <2>1. srv # "dead" => NextLine = "change" /\ Body(srv, pipe')
    BY <1>13, BodyTail DEF ReadLate, TakeLine, NextLine, Shape
  <2>2. ready # "nothing"
    BY <1>13 DEF ReadLate, HonestInv, Flags, ImapReportsHonestly
  <2> QED BY <1>13, <2>1, <2>2 DEF ReadLate, report, others, Shape, Baseline, NothingOpen
<1>14. CASE ReadHalf
  BY <1>14 DEF ReadHalf
<1>15. CASE Refresh \/ IdleShutdown
  <2>1. ready # "nothing"
    BY <1>15 DEF Refresh, IdleShutdown, FinishIdle, HonestInv, Flags, ImapReportsHonestly
  <2> QED BY <1>15, <2>1
    DEF Refresh, IdleShutdown, FinishIdle, report, others, Shape, Baseline, NothingOpen
<1> QED
  BY <1>1, <1>2, <1>3, <1>4, <1>5, <1>6, <1>7, <1>8, <1>9, <1>10, <1>11, <1>12, <1>13, <1>14, <1>15
  DEF LoopStep, ReadStep

(* With a server that reports in whole lines and only while IDLE, no change of the mailbox is lost,
   through refreshes, failures, dead connections and resumes (idle_forever, imap.rs:425). *)
THEOREM ImapMissesNothing == Spec => []NoMissedChange
<1>1. Init => (world = {} => TameInv) /\ HonestInv
  BY DEF Init, TameInv, Shape, Bare, Baseline, NothingOpen, HonestInv, Flags, ImapReportsHonestly, Early,
    Points, Waiting
<1>2. ASSUME HonestInv, world = {} => TameInv, [Next]_vars
      PROVE  (world = {} => TameInv)'
  <2>1. UNCHANGED world
    BY <1>2 DEF Next, Change, ServerStep, AnswerExamine, AnswerIdle, Report, AnswerDone, EndIdle,
      ServerDies, Resume, Shutdown, Act, LoopStep, LoopHead, Stop, BackoffOver, Connect, Authenticate,
      Leave, SessionFails, AuthFails, SeeResume, ReadStep, ReadExamine, PassOver, IdleStarted,
      ReadChange, ServerEndedIdle, ReadLate, IdleDone, ReadHalf, Refresh, IdleShutdown, FinishIdle,
      Terminated, others, vars
  <2> SUFFICES ASSUME TameInv PROVE TameInv'
    BY <1>2, <2>1
  <2>2. CASE UNCHANGED vars
    BY <2>2 DEF vars, server, session, report, others, TameInv, Shape, Bare, Baseline, NothingOpen
  <2> QED BY <1>2, <2>2, ServerTame, WatcherTame DEF Next, Terminated
<1>3. (world = {} => TameInv) /\ HonestInv => NoMissedChange
  BY TameNoticed DEF NoMissedChange
<1> QED BY <1>1, <1>2, <1>3, HonestStep, PTL DEF Spec, Safety

-----------------------------------------------------------------------------
(* The types, in parts.                                                    *)

Booleans ==
  /\ pending \in BOOLEAN /\ half \in BOOLEAN /\ told \in BOOLEAN /\ established \in BOOLEAN
  /\ connectedOnce \in BOOLEAN /\ resumed \in BOOLEAN /\ shutdown \in BOOLEAN /\ queued \in BOOLEAN

Places ==
  /\ srv \in {"none", "auth", "selected", "idle", "dead"}
  /\ cmd \in {"none", "EXAMINE", "IDLE", "DONE"}
  /\ pc \in Points /\ phase \in Phases /\ ready \in {"nothing", "ok", "failed"}

Counters ==
  world \in Worlds /\ changes \in 0..MaxChanges /\ acted \in 0..changes /\ faults \in 0..MaxFaults

(* Half a line has been taken only of the report that comes next, and only while idling. *)
Stream ==
  pipe \in Seq(Lines) /\ (half => pipe # <<>> /\ Head(pipe) = "change" /\ pc = "idling")

LEMMA BooleanStep == ASSUME Booleans, [Next]_vars PROVE Booleans'
<1> USE DEF Booleans
<1>1. CASE Change \/ EndIdle \/ ServerDies
  <2>1. CASE Change
    BY <2>1 DEF Change, session, others
  <2>2. CASE EndIdle \/ ServerDies
    BY <2>2 DEF EndIdle, ServerDies, session
  <2> QED BY <1>1, <2>1, <2>2
<1>9. CASE ServerStep
  <2>1. CASE AnswerExamine \/ AnswerIdle
    BY <2>1 DEF AnswerExamine, AnswerIdle, session, others
  <2>2. CASE Report \/ AnswerDone
    BY <2>2 DEF Report, AnswerDone, session, others
  <2> QED BY <1>9, <2>1, <2>2 DEF ServerStep
<1>2. CASE Resume \/ Shutdown \/ Act
  BY <1>2 DEF Resume, Shutdown, Act, server, session, others
<1>3. CASE LoopStep
  <2>1. CASE LoopHead \/ Stop \/ BackoffOver
    BY <2>1 DEF LoopHead, Stop, BackoffOver, server, session, others
  <2>2. CASE Connect \/ Authenticate
    BY <2>2 DEF Connect, Authenticate, session, others
  <2>3. CASE Leave
    BY <2>3 DEF Leave, DropSession, others
  <2> QED BY <1>3, <2>1, <2>2, <2>3 DEF LoopStep
<1>4. CASE SessionFails \/ AuthFails \/ SeeResume
  BY <1>4 DEF SessionFails, AuthFails, SeeResume, DropSession
<1>5. CASE ReadExamine \/ PassOver \/ IdleStarted
  BY <1>5 DEF ReadExamine, PassOver, IdleStarted, session, others
<1>6. CASE ReadChange \/ ServerEndedIdle
  BY <1>6 DEF ReadChange, ServerEndedIdle, session, others
<1>10. CASE ReadLate \/ IdleDone
  BY <1>10 DEF ReadLate, IdleDone, others
<1>7. CASE ReadHalf \/ Refresh \/ IdleShutdown
  BY <1>7 DEF ReadHalf, Refresh, IdleShutdown, FinishIdle, server, others
<1>8. CASE Terminated \/ UNCHANGED vars
  BY <1>8 DEF Terminated, vars, server, session, others
<1> QED BY <1>1, <1>2, <1>3, <1>4, <1>5, <1>6, <1>7, <1>8, <1>9, <1>10 DEF Next, ReadStep

LEMMA PlaceStep == ASSUME Places, [Next]_vars PROVE Places'
<1> USE DEF Places, Points, Waiting, Phases
<1>1. CASE Change \/ ServerStep \/ EndIdle \/ ServerDies
  BY <1>1 DEF Change, ServerStep, AnswerExamine, AnswerIdle, Report, AnswerDone, EndIdle, ServerDies,
    report
<1>2. CASE Resume \/ Shutdown \/ Act
  BY <1>2 DEF Resume, Shutdown, Act, server, report
<1>3. CASE LoopStep
  BY <1>3 DEF LoopStep, LoopHead, Stop, BackoffOver, Connect, Authenticate, Leave, DropSession, server,
    report
<1>4. CASE SessionFails \/ AuthFails \/ SeeResume
  BY <1>4 DEF SessionFails, AuthFails, SeeResume, DropSession, report
<1>5. CASE ReadExamine \/ PassOver \/ IdleStarted
  BY <1>5 DEF ReadExamine, PassOver, IdleStarted, EnterIdle, report
<1>6. CASE ReadChange \/ ServerEndedIdle \/ ReadLate \/ IdleDone
  BY <1>6 DEF ReadChange, ServerEndedIdle, ReadLate, IdleDone, EnterIdle, report
<1>7. CASE ReadHalf \/ Refresh \/ IdleShutdown
  BY <1>7 DEF ReadHalf, Refresh, IdleShutdown, FinishIdle, server, report
<1>8. CASE Terminated \/ UNCHANGED vars
  BY <1>8 DEF Terminated, vars, server, report
<1> QED BY <1>1, <1>2, <1>3, <1>4, <1>5, <1>6, <1>7, <1>8 DEF Next, ReadStep

LEMMA CounterStep == ASSUME Counters, [Next]_vars PROVE Counters'
<1> USE ImapAssumption DEF ImapAssumption, Counters
<1>1. CASE Change \/ EndIdle \/ ServerDies
  BY <1>1 DEF Change, EndIdle, ServerDies, others
<1>2. CASE ServerStep
  BY <1>2 DEF ServerStep, AnswerExamine, AnswerIdle, Report, AnswerDone, others
<1>3. CASE Resume \/ Shutdown \/ Act
  BY <1>3 DEF Resume, Shutdown, Act, server, others
<1>4. CASE LoopStep
  BY <1>4 DEF LoopStep, LoopHead, Stop, BackoffOver, Connect, Authenticate, Leave, DropSession, server,
    others
<1>5. CASE SessionFails \/ AuthFails \/ SeeResume
  BY <1>5 DEF SessionFails, AuthFails, SeeResume, DropSession
<1>6. CASE ReadStep
  BY <1>6 DEF ReadStep, ReadExamine, PassOver, IdleStarted, ReadChange, ServerEndedIdle, ReadLate,
    IdleDone, others
<1>7. CASE ReadHalf \/ Refresh \/ IdleShutdown
  BY <1>7 DEF ReadHalf, Refresh, IdleShutdown, FinishIdle, server, others
<1>8. CASE Terminated \/ UNCHANGED vars
  BY <1>8 DEF Terminated, vars, server, others
<1> QED BY <1>1, <1>2, <1>3, <1>4, <1>5, <1>6, <1>7, <1>8 DEF Next

LEMMA StreamStep == ASSUME Stream, [Next]_vars PROVE Stream'
<1> USE DEF Stream
<1>1. CASE ServerStep \/ EndIdle
  <2>1. UNCHANGED <<pc, half>>
    BY <1>1 DEF ServerStep, AnswerExamine, AnswerIdle, Report, AnswerDone, EndIdle, session
  <2>2. PICK q \in Seq(Lines) : q # <<>> /\ pipe' = pipe \o q
    <3>1. /\ <<"change">> \in Seq(Lines) /\ <<"ok">> \in Seq(Lines) /\ <<"cont">> \in Seq(Lines)
          /\ <<"change", "ok">> \in Seq(Lines)
      BY DEF Lines
    <3>2. \A x \in Lines : Append(pipe, x) = pipe \o <<x>>
      BY AppendProperties
    <3> QED BY <1>1, <3>1, <3>2
      DEF ServerStep, AnswerExamine, AnswerIdle, Report, AnswerDone, EndIdle, Lines
  <2>3. pipe' \in Seq(Lines) /\ pipe' # <<>> /\ (pipe # <<>> => Head(pipe') = Head(pipe))
    <3>1. /\ pipe' \in Seq(Lines) /\ Len(pipe') = Len(pipe) + Len(q)
          /\ \A i \in 1 .. Len(pipe) : pipe'[i] = pipe[i]
      BY <2>2, ConcatProperties
    <3>2. Len(pipe) \in Nat /\ Len(q) \in Nat \ {0}
      BY <2>2, LenProperties, EmptySeq
    <3>3. ASSUME pipe # <<>> PROVE pipe'[1] = pipe[1] /\ Head(pipe) = pipe[1]
      BY <3>1, <3>2, <3>3, EmptySeq, HeadTailProperties
    <3>4. pipe' # <<>> /\ Head(pipe') = pipe'[1]
      BY <3>1, <3>2, EmptySeq, HeadTailProperties
    <3> QED BY <3>1, <3>3, <3>4
  <2> QED BY <2>1, <2>3
<1>2. CASE Change \/ ServerDies \/ Resume \/ Shutdown \/ Act
  BY <1>2 DEF Change, ServerDies, Resume, Shutdown, Act, server, session
<1>3. CASE LoopHead \/ Stop \/ BackoffOver \/ Connect \/ Authenticate
  BY <1>3 DEF LoopHead, Stop, BackoffOver, Connect, Authenticate, server, session
<1>4. CASE Leave \/ SessionFails \/ AuthFails \/ SeeResume
  <2>1. pipe' = <<>> /\ half' = FALSE
    BY <1>4 DEF Leave, SessionFails, AuthFails, SeeResume, DropSession
  <2> QED BY <2>1, EmptySeq
<1>5. ASSUME TakeLine PROVE pipe' \in Seq(Lines)
  BY <1>5, HeadTailProperties DEF TakeLine
<1>6. CASE ReadExamine \/ PassOver \/ IdleStarted \/ ReadLate \/ IdleDone
  BY <1>5, <1>6 DEF ReadExamine, PassOver, IdleStarted, ReadLate, IdleDone, session
<1>7. CASE ReadChange
  BY <1>5, <1>7 DEF ReadChange
<1>8. CASE ServerEndedIdle
  BY <1>5, <1>8 DEF ServerEndedIdle, NextLine, session
<1>9. CASE ReadHalf
  BY <1>9 DEF ReadHalf, NextLine, server
<1>10. CASE Refresh \/ IdleShutdown
  <2>1. half' = FALSE /\ pipe' = (IF half THEN <<"rest">> \o Tail(pipe) ELSE pipe)
    BY <1>10 DEF Refresh, IdleShutdown, FinishIdle
  <2>2. <<"rest">> \in Seq(Lines)
    BY DEF Lines
  <2>3. pipe # <<>> => Tail(pipe) \in Seq(Lines)
    BY HeadTailProperties
  <2>4. CASE half
    BY <2>1, <2>2, <2>3, <2>4, ConcatProperties
  <2>5. CASE ~half
    BY <2>1, <2>5
  <2> QED BY <2>4, <2>5
<1>11. CASE Terminated \/ UNCHANGED vars
  BY <1>11 DEF Terminated, vars, server, session
<1> QED
  BY <1>1, <1>2, <1>3, <1>4, <1>6, <1>7, <1>8, <1>9, <1>10, <1>11 DEF Next, LoopStep, ReadStep

(* The variables keep their types, whatever the world: an action has seen no more changes than there
   were, and the part of a line that a cancelled read_line takes with it is part of a report that was
   under way (idle_forever, imap.rs:425). *)
THEOREM ImapTypeCorrect == Spec => []ImapTypeOK
<1>1. Init => Booleans /\ Places
  BY DEF Init, Booleans, Places, Points, Waiting, Phases
<1>2. Init => Counters /\ Stream
  BY ImapAssumption, EmptySeq DEF ImapAssumption, Init, Counters, Stream
<1>3. Booleans /\ Places /\ Counters /\ Stream => ImapTypeOK
  BY DEF Booleans, Places, Counters, Stream, ImapTypeOK
<1> QED BY <1>1, <1>2, <1>3, BooleanStep, PlaceStep, CounterStep, StreamStep, PTL DEF Spec, Safety
=============================================================================

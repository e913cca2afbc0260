-------------------------- MODULE GmailPollProofs ---------------------------
(***************************************************************************)
(* That a gmail_api_poll source misses nothing, for every list of labels   *)
(* and every mailbox.  NoMissedHistory alone is not inductive: when the    *)
(* last label is answered with nothing, the labels before it were answered *)
(* earlier in the poll, and AskedInVain carries their answers along.       *)
(***************************************************************************)
EXTENDS GmailPoll, TLAPS

GmailInv == GmailTypeOK /\ AskedInVain /\ NoMissedHistory

(* The initial states satisfy the invariant. *)
LEMMA GmailInit == Init => GmailInv
<1> SUFFICES ASSUME Init PROVE GmailInv
    OBVIOUS
<1> USE GmailAssumption DEF Init
<1>1. GmailTypeOK
    <2>1. latest \in 0..MaxId /\ 0 \in 0..latest /\ 0 \in 0..Len(labelIds) OBVIOUS
    <2>2. pc \in Points /\ pc # "list" /\ phase \in Phases BY DEF Points, Phases
    <2> QED BY <2>1, <2>2 DEF GmailTypeOK
<1>2. AskedInVain BY DEF AskedInVain
<1>3. NoMissedHistory BY DEF NoMissedHistory
<1> QED BY <1>1, <1>2, <1>3 DEF GmailInv

(* Every step keeps the types. *)
LEMMA GmailTypeStep == GmailInv /\ [Next]_vars => GmailTypeOK'
<1> SUFFICES ASSUME GmailInv, [Next]_vars PROVE GmailTypeOK'
    OBVIOUS
<1> USE GmailAssumption DEF GmailInv, GmailTypeOK, AskedInVain, Points, Phases, mailbox, fixed, tracker, report, vars
<1>1. CASE MailboxChanges BY <1>1 DEF MailboxChanges
<1>2. CASE HistoryExpires BY <1>2 DEF HistoryExpires
<1>3. CASE Shutdown BY <1>3 DEF Shutdown
<1>4. CASE Stop BY <1>4 DEF Stop
<1>5. CASE LoopHead BY <1>5 DEF LoopHead
<1>6. CASE Baseline BY <1>6 DEF Baseline
<1>7. CASE Poll BY <1>7 DEF Poll
<1>8. CASE RetryLater BY <1>8 DEF RetryLater
<1>9. CASE GiveUp BY <1>9 DEF GiveUp
<1>10. CASE BackoffOver BY <1>10 DEF BackoffOver
<1>11. CASE Unchanged BY <1>11 DEF Unchanged
<1>12. CASE AdvancedUnfiltered BY <1>12 DEF AdvancedUnfiltered, AcceptAndSignal
<1>13. CASE Advanced
    <2>1. Len(labelIds) > 0 BY <1>13 DEF Advanced
    <2> QED BY <1>13, <2>1 DEF Advanced
<1>14. CASE ListStale BY <1>14 DEF ListStale, AcceptAndSignal
<1>15. CASE ListFound BY <1>15 DEF ListFound, AcceptAndSignal
<1>16. CASE ListNext BY <1>16 DEF ListNext, NoRecord
<1>17. CASE ListNone BY <1>17 DEF ListNone, NoRecord, AcceptSilently
<1>18. CASE UNCHANGED vars BY <1>18
<1> QED BY <1>1, <1>2, <1>3, <1>4, <1>5, <1>6, <1>7, <1>8, <1>9, <1>10, <1>11, <1>12, <1>13,
           <1>14, <1>15, <1>16, <1>17, <1>18 DEF Next, HasRelevantHistory, Terminated

(* Every step keeps the answers of the labels asked so far right: what a poll looks at, the
   records up to its profile, does not change while it goes on. *)
LEMMA GmailAskedStep == GmailInv /\ [Next]_vars => AskedInVain'
<1> SUFFICES ASSUME GmailInv, [Next]_vars PROVE AskedInVain'
    OBVIOUS
<1> USE GmailAssumption DEF GmailInv, GmailTypeOK, AskedInVain, Records, mailbox, fixed, tracker, report, vars
<1>1. CASE MailboxChanges BY <1>1 DEF MailboxChanges
<1>2. CASE HistoryExpires BY <1>2 DEF HistoryExpires
<1>3. CASE Shutdown BY <1>3 DEF Shutdown
<1>4. CASE Stop \/ LoopHead \/ Baseline \/ Poll
    BY <1>4 DEF Stop, LoopHead, Baseline, Poll
<1>11. CASE RetryLater \/ GiveUp \/ BackoffOver \/ Unchanged
    BY <1>11 DEF RetryLater, GiveUp, BackoffOver, Unchanged
<1>5. CASE AdvancedUnfiltered BY <1>5 DEF AdvancedUnfiltered, AcceptAndSignal
<1>6. CASE Advanced BY <1>6 DEF Advanced
<1>7. CASE ListStale \/ ListFound BY <1>7 DEF ListStale, ListFound, AcceptAndSignal
<1>8. CASE ListNext
    <2>1. \A j \in 1..(asked + 1) : Records(labelIds[j], to) = {}
        BY <1>8 DEF ListNext, NoRecord
    <2> QED BY <1>8, <2>1 DEF ListNext, NoRecord
<1>9. CASE ListNone BY <1>9 DEF ListNone, AcceptSilently
<1>10. CASE UNCHANGED vars BY <1>10
<1> QED BY <1>1, <1>2, <1>3, <1>4, <1>5, <1>6, <1>7, <1>8, <1>9, <1>10, <1>11
        DEF Next, HasRelevantHistory, Terminated

(* Every step keeps the records up to the baseline signalled: the tracker moves only with an
   event, which covers everything, or past records that carry none of the labels. *)
LEMMA GmailMissedStep == GmailInv /\ [Next]_vars => NoMissedHistory'
<1> SUFFICES ASSUME GmailInv, [Next]_vars PROVE NoMissedHistory'
    OBVIOUS
<1> USE GmailAssumption
    DEF GmailInv, GmailTypeOK, NoMissedHistory, Ids, mailbox, fixed, tracker, report, vars
<1>0. \A i \in Ids : Relevant(i)' <=> Relevant(i)
    <2>1. UNCHANGED <<labelIds, labelOf>>
        BY DEF Next, MailboxChanges, HistoryExpires, Shutdown, Stop, LoopHead, Poll, RetryLater,
           GiveUp, BackoffOver, Unchanged, Baseline, AdvancedUnfiltered, Advanced,
           HasRelevantHistory, ListStale, ListFound, ListNext, ListNone, Terminated
    <2> QED BY <2>1 DEF Relevant, Labels
<1> USE <1>0
<1>1. CASE MailboxChanges \/ HistoryExpires \/ Shutdown
    BY <1>1 DEF MailboxChanges, HistoryExpires, Shutdown
<1>2. CASE Stop \/ LoopHead \/ Poll
    BY <1>2 DEF Stop, LoopHead, Poll
<1>3. CASE RetryLater \/ GiveUp \/ BackoffOver \/ Unchanged
    BY <1>3 DEF RetryLater, GiveUp, BackoffOver, Unchanged
<1>4. CASE Baseline BY <1>4 DEF Baseline
<1>5. CASE AdvancedUnfiltered BY <1>5 DEF AdvancedUnfiltered, AcceptAndSignal
<1>6. CASE Advanced BY <1>6 DEF Advanced
<1>7. CASE ListStale \/ ListFound
    <2>1. last' = to /\ signalled' = latest /\ UNCHANGED <<base, labelOf>>
        BY <1>7 DEF ListStale, ListFound, AcceptAndSignal
    <2> QED BY <2>1
<1>8. CASE ListNext BY <1>8 DEF ListNext
<1>9. CASE ListNone
    <2>1. \A j \in 1..Len(labelIds) : Records(labelIds[j], to) = {}
        <3>1. \A j \in 1..asked : Records(labelIds[j], to) = {}
            BY <1>9 DEF ListNone, NoRecord, AskedInVain
        <3>2. Records(labelIds[asked + 1], to) = {} /\ asked + 1 = Len(labelIds)
            BY <1>9 DEF ListNone, NoRecord
        <3>3. \A j \in 1..Len(labelIds) : j \in 1..asked \/ j = asked + 1 BY <3>2
        <3> QED BY <3>1, <3>2, <3>3
    <2>2. ASSUME NEW i \in Ids, last < i, i <= to PROVE ~Relevant(i)
        <3>1. \A j \in 1..Len(labelIds) : labelOf[i] # labelIds[j] BY <2>1, <2>2 DEF Records
        <3>2. labelOf[i] \notin Labels BY <3>1 DEF Labels
        <3>3. labelIds # <<>> BY <1>9 DEF ListNone, NoRecord, AskedInVain
        <3> QED BY <3>2, <3>3 DEF Relevant
    <2> QED BY <1>9, <2>2 DEF ListNone, AcceptSilently, AskedInVain
<1>10. CASE UNCHANGED vars BY <1>10
<1> QED BY <1>1, <1>2, <1>3, <1>4, <1>5, <1>6, <1>7, <1>8, <1>9, <1>10
        DEF Next, HasRelevantHistory, Terminated

(* Every step keeps what is reported true, given that a poll has a baseline. *)
LEMMA GmailReportStep == GmailInv /\ ReportsHonestly /\ [Next]_vars => ReportsHonestly'
<1> SUFFICES ASSUME GmailInv, ReportsHonestly, [Next]_vars PROVE ReportsHonestly'
    OBVIOUS
<1> USE DEF GmailInv, GmailTypeOK, AskedInVain, ReportsHonestly, mailbox, fixed, tracker, report, vars
<1>1. CASE MailboxChanges \/ HistoryExpires \/ Shutdown
    BY <1>1 DEF MailboxChanges, HistoryExpires, Shutdown
<1>2. CASE Stop BY <1>2 DEF Stop
<1>3. CASE LoopHead BY <1>3 DEF LoopHead
<1>4. CASE Baseline BY <1>4 DEF Baseline
<1>5. CASE Poll \/ Unchanged BY <1>5 DEF Poll, Unchanged
<1>6. CASE RetryLater BY <1>6 DEF RetryLater
<1>7. CASE GiveUp BY <1>7 DEF GiveUp
<1>8. CASE BackoffOver BY <1>8 DEF BackoffOver
<1>9. CASE AdvancedUnfiltered \/ Advanced
    BY <1>9 DEF AdvancedUnfiltered, Advanced, AcceptAndSignal
<1>10. CASE HasRelevantHistory
    BY <1>10 DEF HasRelevantHistory, ListStale, ListFound, ListNext, ListNone, NoRecord,
                 AcceptAndSignal, AcceptSilently
<1>11. CASE UNCHANGED vars BY <1>11
<1> QED BY <1>1, <1>2, <1>3, <1>4, <1>5, <1>6, <1>7, <1>8, <1>9, <1>10, <1>11
        DEF Next, Terminated

(* The invariant holds throughout. *)
LEMMA GmailInvariant == Safety => []GmailInv
<1>1. GmailInv /\ [Next]_vars => GmailInv'
    BY GmailTypeStep, GmailAskedStep, GmailMissedStep DEF GmailInv
<1> QED BY <1>1, GmailInit, PTL DEF Safety

(* The tracker of a gmail_api_poll source is never ahead of the mailbox, and every variable
   keeps its type. *)
THEOREM GmailTypeCorrect == Safety => []GmailTypeOK
BY GmailInvariant, PTL DEF GmailInv

(* compare always finds a baseline, and the labels a poll has passed over had nothing new. *)
THEOREM GmailAskedInVain == Safety => []AskedInVain
BY GmailInvariant, PTL DEF GmailInv

(* last_history_id never moves past a relevant record that has not been signalled, for any
   labels, any history, and any order of arrivals, expiries and failures. *)
THEOREM GmailMissesNothing == Safety => []NoMissedHistory
BY GmailInvariant, PTL DEF GmailInv

(* What the health check and the start-up hear of the source is true in every run. *)
THEOREM GmailReportsHonestly == Safety => []ReportsHonestly
<1>1. Init => ReportsHonestly BY DEF Init, ReportsHonestly
<1> QED BY <1>1, GmailInvariant, GmailReportStep, PTL DEF Safety

-----------------------------------------------------------------------------
(* A baseline is read only when there is none. *)
FirstBaseline == pc = "baseline" => ~known

(* Every poll moves the tracker forward, and a baseline is taken only when there is none. *)
LEMMA TrackerStep ==
  ASSUME GmailInv, FirstBaseline, [Next]_vars
  PROVE  /\ FirstBaseline'
         /\ known => known' /\ base' = base /\ last' >= last
<1> USE DEF GmailInv, GmailTypeOK, AskedInVain, FirstBaseline, mailbox, fixed, tracker, report, vars
<1>1. CASE MailboxChanges \/ HistoryExpires \/ Shutdown
  BY <1>1 DEF MailboxChanges, HistoryExpires, Shutdown
<1>2. CASE Stop \/ LoopHead \/ Poll
  BY <1>2 DEF Stop, LoopHead, Poll
<1>3. CASE RetryLater \/ GiveUp \/ BackoffOver \/ Unchanged
  BY <1>3 DEF RetryLater, GiveUp, BackoffOver, Unchanged
<1>4. CASE Baseline
  BY <1>4 DEF Baseline
<1>5. CASE AdvancedUnfiltered \/ Advanced
  BY <1>5 DEF AdvancedUnfiltered, Advanced, AcceptAndSignal
<1>6. CASE ListStale \/ ListFound
  BY <1>6 DEF ListStale, ListFound, AcceptAndSignal
<1>7. CASE ListNext \/ ListNone
  BY <1>7 DEF ListNext, ListNone, NoRecord, AcceptSilently
<1>8. CASE UNCHANGED vars
  BY <1>8
<1> QED BY <1>1, <1>2, <1>3, <1>4, <1>5, <1>6, <1>7, <1>8 DEF Next, HasRelevantHistory, Terminated

(* Once it has a baseline the watcher never starts over: what GmailMissesNothing says of the records
   after the first baseline is said of all that come for as long as it runs. *)
THEOREM GmailNeverStartsOver == Safety => NeverStartsOver
<1>1. Init => FirstBaseline
  BY DEF Init, FirstBaseline
<1>2. GmailInv /\ FirstBaseline /\ [Next]_vars => FirstBaseline'
  BY TrackerStep
<1>3. GmailInv /\ FirstBaseline /\ [Next]_vars
        => [known => known' /\ base' = base /\ last' >= last]_vars
  BY TrackerStep
<1> QED BY <1>1, <1>2, <1>3, GmailInvariant, PTL DEF Safety, NeverStartsOver

(* The steps that queue an event. *)
LEMMA NewsStep ==
  ASSUME GmailInv, [Next]_vars, signalled' # signalled
  PROVE  \/ \E i \in Ids : last < i /\ i <= latest /\ Relevant(i)
         \/ last < oldest
<1> USE GmailAssumption DEF GmailInv, GmailTypeOK
<1>1. AdvancedUnfiltered \/ ListStale \/ ListFound
  BY DEF Next, MailboxChanges, HistoryExpires, Shutdown, Stop, LoopHead, Baseline, Poll, RetryLater,
         GiveUp, BackoffOver, Unchanged, Advanced, HasRelevantHistory, ListNext, ListNone,
         AcceptSilently, Terminated, vars
<1>2. CASE AdvancedUnfiltered
  <2>1. latest \in Ids /\ last < latest /\ latest <= latest /\ Relevant(latest)
    BY <1>2 DEF AdvancedUnfiltered, Ids, Relevant
  <2> QED BY <2>1
<1>3. CASE ListStale
  BY <1>3 DEF ListStale
<1>4. CASE ListFound
  <2>1. PICK i \in Ids : last < i /\ i <= latest /\ labelOf[i] = labelIds[asked + 1]
    BY <1>4 DEF ListFound, Records
  <2>2. asked + 1 \in DOMAIN labelIds
    BY <1>4 DEF ListFound
  <2> QED BY <2>1, <2>2 DEF Relevant, Labels
<1> QED BY <1>1, <1>2, <1>3, <1>4

(* No poll queues an event without a reason, however its requests are mixed with failures and with
   what arrives meanwhile. *)
THEOREM GmailEventsAreNews == Safety => EventsAreNews
<1>1. ASSUME GmailInv, [Next]_vars
      PROVE  [signalled' # signalled =>
                \/ \E i \in Ids : last < i /\ i <= latest /\ Relevant(i)
                \/ last < oldest]_vars
  BY <1>1, NewsStep
<1> QED BY <1>1, GmailInvariant, PTL DEF Safety, EventsAreNews
=============================================================================

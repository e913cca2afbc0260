----------------------------- MODULE GmailPoll ------------------------------
(***************************************************************************)
(* A gmail_api_poll source: watch_gmail_api_poll_forever of                *)
(* src/gmail_api_poll.rs against a mailbox whose history goes on growing   *)
(* between any two requests of a poll.                                     *)
(*                                                                         *)
(* Gmail (external) numbers its history records; users.getProfile gives    *)
(* the latest number, users.history.list the records after a number that   *)
(* carry a label, or 404 when that number is too old.  A list answers with *)
(* at least the records that existed when the profile was read; pages may  *)
(* miss later ones.                                                        *)
(*                                                                         *)
(* base and signalled are history variables: the first baseline, and the   *)
(* latest record when an event was last queued (whose command run, see     *)
(* Pipeline, comes after that record).                                     *)
(***************************************************************************)
EXTENDS Naturals, Sequences

CONSTANTS
  LabelLists, (* values label_ids of the source may have *)
  MailLabels, (* labels the mailbox uses *)
  MaxId       (* bound on the records of the mailbox *)

ASSUME GmailAssumption == MaxId \in Nat /\ LabelLists \subseteq Seq(MailLabels)

VARIABLES
  labelIds, (* label_ids of the source, in order; <<>> means every change counts *)
  latest,   (* the mailbox's historyId *)
  labelOf,  (* the label of each record *)
  oldest,   (* history.list refuses to start before this *)
  pc,       (* where the watcher is *)
  known,    (* GmailHistoryTracker has a baseline *)
  last,     (* GmailHistoryTracker::last_history_id, when known *)
  to,       (* latest_history_id of the current poll *)
  asked,    (* how many of label_ids this poll has asked for in vain *)
  phase,    (* WatcherPhase of the source *)
  ready,    (* what initial_ready was sent: "nothing", "ok" or "failed" *)
  shutdown,
  base, signalled

fixed == <<labelIds, labelOf>>
mailbox == <<latest, oldest, fixed>>
tracker == <<known, last, base>>
report == <<phase, ready>>
vars == <<mailbox, pc, tracker, to, asked, report, shutdown, signalled>>

Ids == 1..MaxId
Labels == {labelIds[j] : j \in DOMAIN labelIds}
Phases == {"Starting", "Connecting", "Idling", "Reconnecting", "Stopped", "Crashed"}
Points == {"head", "baseline", "sleep", "profile", "list", "backoff", "stopped", "failed"}

Init ==
  /\ labelIds \in LabelLists
  /\ latest \in 0..MaxId
  /\ labelOf \in [Ids -> MailLabels]
  /\ oldest = 0
  /\ pc = "head" /\ known = FALSE /\ last = 0 /\ to = 0 /\ asked = 0
  /\ phase = "Starting" /\ ready = "nothing"
  /\ shutdown = FALSE
  /\ base = 0 /\ signalled = 0

(* A record the source is to report. *)
Relevant(i) == labelIds = <<>> \/ labelOf[i] \in Labels

-----------------------------------------------------------------------------
(* The mailbox and the daemon.                                             *)

MailboxChanges ==
  /\ latest < MaxId
  /\ latest' = latest + 1
  /\ UNCHANGED <<fixed, oldest, pc, tracker, to, asked, report, shutdown, signalled>>

HistoryExpires ==
  /\ oldest < latest
  /\ oldest' = oldest + 1
  /\ UNCHANGED <<latest, fixed, pc, tracker, to, asked, report, shutdown, signalled>>

Shutdown ==
  /\ ~shutdown
  /\ shutdown' = TRUE
  /\ UNCHANGED <<mailbox, pc, tracker, to, asked, report, signalled>>

-----------------------------------------------------------------------------
(* The loop of watch_gmail_api_poll_forever.                               *)

(* Shutdown is looked at at the head and in the sleeps, never within a request. *)
Stop ==
  /\ pc \in {"head", "sleep", "backoff"}
  /\ shutdown
  /\ pc' = "stopped" /\ phase' = "Stopped"
  /\ UNCHANGED <<mailbox, tracker, to, asked, ready, shutdown, signalled>>

LoopHead ==
  /\ pc = "head"
  /\ ~shutdown
  /\ pc' = IF known THEN "sleep" ELSE "baseline"
  /\ phase' = IF known THEN phase ELSE "Connecting"
  /\ UNCHANGED <<mailbox, tracker, to, asked, ready, shutdown, signalled>>

(* Mutant: the baseline is one past what the profile said. *)
BaselineBeyond ==
  /\ pc = "baseline"
  /\ known' = TRUE /\ last' = latest + 1 /\ base' = latest
  /\ pc' = "sleep" /\ phase' = "Idling" /\ ready' = "ok"
  /\ UNCHANGED <<mailbox, to, asked, shutdown, signalled>>

Baseline ==
  /\ pc = "baseline"
  /\ known' = TRUE /\ last' = latest /\ base' = latest
  /\ pc' = "sleep" /\ phase' = "Idling" /\ ready' = "ok"
  /\ UNCHANGED <<mailbox, to, asked, shutdown, signalled>>

(* poll_interval is over. *)
Poll ==
  /\ pc = "sleep"
  /\ pc' = "profile"
  /\ UNCHANGED <<mailbox, tracker, to, asked, report, shutdown, signalled>>

(* The token helper, a request or its decoding fails, and a later try may succeed. *)
RetryLater ==
  /\ pc \in {"baseline", "profile", "list"}
  /\ pc' = "backoff" /\ phase' = "Reconnecting"
  /\ UNCHANGED <<mailbox, tracker, to, asked, ready, shutdown, signalled>>

(* is_permanent_auth_failure: the watcher gives up and the daemon stops. *)
GiveUp ==
  /\ pc \in {"baseline", "profile", "list"}
  /\ pc' = "failed" /\ phase' = "Crashed"
  /\ ready' = IF ready = "nothing" THEN "failed" ELSE ready
  /\ UNCHANGED <<mailbox, tracker, to, asked, shutdown, signalled>>

(* Mutant: a poll that works again after a failure is still shown as reconnecting. *)
BackoffOverSilently ==
  /\ pc = "backoff"
  /\ pc' = "head"
  /\ UNCHANGED <<mailbox, tracker, to, asked, report, shutdown, signalled>>

BackoffOver ==
  /\ pc = "backoff"
  /\ pc' = "head"
  /\ phase' = IF known THEN "Idling" ELSE phase
  /\ UNCHANGED <<mailbox, tracker, to, asked, ready, shutdown, signalled>>

-----------------------------------------------------------------------------
(* poll_once.                                                              *)

Unchanged ==
  /\ pc = "profile"
  /\ latest <= last
  /\ pc' = "head"
  /\ UNCHANGED <<mailbox, tracker, to, asked, report, shutdown, signalled>>

(* The tracker accepts n, and an event is queued or not. *)
AcceptAndSignal(n) ==
  /\ last' = n
  /\ signalled' = latest
  /\ pc' = "head"

AcceptSilently(n) ==
  /\ last' = n
  /\ pc' = "head"
  /\ UNCHANGED signalled

AdvancedUnfiltered ==
  /\ pc = "profile"
  /\ latest > last
  /\ labelIds = <<>>
  /\ to' = latest
  /\ AcceptAndSignal(latest)
  /\ UNCHANGED <<mailbox, known, base, asked, report, shutdown>>

(* Mutant: the tracker accepts the new id before the labels have been asked for. *)
AdvancedAcceptsEarly ==
  /\ pc = "profile"
  /\ latest > last
  /\ labelIds # <<>>
  /\ to' = latest /\ last' = latest
  /\ asked' = 0
  /\ pc' = "list"
  /\ UNCHANGED <<mailbox, known, base, report, shutdown, signalled>>

(* Mutant: a poll goes on with the labels where the one that failed stopped. *)
AdvancedResumes ==
  /\ pc = "profile"
  /\ latest > last
  /\ labelIds # <<>>
  /\ to' = latest
  /\ asked' = asked % Len(labelIds)
  /\ pc' = "list"
  /\ UNCHANGED <<mailbox, tracker, report, shutdown, signalled>>

Advanced ==
  /\ pc = "profile"
  /\ latest > last
  /\ labelIds # <<>>
  /\ to' = latest
  /\ asked' = 0
  /\ pc' = "list"
  /\ UNCHANGED <<mailbox, tracker, report, shutdown, signalled>>

(* Records with label l after the baseline, up to record n. *)
Records(l, n) == {i \in Ids : last < i /\ i <= n /\ labelOf[i] = l}

(* Mutant: a baseline that is too old is one more failure to retry. *)
ListStaleRetries ==
  /\ pc = "list"
  /\ last < oldest
  /\ pc' = "backoff" /\ phase' = "Reconnecting"
  /\ UNCHANGED <<mailbox, tracker, to, asked, ready, shutdown, signalled>>

(* 404: the baseline is too old.  One event, and the poll's id is the new baseline. *)
ListStale ==
  /\ pc = "list"
  /\ last < oldest
  /\ AcceptAndSignal(to)
  /\ UNCHANGED <<mailbox, known, base, to, asked, report, shutdown>>

(* Some page of the label's list has a record. *)
ListFound ==
  /\ pc = "list"
  /\ last >= oldest
  /\ Records(labelIds[asked + 1], latest) # {}
  /\ AcceptAndSignal(to)
  /\ UNCHANGED <<mailbox, known, base, to, asked, report, shutdown>>

(* No page has one; records that came after the profile was read may have been missed. *)
NoRecord ==
  /\ pc = "list"
  /\ last >= oldest
  /\ Records(labelIds[asked + 1], to) = {}

ListNext ==
  /\ NoRecord
  /\ asked + 1 < Len(labelIds)
  /\ asked' = asked + 1
  /\ UNCHANGED <<mailbox, pc, tracker, to, report, shutdown, signalled>>

ListNone ==
  /\ NoRecord
  /\ asked + 1 = Len(labelIds)
  /\ AcceptSilently(to)
  /\ UNCHANGED <<mailbox, known, base, to, asked, report, shutdown>>

HasRelevantHistory == ListStale \/ ListFound \/ ListNext \/ ListNone

Terminated == pc \in {"stopped", "failed"} /\ UNCHANGED vars

Next ==
  \/ MailboxChanges \/ HistoryExpires \/ Shutdown
  \/ Stop \/ LoopHead \/ Baseline \/ Poll \/ RetryLater \/ GiveUp \/ BackoffOver
  \/ Unchanged \/ AdvancedUnfiltered \/ Advanced \/ HasRelevantHistory
  \/ Terminated

(* The task is scheduled and its timers fire.  Requests do not fail for ever: an answer that
   is due again and again comes. *)
Fairness ==
  /\ WF_vars(LoopHead) /\ WF_vars(Poll) /\ WF_vars(BackoffOver) /\ WF_vars(Unchanged)
  /\ SF_vars(Baseline) /\ SF_vars(AdvancedUnfiltered) /\ SF_vars(Advanced)
  /\ \A n \in UNION {DOMAIN l : l \in LabelLists} : SF_vars(asked + 1 = n /\ HasRelevantHistory)

Safety == Init /\ [][Next]_vars
Spec == Safety /\ Fairness

-----------------------------------------------------------------------------
(* Properties.                                                             *)

(* Every variable has its type; the tracker is never ahead of the mailbox. *)
GmailTypeOK ==
  /\ labelIds \in LabelLists
  /\ latest \in 0..MaxId /\ oldest \in 0..latest
  /\ labelOf \in [Ids -> MailLabels]
  /\ pc \in Points /\ known \in BOOLEAN /\ shutdown \in BOOLEAN
  /\ last \in 0..latest /\ to \in 0..latest
  /\ asked \in 0..Len(labelIds) /\ (pc = "list" => asked < Len(labelIds))
  /\ phase \in Phases /\ ready \in {"nothing", "ok", "failed"}
  /\ base \in 0..latest /\ signalled \in 0..latest

(* The tracker never moves past a relevant record without an event: whatever fails, expires
   or arrives between the requests of a poll, everything up to last_history_id that came
   after the first baseline has been signalled. *)
NoMissedHistory ==
  known => \A i \in Ids : base < i /\ i <= last /\ Relevant(i) => i <= signalled

(* A poll always has a baseline to compare with, so compare never fails; and while it has
   found nothing for the first labels, there was nothing for them to find. *)
AskedInVain ==
  /\ pc \in {"sleep", "profile", "list"} => known
  /\ pc = "list" => /\ labelIds # <<>>
                    /\ last <= to
                    /\ \A j \in 1..asked : Records(labelIds[j], to) = {}

(* What the health check and the start-up are told is so: the source is shown idling exactly
   from its first baseline on, failures and the waits after them apart; start-up hears of
   success exactly when there is a baseline, and never of both. *)
ReportsHonestly ==
  /\ phase = "Idling" <=> known /\ pc \notin {"backoff", "stopped", "failed"}
  /\ phase = "Crashed" <=> pc = "failed"
  /\ ready = "ok" <=> known
  /\ ready = "failed" <=> pc = "failed" /\ ~known

(* The first baseline is kept, and the tracker goes on from it, never back: no failure and no
   expired history makes the watcher start over (the loop of watch_gmail_api_poll_forever,
   gmail_api_poll.rs:257). *)
NeverStartsOver ==
  [][known => known' /\ base' = base /\ last' >= last]_vars

(* An event is queued only for a record the source is to report that came after the last baseline,
   or because Gmail no longer has the history after it (poll_once, gmail_api_poll.rs:334). *)
EventsAreNews ==
  [][signalled' # signalled =>
       \/ \E i \in Ids : last < i /\ i <= latest /\ Relevant(i)
       \/ last < oldest]_vars

(* Every relevant record after the baseline is signalled eventually, unless the daemon stops
   or the watcher fails for good. *)
EventuallySignalled ==
  \A i \in Ids : (known /\ base < i /\ i <= latest /\ Relevant(i))
                   ~> (i <= signalled \/ shutdown \/ pc = "failed")
=============================================================================

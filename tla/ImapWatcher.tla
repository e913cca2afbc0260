---------------------------- MODULE ImapWatcher -----------------------------
(***************************************************************************)
(* An imap_idle source: watch_mailbox_forever and idle_forever of          *)
(* src/imap.rs against a server that reports changes of the mailbox.       *)
(*                                                                         *)
(* The server (external) answers EXAMINE with a snapshot, IDLE with a      *)
(* continuation and DONE with a tagged OK, and reports changes while IDLE. *)
(* pipe holds its lines: "change" (an untagged line is_mailbox_change      *)
(* accepts), "cont", "ok" (the tagged completion) and "rest" (the end of a *)
(* line whose beginning the client has lost).  world says what else may    *)
(* happen: the server may also report between two IDLEs (outside), a line  *)
(* may arrive in two pieces (torn), and the debounce window may be shorter *)
(* than the wait for the answer to DONE (hasty).                           *)
(*                                                                         *)
(* queued stands for the event channel and the debounce runner (Pipeline): *)
(* an event is acted on by a run of the command some time later.  acted,   *)
(* a history variable, counts the changes the last such run has seen.      *)
(***************************************************************************)
EXTENDS Naturals, Sequences, Functions

CONSTANTS
  Worlds,       (* what the server, the network and the debounce window may do *)
  MaxChanges,   (* bound on the changes of the mailbox *)
  MaxFaults     (* bound on failures, rejections, server deaths and resumes *)

ASSUME ImapAssumption ==
  /\ Worlds \subseteq SUBSET {"outside", "torn", "hasty"}
  /\ MaxChanges \in Nat /\ MaxFaults \in Nat

VARIABLES
  world,          (* which of these it is *)
  changes,        (* changes of the mailbox so far *)
  srv,            (* the server's side of the session *)
  pending,        (* it has changes it has not reported to the session *)
  cmd, pipe,      (* the command and the lines under way *)
  pc,             (* where the watcher is *)
  half,           (* read_line has taken the first piece of a line *)
  told,           (* event_queued of wait_idle_completion *)
  established, connectedOnce,
  phase, ready,   (* WatcherPhase of the source; what initial_ready was sent *)
  resumed,        (* the resume channel has changed *)
  shutdown, faults,
  queued, acted

server == <<changes, srv, pending, cmd, pipe>>
session == <<half, told, established>>
report == <<phase, ready>>
others == <<world, resumed, shutdown, faults>>
vars == <<server, pc, session, connectedOnce, report, others, queued, acted>>

Lines == {"change", "cont", "ok", "rest"}
Phases == {"Starting", "Connecting", "Idling", "Reconnecting", "Stopped", "Crashed"}
Waiting == {"connect", "auth", "examine", "continuation", "done"}
Points == Waiting \cup {"head", "idling", "leaving", "backoff", "stopped", "failed"}

Init ==
  /\ world \in Worlds
  /\ changes = 0 /\ srv = "none" /\ pending = FALSE /\ cmd = "none" /\ pipe = <<>>
  /\ pc = "head" /\ half = FALSE /\ told = FALSE /\ established = FALSE
  /\ connectedOnce = FALSE /\ phase = "Starting" /\ ready = "nothing"
  /\ resumed = FALSE /\ shutdown = FALSE /\ faults = 0
  /\ queued = FALSE /\ acted = 0

-----------------------------------------------------------------------------
(* The server, the rest of the daemon and what goes wrong.                 *)

Change ==
  /\ changes < MaxChanges
  /\ changes' = changes + 1
  /\ pending' = (pending \/ srv \in {"selected", "idle"})
  /\ UNCHANGED <<srv, cmd, pipe, pc, session, connectedOnce, report, others, queued, acted>>

(* The answer to EXAMINE begins with the snapshot, which looks like a change.  For the first
   session it is the baseline. *)
AnswerExamine ==
  /\ srv = "auth" /\ cmd = "EXAMINE"
  /\ srv' = "selected" /\ cmd' = "none"
  /\ pipe' = pipe \o <<"change", "ok">>
  /\ acted' = IF ready = "ok" THEN acted ELSE changes
  /\ UNCHANGED <<changes, pending, pc, session, connectedOnce, report, others, queued>>

AnswerIdle ==
  /\ srv = "selected" /\ cmd = "IDLE"
  /\ srv' = "idle" /\ cmd' = "none"
  /\ pipe' = Append(pipe, "cont")
  /\ UNCHANGED <<changes, pending, pc, session, connectedOnce, report, others, queued, acted>>

Report ==
  /\ pending
  /\ srv = "idle" \/ ("outside" \in world /\ srv = "selected")
  /\ pending' = FALSE
  /\ pipe' = Append(pipe, "change")
  /\ UNCHANGED <<changes, srv, cmd, pc, session, connectedOnce, report, others, queued, acted>>

AnswerDone ==
  /\ srv = "idle" /\ cmd = "DONE"
  /\ srv' = "selected" /\ cmd' = "none" /\ pending' = FALSE
  /\ pipe' = pipe \o (IF pending THEN <<"change", "ok">> ELSE <<"ok">>)
  /\ UNCHANGED <<changes, pc, session, connectedOnce, report, others, queued, acted>>

(* The server ends the IDLE by itself; a DONE that crosses its answer is ignored. *)
EndIdle ==
  /\ srv = "idle" /\ cmd = "none"
  /\ faults < MaxFaults /\ faults' = faults + 1
  /\ srv' = "selected"
  /\ pipe' = Append(pipe, "ok")
  /\ UNCHANGED <<world, changes, pending, cmd, pc, session, connectedOnce, report, resumed, shutdown,
                 queued, acted>>

(* The connection is dead without a word. *)
ServerDies ==
  /\ srv \notin {"none", "dead"}
  /\ faults < MaxFaults /\ faults' = faults + 1
  /\ srv' = "dead"
  /\ UNCHANGED <<world, changes, pending, cmd, pipe, pc, session, connectedOnce, report, resumed,
                 shutdown, queued, acted>>

Resume ==
  /\ faults < MaxFaults /\ faults' = faults + 1
  /\ resumed' = TRUE
  /\ UNCHANGED <<world, server, pc, session, connectedOnce, report, shutdown, queued, acted>>

Shutdown ==
  /\ ~shutdown
  /\ shutdown' = TRUE
  /\ UNCHANGED <<world, server, pc, session, connectedOnce, report, resumed, faults, queued, acted>>

(* The debounce window is over: a run of the command sees every change so far. *)
Act ==
  /\ queued
  /\ "hasty" \in world \/ ~told
  /\ queued' = FALSE
  /\ acted' = changes
  /\ UNCHANGED <<server, pc, session, connectedOnce, report, others>>

-----------------------------------------------------------------------------
(* watch_mailbox_forever.                                                  *)

LoopHead ==
  /\ pc = "head"
  /\ ~shutdown
  /\ pc' = "connect" /\ phase' = "Connecting"
  /\ UNCHANGED <<server, session, connectedOnce, ready, others, queued, acted>>

Stop ==
  /\ pc \in {"head", "backoff"}
  /\ shutdown
  /\ pc' = "stopped" /\ phase' = "Stopped"
  /\ UNCHANGED <<server, session, connectedOnce, ready, others, queued, acted>>

(* Mutant: that the session was established is forgotten with it. *)
DropSessionForgets ==
  /\ srv' = "none" /\ pending' = FALSE /\ cmd' = "none" /\ pipe' = <<>>
  /\ half' = FALSE /\ told' = FALSE /\ established' = FALSE
  /\ UNCHANGED <<changes, connectedOnce>>

(* The session is over, whatever ended it. *)
DropSession ==
  /\ srv' = "none" /\ pending' = FALSE /\ cmd' = "none" /\ pipe' = <<>>
  /\ half' = FALSE /\ told' = FALSE /\ established' = FALSE
  /\ connectedOnce' = (connectedOnce \/ established)
  /\ UNCHANGED changes

(* An I/O error, a closed connection, a rejected command, an oversized line; in the waits with
   a timeout, also a dead server. *)
SessionFails ==
  /\ pc \in Waiting \cup {"idling"}
  /\ \/ srv = "dead" /\ pc # "idling" /\ UNCHANGED faults
     \/ faults < MaxFaults /\ faults' = faults + 1
  /\ DropSession
  /\ pc' = "backoff" /\ phase' = "Reconnecting"
  /\ UNCHANGED <<world, ready, resumed, shutdown, queued, acted>>

(* The helper fails or the server rejects the credentials: the daemon is to stop. *)
AuthFails ==
  /\ pc = "auth"
  /\ faults < MaxFaults /\ faults' = faults + 1
  /\ DropSession
  /\ pc' = "failed" /\ phase' = "Crashed"
  /\ ready' = IF ready = "nothing" THEN "failed" ELSE ready
  /\ UNCHANGED <<world, resumed, shutdown, queued, acted>>

BackoffOver ==
  /\ pc = "backoff"
  /\ pc' = "head"
  /\ UNCHANGED <<server, session, connectedOnce, report, others, queued, acted>>

(* A resume drops the session, or the wait for the next one, at once. *)
SeeResume ==
  /\ pc \in Waiting \cup {"idling", "leaving", "backoff"}
  /\ resumed
  /\ DropSession
  /\ pc' = "head" /\ resumed' = FALSE
  /\ UNCHANGED <<world, report, shutdown, faults, queued, acted>>

-----------------------------------------------------------------------------
(* run_mailbox_once.                                                       *)

(* TCP, TLS and greeting. *)
Connect ==
  /\ pc = "connect"
  /\ srv' = "auth"
  /\ pc' = "auth"
  /\ UNCHANGED <<changes, pending, cmd, pipe, session, connectedOnce, report, others, queued,
                 acted>>

Authenticate ==
  /\ pc = "auth" /\ srv = "auth"
  /\ cmd' = "EXAMINE"
  /\ pc' = "examine"
  /\ UNCHANGED <<changes, srv, pending, pipe, session, connectedOnce, report, others, queued,
                 acted>>

(* A command of the client; the DONE it may overtake has crossed the end of its IDLE. *)
EnterIdle == pc' = "continuation" /\ cmd' = "IDLE"

NextLine == Head(pipe)
TakeLine == pipe # <<>> /\ pipe' = Tail(pipe)

(* wait_tagged passes over everything but the completion. *)
ReadExamine ==
  /\ pc = "examine"
  /\ TakeLine
  /\ IF NextLine = "ok" THEN EnterIdle ELSE UNCHANGED <<pc, cmd>>
  /\ UNCHANGED <<changes, srv, pending, session, connectedOnce, report, others, queued, acted>>

(* wait_idle_continuation passes over everything but the continuation. *)
PassOver ==
  /\ pc = "continuation"
  /\ TakeLine
  /\ NextLine # "cont"
  /\ UNCHANGED <<changes, srv, pending, cmd, pc, session, connectedOnce, report, others, queued,
                 acted>>

(* Mutant: no catch-up event after a reconnect. *)
IdleStartedQuietly ==
  /\ pc = "continuation"
  /\ TakeLine
  /\ NextLine = "cont"
  /\ pc' = "idling" /\ phase' = "Idling"
  /\ established' = TRUE
  /\ ready' = IF ready = "nothing" THEN "ok" ELSE ready
  /\ UNCHANGED <<changes, srv, pending, cmd, half, told, connectedOnce, others, queued, acted>>

(* IDLE has begun.  The first time in a session that is not the first, a catch-up event. *)
IdleStarted ==
  /\ pc = "continuation"
  /\ TakeLine
  /\ NextLine = "cont"
  /\ pc' = "idling" /\ phase' = "Idling"
  /\ established' = TRUE
  /\ queued' = (queued \/ (~established /\ connectedOnce))
  /\ ready' = IF ready = "nothing" THEN "ok" ELSE ready
  /\ UNCHANGED <<changes, srv, pending, cmd, half, told, connectedOnce, others, acted>>

-----------------------------------------------------------------------------
(* idle_forever.                                                           *)

(* The first piece of a line has been taken; the select goes on waiting for the rest. *)
ReadHalf ==
  /\ "torn" \in world /\ pc = "idling" /\ ~half
  /\ pipe # <<>> /\ NextLine = "change"
  /\ half' = TRUE
  /\ UNCHANGED <<server, pc, told, established, connectedOnce, report, others, queued, acted>>

ReadChange ==
  /\ pc = "idling"
  /\ TakeLine
  /\ NextLine = "change"
  /\ half' = FALSE
  /\ queued' = TRUE /\ phase' = "Idling"
  /\ UNCHANGED <<changes, srv, pending, cmd, pc, told, established, connectedOnce, ready, others,
                 acted>>

ServerEndedIdle ==
  /\ pc = "idling"
  /\ TakeLine
  /\ NextLine = "ok"
  /\ EnterIdle
  /\ UNCHANGED <<changes, srv, pending, session, connectedOnce, report, others, queued, acted>>

(* Mutant: what read_line had of a line is taken to be still there. *)
FinishIdleKeepsHalf ==
  /\ pc = "idling"
  /\ cmd' = "DONE"
  /\ told' = FALSE
  /\ UNCHANGED <<changes, srv, pending, pipe, half, established, connectedOnce, report, others,
                 queued, acted>>

(* DONE is sent.  What read_line had of a line is lost with its future. *)
FinishIdle ==
  /\ pc = "idling"
  /\ cmd' = "DONE"
  /\ half' = FALSE /\ told' = FALSE
  /\ pipe' = IF half THEN <<"rest">> \o Tail(pipe) ELSE pipe
  /\ UNCHANGED <<changes, srv, pending, established, connectedOnce, report, others, queued, acted>>

Refresh == FinishIdle /\ pc' = "done"

(* Mutant: shutdown is only looked at between two sessions. *)
IdleShutdownIgnored == FALSE /\ FinishIdle /\ pc' = "leaving"

IdleShutdown == shutdown /\ FinishIdle /\ pc' = "leaving"

(* Mutant: changes reported after DONE are passed over. *)
ReadLateSilently ==
  /\ pc \in {"done", "leaving"}
  /\ TakeLine
  /\ NextLine \in {"change", "rest"}
  /\ UNCHANGED <<changes, srv, pending, cmd, pc, half, told, established, connectedOnce, report,
                 others, queued, acted>>

(* wait_idle_completion queues an event for the first change it reads, and no more. *)
ReadLate ==
  /\ pc \in {"done", "leaving"}
  /\ TakeLine
  /\ NextLine \in {"change", "rest"}
  /\ IF NextLine = "change" /\ ~told THEN queued' = TRUE /\ told' = TRUE
                                     ELSE UNCHANGED <<queued, told>>
  /\ UNCHANGED <<changes, srv, pending, cmd, pc, half, established, connectedOnce, report, others,
                 acted>>

IdleDone ==
  /\ pc = "done"
  /\ TakeLine
  /\ NextLine = "ok"
  /\ EnterIdle
  /\ told' = FALSE /\ phase' = "Idling"
  /\ UNCHANGED <<changes, srv, pending, half, established, connectedOnce, ready, others, queued,
                 acted>>

(* The tagged answer, an error or the timeout: the watcher stops in any case. *)
Leave ==
  /\ pc = "leaving"
  /\ (pipe # <<>> /\ NextLine = "ok") \/ srv = "dead" \/ faults < MaxFaults
  /\ DropSession
  /\ pc' = "stopped" /\ phase' = "Stopped"
  /\ UNCHANGED <<ready, others, queued, acted>>

Terminated == pc \in {"stopped", "failed"} /\ UNCHANGED vars

ServerStep == AnswerExamine \/ AnswerIdle \/ Report \/ AnswerDone
ReadStep ==
  \/ ReadExamine \/ PassOver \/ IdleStarted
  \/ ReadChange \/ ServerEndedIdle \/ ReadLate \/ IdleDone
LoopStep == LoopHead \/ Stop \/ BackoffOver \/ Connect \/ Authenticate \/ Leave

Next ==
  \/ Change \/ ServerStep \/ EndIdle \/ ServerDies \/ Resume \/ Shutdown \/ Act
  \/ LoopStep \/ SessionFails \/ AuthFails \/ SeeResume
  \/ ReadStep \/ ReadHalf \/ Refresh \/ IdleShutdown
  \/ Terminated

(* Tasks are scheduled, timers fire, a server that is alive answers, and a select does not pass
   over a branch that is ready for ever (tokio picks among them at random). *)
Fairness ==
  /\ WF_vars(AnswerExamine) /\ WF_vars(AnswerIdle) /\ WF_vars(Report) /\ WF_vars(AnswerDone)
  /\ WF_vars(LoopStep) /\ WF_vars(ReadStep) /\ WF_vars(Refresh) /\ WF_vars(Act)
  /\ WF_vars(SeeResume) /\ SF_vars(IdleShutdown)
  /\ WF_vars(srv = "dead" /\ SessionFails)

Safety == Init /\ [][Next]_vars
Spec == Safety /\ Fairness

-----------------------------------------------------------------------------
(* Properties.                                                             *)

(* Every variable has its type. *)
ImapTypeOK ==
  /\ world \in Worlds
  /\ changes \in 0..MaxChanges /\ acted \in 0..changes /\ faults \in 0..MaxFaults
  /\ srv \in {"none", "auth", "selected", "idle", "dead"}
  /\ cmd \in {"none", "EXAMINE", "IDLE", "DONE"}
  /\ pipe \in Seq(Lines) /\ (half => pipe # <<>>)
  /\ pc \in Points /\ phase \in Phases /\ ready \in {"nothing", "ok", "failed"}
  /\ <<pending, half, told, established, connectedOnce, resumed, shutdown, queued>>
       \in BOOLEAN \X BOOLEAN \X BOOLEAN \X BOOLEAN \X BOOLEAN \X BOOLEAN \X BOOLEAN \X BOOLEAN

(* src/README.md gives the signal of an imap_idle source as "an IMAP mailbox reports a change
   while in IDLE".  So, once the source has been established, no change of the mailbox gets
   lost: a run has seen it, an event for it waits, the server still has to report it, its
   report is under way, or a new session will catch up (there is none now, or it is dead and
   bound to fail). *)
NothingPassedOver ==
  ready = "ok" /\ pc \notin {"stopped", "failed"} =>
    \/ acted = changes \/ queued
    \/ pending \/ "change" \in Range(pipe)
    \/ ~established \/ srv = "dead"

(* No change gets lost, through refreshes, failures, dead connections and resumes, if the server
   reports in whole lines and only while IDLE, and the debounce window outlasts the wait for
   the answer to DONE. *)
NoMissedChange == world = {} => NothingPassedOver

(* The source is shown idling only in an established session, start-up is told of success only
   once there has been one, and never of both outcomes. *)
ImapReportsHonestly ==
  /\ phase = "Idling" => established \/ pc = "head"
  /\ established => phase = "Idling"
  /\ ready = "ok" <=> established \/ connectedOnce
  /\ ready = "failed" => pc = "failed"

(* In the same world, every change after the first session was established is seen by a run
   eventually, unless the daemon stops. *)
EventuallyActed ==
  \A i \in 1..MaxChanges :
    (world = {} /\ changes >= i /\ ready = "ok")
      ~> (acted >= i \/ shutdown \/ pc = "failed")

(* After shutdown the watcher returns, wherever it was: no wait of a session is unbounded. *)
ImapStops == shutdown ~> pc \in {"stopped", "failed"}
=============================================================================

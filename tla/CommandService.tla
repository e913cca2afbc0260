--------------------------- MODULE CommandService ---------------------------
(***************************************************************************)
(* What a command lane promises the sources that trigger its commands.     *)
(*                                                                         *)
(* A source asks for its command and waits.  The lane runs one command at  *)
(* a time; a run serves sources that were already waiting when it began,   *)
(* all of them for the same command, and reports to exactly those.  Before *)
(* shutdown a request for a configured command is never turned away.       *)
(***************************************************************************)

CONSTANTS
  Sources,     (* the sources that trigger commands of this lane *)
  Commands,    (* the command names those sources ask for *)
  Configured,  (* the commands the lane has an executor for *)
  CmdOf        (* the command each source's trigger is bound to *)

VARIABLES
  status,      (* what each source knows of its request *)
  closing      (* shutdown was requested *)

svars == <<status, closing>>

Statuses == {"idle", "waiting", "served", "reported", "refused"}

ServiceTypeOK ==
  /\ status \in [Sources -> Statuses]
  /\ closing \in BOOLEAN

ServiceInit ==
  /\ status = [s \in Sources |-> "idle"]
  /\ closing = FALSE

InStatus(x) == {s \in Sources : status[s] = x}

Move(S, x) == status' = [s \in Sources |-> IF s \in S THEN x ELSE status[s]]

(* A source's request is accepted by the lane. *)
Accept(s) ==
  /\ status[s] = "idle"
  /\ Move({s}, "waiting")
  /\ UNCHANGED closing

(* A run of c begins; it serves some of the sources waiting for c. *)
Serve(c) ==
  /\ InStatus("served") = {}
  /\ c \in Configured
  /\ \E S \in SUBSET InStatus("waiting") :
       /\ S # {}
       /\ \A s \in S : CmdOf[s] = c
       /\ Move(S, "served")
  /\ UNCHANGED closing

(* The run ends: every source it serves gets its report, nobody else does. *)
Report ==
  /\ InStatus("served") # {}
  /\ Move(InStatus("served"), "reported")
  /\ UNCHANGED closing

(* Sources are turned away: during shutdown, or for a command nobody configured. *)
Refuse ==
  /\ \E S \in SUBSET InStatus("waiting") :
       /\ S # {}
       /\ \A s \in S : closing \/ CmdOf[s] \notin Configured
       /\ Move(S, "refused")
  /\ UNCHANGED closing

(* A source that asks a lane that has stopped. *)
RefuseNew(s) ==
  /\ closing
  /\ status[s] = "idle"
  /\ Move({s}, "refused")
  /\ UNCHANGED closing

(* A source takes note of the answer. *)
Release(s) ==
  /\ status[s] \in {"reported", "refused"}
  /\ Move({s}, "idle")
  /\ UNCHANGED closing

Close ==
  /\ closing' = TRUE
  /\ UNCHANGED status

ServiceNext ==
  \/ \E s \in Sources : Accept(s) \/ RefuseNew(s) \/ Release(s)
  \/ \E c \in Commands : Serve(c)
  \/ Report
  \/ Refuse
  \/ Close

(* Safety part of the promise: single flight, fresh runs, no refusals before shutdown. *)
ServiceSafety == ServiceInit /\ [][ServiceNext]_svars
=============================================================================

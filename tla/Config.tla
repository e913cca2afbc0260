------------------------------- MODULE Config --------------------------------
(***************************************************************************)
(* The configuration: what src/config.rs and validate_auth_helpers of      *)
(* src/auth.rs accept, and what run_daemon and test_command of src/main.rs *)
(* make of it.  A pure module: a configuration is a record, an option is   *)
(* the set of the at most one value given.                                 *)
(*                                                                         *)
(* A name is the sequence of its parts between slashes, so that the legacy *)
(* source name "account/mailbox" is a concatenation, and two of them can   *)
(* be the same.  The empty sequence stands for every blank text (of the    *)
(* watch paths, which are not trimmed, for the empty one), a part Break    *)
(* for a text with a line break.                                           *)
(***************************************************************************)
EXTENDS Naturals, Sequences, FiniteSets

CONSTANTS
  MaxSeconds,   (* the largest u64 *)
  Break,        (* a part of a name that contains CR or LF *)
  NotFound      (* helper commands whose program is a plain word that is not on the PATH *)

ASSUME ConfigAssumption == MaxSeconds \in Nat

Blank(name) == name = <<>>
HasBreak(name) == \E k \in DOMAIN name : name[k] = Break
OrElse(option, default) == IF option = {} THEN default ELSE CHOOSE x \in option : TRUE
Greater(a, b) == IF a < b THEN b ELSE a
Greatest(numbers, least) ==
  IF numbers = {} THEN least ELSE CHOOSE x \in numbers : \A y \in numbers : y <= x

-----------------------------------------------------------------------------
(* Global settings.                                                        *)

DefaultAuthBytes == 65536
DefaultOutputBytes == 1048576

Default == [debounce |-> 10, max_debounce |-> 60, idle_refresh |-> 1740, watcher_stale |-> 3600,
            auth_timeout |-> 30, auth_bytes |-> DefaultAuthBytes, command_timeout |-> 300,
            connect_timeout |-> 30, operation_timeout |-> 60, min_interval |-> 60,
            output_bytes |-> DefaultOutputBytes, tail_lines |-> 100]

(* What serde makes of a file: lists are lists, and an option is at most one number of a width. *)
IsList(s) == s \in Seq({s[i] : i \in DOMAIN s})
IsOption(x) == x \subseteq 0 .. MaxSeconds /\ \A m, n \in x : m = n

WellFormed(c) ==
  /\ IsList(c.accounts) /\ \A i \in DOMAIN c.accounts : IsList(c.accounts[i].mailboxes)
  /\ IsList(c.commands) /\ \A i \in DOMAIN c.commands : IsOption(c.commands[i].timeout)
  /\ IsList(c.sources) /\ \A k \in DOMAIN c.sources : IsOption(c.sources[k].api)
  /\ \A s \in DOMAIN Default : IsOption(c.settings[s])

Positive == DOMAIN Default \ {"debounce", "min_interval"}

Setting(c, s) == OrElse(c.settings[s], Default[s])

DoubleSaturating(n) == IF n > MaxSeconds - n THEN MaxSeconds ELSE 2 * n

ValidSettings(c) ==
  /\ \A s \in Positive : Setting(c, s) > 0
  /\ c.capture = {} \/ c.log = {}
  /\ Setting(c, "idle_refresh") >= 60
  /\ Setting(c, "watcher_stale") >= DoubleSaturating(Setting(c, "idle_refresh"))

DefaultMode(c) ==
  IF OrElse(c.capture, OrElse(c.log, TRUE)) THEN "failure_tail" ELSE "silent"

DefaultPolicy(c) ==
  [mode |-> DefaultMode(c), bytes |-> Setting(c, "output_bytes"), lines |-> Setting(c, "tail_lines")]

-----------------------------------------------------------------------------
(* Commands.                                                               *)

LaneName(k) == OrElse(k.lane, k.name)

CommandNames(c) == {c.commands[i].name : i \in DOMAIN c.commands}

ValidCommands(c) ==
  /\ \A i \in DOMAIN c.commands :
       LET k == c.commands[i]
       IN  /\ ~Blank(k.name) /\ ~Blank(k.cmd)
           /\ \A x \in k.lane : ~Blank(x)
           /\ \A n \in k.timeout \cup k.bytes \cup k.lines : n > 0
  /\ \A i, j \in DOMAIN c.commands : c.commands[i].name = c.commands[j].name => i = j

CommandTimeout(c, k) == OrElse(k.timeout, Setting(c, "command_timeout"))
CommandInterval(c, k) == OrElse(k.interval, Setting(c, "min_interval"))
CommandPolicy(c, k) ==
  [mode |-> OrElse(k.mode, DefaultMode(c)),
   bytes |-> OrElse(k.bytes, Setting(c, "output_bytes")),
   lines |-> OrElse(k.lines, Setting(c, "tail_lines"))]

-----------------------------------------------------------------------------
(* Accounts.                                                               *)

AuthMethods == {"xoauth2_cmd", "password_cmd", "password"}

(* The field of the method is there, and those of the others are not. *)
ValidAuth(a) ==
  /\ a.secrets[a.auth] # {}
  /\ \A x \in a.secrets[a.auth] : IF a.auth = "password" THEN ~HasBreak(x) ELSE ~Blank(x)
  /\ \A m \in AuthMethods \ {a.auth} : a.secrets[m] = {}

ValidAccount(a) ==
  /\ ~Blank(a.name) /\ ~Blank(a.host) /\ ~Blank(a.username) /\ ~HasBreak(a.username)
  /\ OrElse(a.port, 993) # 0
  /\ ValidAuth(a)
  /\ \A j \in DOMAIN a.mailboxes :
       LET m == a.mailboxes[j]
       IN  ~Blank(m.name) /\ ~HasBreak(m.name) /\ ~Blank(m.on_notify)

AccountNames(c) == {c.accounts[i].name : i \in DOMAIN c.accounts}

ValidAccounts(c) ==
  /\ \A i \in DOMAIN c.accounts : ValidAccount(c.accounts[i])
  /\ \A i, j \in DOMAIN c.accounts : c.accounts[i].name = c.accounts[j].name => i = j

-----------------------------------------------------------------------------
(* Sources: the mailboxes of the accounts, then the others, in the order   *)
(* of their places.  A watcher is such a place.                            *)

LegacyName(account, mailbox) == account \o mailbox

Mailboxes(c) ==
  UNION {{<<1, i, j>> : j \in DOMAIN c.accounts[i].mailboxes} : i \in DOMAIN c.accounts}
Sources(c) == {<<2, k, 1>> : k \in DOMAIN c.sources}
Watchers(c) == Mailboxes(c) \cup Sources(c)

Mailbox(c, w) == c.accounts[w[2]].mailboxes[w[3]]
Source(c, w) == c.sources[w[2]]

WatcherName(c, w) ==
  IF w[1] = 1 THEN LegacyName(c.accounts[w[2]].name, Mailbox(c, w).name) ELSE Source(c, w).name

SourceCount(c) == Cardinality(Mailboxes(c)) + Len(c.sources)

ValidImapSource(c, s) ==
  /\ ~Blank(s.account) /\ ~Blank(s.mailbox) /\ ~HasBreak(s.mailbox)
  /\ s.account \in AccountNames(c)

ValidGmailSource(s) ==
  /\ ~Blank(s.token)
  /\ \A x \in s.labels : ~Blank(x) /\ ~HasBreak(x)
  /\ \A n \in s.poll : n >= 10
  /\ \A n \in s.api : n > 0
  /\ \A n \in s.page : n \in 1 .. 500

ValidFsSource(s) ==
  /\ s.paths # {} /\ \A x \in s.paths : ~Blank(x)
  /\ \A x \in s.state_cmd : ~Blank(x)
  /\ \A n \in s.max_debounce : n > 0

ValidSource(c, s) ==
  /\ ~Blank(s.name) /\ ~Blank(s.command) /\ s.command \in CommandNames(c)
  /\ s.type = "imap_idle" => ValidImapSource(c, s)
  /\ s.type = "gmail_api_poll" => ValidGmailSource(s)
  /\ s.type = "fs_state" => ValidFsSource(s)

(* Mutant: the names of the mailboxes are compared within their account only. *)
DistinctWithinAccount(c) ==
  \A w, v \in Watchers(c) : w[1] = v[1] /\ w[2] = v[2] /\ WatcherName(c, w) = WatcherName(c, v) => w = v

(* No two watchers have one name, and no mailbox has the name of a command. *)
DistinctNames(c) ==
  /\ \A w, v \in Watchers(c) : WatcherName(c, w) = WatcherName(c, v) => w = v
  /\ \A w \in Mailboxes(c) : WatcherName(c, w) \notin CommandNames(c)

Valid(c) ==
  /\ SourceCount(c) > 0
  /\ ValidSettings(c) /\ ValidCommands(c) /\ ValidAccounts(c)
  /\ DistinctNames(c)
  /\ \A k \in DOMAIN c.sources : ValidSource(c, c.sources[k])

(* validate_auth_helpers, as far as the program of a helper can be looked up. *)
Helpers(c) ==
  UNION {c.accounts[i].secrets[c.accounts[i].auth] :
           i \in {k \in DOMAIN c.accounts : c.accounts[k].auth # "password"}}
    \cup {c.sources[k].token : k \in {n \in DOMAIN c.sources : c.sources[n].type = "gmail_api_poll"}}

HelpersFound(c) == Helpers(c) \cap NotFound = {}

-----------------------------------------------------------------------------
(* What the daemon makes of it.                                            *)

(* runtime_command_specs: a mailbox has a command and a lane of its own. *)
MailboxSpec(c, w) ==
  [name |-> WatcherName(c, w), lane |-> WatcherName(c, w), cmd |-> Mailbox(c, w).on_notify,
   timeout |-> Setting(c, "command_timeout"), interval |-> Setting(c, "min_interval"),
   policy |-> DefaultPolicy(c)]

CommandSpec(c, k) ==
  [name |-> k.name, lane |-> LaneName(k), cmd |-> k.cmd, timeout |-> CommandTimeout(c, k),
   interval |-> CommandInterval(c, k), policy |-> CommandPolicy(c, k)]

Specs(c) ==
  {MailboxSpec(c, w) : w \in Mailboxes(c)}
    \cup {CommandSpec(c, c.commands[i]) : i \in DOMAIN c.commands}

(* commands_by_lane, and the count validate announces to RuntimeState. *)
LanesOf(c) == {s.lane : s \in Specs(c)}
LaneCount(c) ==
  Cardinality({WatcherName(c, w) : w \in Mailboxes(c)}
                \cup {LaneName(c.commands[i]) : i \in DOMAIN c.commands})

(* The command a watcher triggers, and the lanes that would take its requests. *)
TriggerName(c, w) == IF w[1] = 1 THEN WatcherName(c, w) ELSE Source(c, w).command
Triggered(c, w) == {s \in Specs(c) : s.name = TriggerName(c, w)}

(* Every trigger and account reference resolves, or run_daemon returns an error half way. *)
Resolves(c) ==
  \A w \in Watchers(c) :
    /\ Triggered(c, w) # {}
    /\ w[1] = 2 /\ Source(c, w).type = "imap_idle" => Source(c, w).account \in AccountNames(c)

RunsOnStartup(c, w) == w[1] = 2 /\ Source(c, w).startup

MaxCommandTimeout(c) == Greatest({s.timeout : s \in Specs(c)}, Setting(c, "command_timeout"))

MaxOperationTimeout(c) ==
  Greater(Setting(c, "operation_timeout"),
          Greatest({OrElse(c.sources[k].api, 60) :
                      k \in {n \in DOMAIN c.sources : c.sources[n].type = "gmail_api_poll"}}, 0))

ShutdownGrace(c) == Greater(MaxOperationTimeout(c), MaxCommandTimeout(c)) + 5

-----------------------------------------------------------------------------
(* What test-command runs: a command by its name, or by account and        *)
(* mailbox, the mailboxes of the accounts first.  The result is the set of *)
(* the one [cmd, timeout, policy] found.                                   *)

RunOf(cmd, timeout, policy) == [cmd |-> cmd, timeout |-> timeout, policy |-> policy]

(* Mutant: the command's own output policy is left out. *)
TestByNameGlobal(c, name) ==
  {RunOf(c.commands[i].cmd, CommandTimeout(c, c.commands[i]), DefaultPolicy(c)) :
     i \in {k \in DOMAIN c.commands : c.commands[k].name = name}}

TestByName(c, name) ==
  {RunOf(c.commands[i].cmd, CommandTimeout(c, c.commands[i]), CommandPolicy(c, c.commands[i])) :
     i \in {k \in DOMAIN c.commands : c.commands[k].name = name}}

FirstSource(c, account, mailbox) ==
  LET Matches(k) == /\ c.sources[k].type = "imap_idle"
                    /\ c.sources[k].account = account /\ c.sources[k].mailbox = mailbox
  IN  {k \in DOMAIN c.sources : Matches(k) /\ \A n \in 1 .. k - 1 : ~Matches(n)}

(* The policy is the global one, also when the command has its own. *)
TestByMailbox(c, account, mailbox) ==
  LET legacy == {w \in Mailboxes(c) : /\ c.accounts[w[2]].name = account
                                      /\ Mailbox(c, w).name = mailbox}
      named == {c.commands[i] : i \in {n \in DOMAIN c.commands :
                  \E k \in FirstSource(c, account, mailbox) :
                    c.commands[n].name = c.sources[k].command}}
  IN  IF legacy # {}
        THEN {RunOf(Mailbox(c, w).on_notify, Setting(c, "command_timeout"), DefaultPolicy(c)) :
                w \in legacy}
        ELSE {RunOf(k.cmd, CommandTimeout(c, k), DefaultPolicy(c)) : k \in named}
=============================================================================

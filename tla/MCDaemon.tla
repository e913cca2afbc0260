------------------------------ MODULE MCDaemon -------------------------------
(***************************************************************************)
(* Configurations: a sound one, with a mailbox, a command and a source of  *)
(* every type in turn; its variants with one thing changed; and names that *)
(* coincide once account and mailbox are joined.  The command shares the   *)
(* lane of the mailbox, but in variants that give it a lane of its own.    *)
(***************************************************************************)
EXTENDS Daemon

a == <<"a">>
b == <<"b">>
k == <<"k">>
blank == <<>>
torn == <<Break>>
text == <<"text">>
missing == <<"missing">>

Unset == [s \in DOMAIN Default |-> {}]
Secret(m, x) == [n \in AuthMethods |-> IF n = m THEN {x} ELSE {}]

Box(name) == [name |-> name, on_notify |-> text]
Account(name, boxes) ==
  [name |-> name, host |-> text, username |-> text, port |-> {}, auth |-> "password_cmd",
   secrets |-> Secret("password_cmd", text), mailboxes |-> boxes]
Command(name) ==
  [name |-> name, lane |-> {a \o b}, cmd |-> text, timeout |-> {}, interval |-> {}, mode |-> {},
   bytes |-> {}, lines |-> {}]
SourceOf(type, name) ==
  [type |-> type, name |-> name, command |-> k, account |-> a, mailbox |-> b, token |-> text,
   labels |-> {}, poll |-> {}, api |-> {}, page |-> {}, paths |-> {text}, state_cmd |-> {},
   max_debounce |-> {}, startup |-> type # "system_resume"]

Base ==
  [settings |-> Unset, capture |-> {}, log |-> {}, accounts |-> <<Account(a, <<Box(b)>>)>>,
   commands |-> <<Command(k)>>, sources |-> <<SourceOf("fs_state", <<"s">>)>>]

WithSetting(s, n) == [Base EXCEPT !.settings[s] = {n}]
WithCommand(x) == [Base EXCEPT !.commands[1] = x]
WithAccount(x) == [Base EXCEPT !.accounts[1] = x]
WithSource(x) == [Base EXCEPT !.sources[1] = x]
WithAccounts(x, y) == [Base EXCEPT !.accounts = <<x, y>>]

Types == {"imap_idle", "gmail_api_poll", "fs_state", "system_resume"}

SettingsVariants ==
  {WithSetting(s, 0) : s \in DOMAIN Default}
    \cup {WithSetting("idle_refresh", n) : n \in {59, 60, 1801}}
    \cup {WithSetting("watcher_stale", n) : n \in {3479, 3480}}
    \cup {[Base EXCEPT !.settings["idle_refresh"] = {MaxSeconds - 1},
                       !.settings["watcher_stale"] = {MaxSeconds}]}
    \cup {[Base EXCEPT !.capture = {FALSE}], [Base EXCEPT !.log = {FALSE}],
          [Base EXCEPT !.capture = {TRUE}, !.log = {TRUE}]}

CommandVariants ==
  LET c == Command(k)
  IN  {WithCommand(x) : x \in
         {[c EXCEPT !.name = blank], [c EXCEPT !.cmd = blank], [c EXCEPT !.lane = {blank}],
          [c EXCEPT !.lane = {}], [c EXCEPT !.timeout = {0}], [c EXCEPT !.bytes = {0}],
          [c EXCEPT !.lines = {0}], [c EXCEPT !.timeout = {400}, !.mode = {"silent"}],
          Command(a \o b)}}
        \cup {[Base EXCEPT !.commands = <<c, c>>],
              [Base EXCEPT !.commands = <<c, [c EXCEPT !.name = b]>>]}

AccountVariants ==
  LET x == Account(a, <<Box(b)>>)
  IN  {WithAccount(y) : y \in
         {[x EXCEPT !.name = blank], [x EXCEPT !.host = blank], [x EXCEPT !.username = torn],
          [x EXCEPT !.port = {0}], [x EXCEPT !.auth = "password"],
          [x EXCEPT !.auth = "password", !.secrets = Secret("password", blank)],
          [x EXCEPT !.auth = "password", !.secrets = Secret("password", torn)],
          [x EXCEPT !.secrets["password"] = {text}],
          [x EXCEPT !.secrets = Secret("password_cmd", blank)],
          [x EXCEPT !.secrets = Secret("password_cmd", missing)],
          [x EXCEPT !.mailboxes[1].name = torn], [x EXCEPT !.mailboxes[1].on_notify = blank],
          [x EXCEPT !.mailboxes = <<>>]}}
        \cup {[Base EXCEPT !.accounts = <<>>], [Base EXCEPT !.accounts = <<>>, !.sources = <<>>],
              WithAccounts(x, x), WithAccount(Account(a, <<Box(b), Box(b)>>)),
              WithAccounts(Account(a, <<Box(b \o a)>>), Account(a \o b, <<Box(a)>>))}

SourceVariants ==
  LET imap == SourceOf("imap_idle", <<"s">>)
      gmail == SourceOf("gmail_api_poll", <<"s">>)
      fs == SourceOf("fs_state", <<"s">>)
  IN  {WithSource(SourceOf(t, n)) : t \in Types, n \in {<<"s">>, blank, a \o b, k}}
        \cup {WithSource([SourceOf(t, <<"s">>) EXCEPT !.command = x]) : t \in Types, x \in {blank, b}}
        \cup {WithSource(x) : x \in
               {[imap EXCEPT !.account = b], [imap EXCEPT !.mailbox = torn],
                [gmail EXCEPT !.token = blank], [gmail EXCEPT !.token = missing],
                [gmail EXCEPT !.labels = {torn}], [gmail EXCEPT !.poll = {9}],
                [gmail EXCEPT !.api = {0}], [gmail EXCEPT !.page = {501}],
                [gmail EXCEPT !.poll = {10}, !.api = {500}, !.page = {500}],
                [fs EXCEPT !.paths = {}], [fs EXCEPT !.paths = {text, blank}],
                [fs EXCEPT !.state_cmd = {blank}], [fs EXCEPT !.max_debounce = {0}]}}

MCConfigs == {Base} \cup SettingsVariants \cup CommandVariants \cup AccountVariants \cup SourceVariants
MCNotFound == {missing}

(* One source that reports late and one that may fail. *)
Small == {WithSource(SourceOf("gmail_api_poll", <<"s">>))}
=============================================================================

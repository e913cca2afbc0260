# A verification development for mailwake

mailwake is a daemon that watches mail sources (IMAP mailboxes, the Gmail API,
files, wake-ups of the machine) and runs a configured shell command when one of
them signals.  What it promises is short: a signal is followed by a run that
starts after it, commands of one lane never overlap, a run is bounded in time
and output, and shutdown brings everything to rest.  What makes it hard is that
every promise is kept by several tokio tasks that meet in bounded channels,
`select!`s and timers.  This directory models those tasks in TLA+, checks the
models with TLC and proves the central safety properties with TLAPS.

Paths such as `lane.rs` are files of the repository's `src/` directory.

## 1. Inventory

How the parts fit together:

    watcher task --events (mpsc, try_send)--> runner task --request (mpsc)--> lane
      imap.rs                                   debounce.rs                   lane.rs
      gmail_api_poll.rs                         system_resume.rs                |
      system_resume.rs (D-Bus)                  fs_state.rs                     v
      notify callback (fs_state.rs)                  ^                    process.rs
                                                     '--lifecycle (Started, Finished)

All tasks share a `watch` channel for shutdown, `RuntimeState` for health, and
(IMAP only) a `watch` channel for system resume.

| component | state | operations | what is hard | correct means |
|---|---|---|---|---|
| command lane (`lane.rs`) | request channel, `PendingRequests` (order and waiters), last finish per command, phase | receive, coalesce, cool down, run, report, drain, stop | unbiased selects, requests during cool-down and run, full channel, shutdown anywhere | one run at a time; a request is served by a run that began after it, exactly once; `min_interval`; nobody is left waiting |
| debounce runner (`debounce.rs`) | event channel, pending flag | wait, drain, submit, drain again | events during the run, events dropped into a full channel | no wake-up lost |
| resume runner (`system_resume.rs`) | event channel, settle timer | wait for quiet, submit, drain | each resume restarts the timer | as above, once resumes stop |
| fs_state source (`fs_state.rs`) | baseline, dirty flag, batch | baseline, batch, check, run, suppress own events, rebaseline | events and the run's lifecycle come through different channels; each read may fail | no write of others missed; the command does not set itself off; failures retried |
| IMAP watcher (`imap.rs`) | session, established / connected once, phase | connect, EXAMINE, IDLE, refresh, reconnect | dead sockets, resumes, changes around DONE, cancelled reads | no change lost, true phase, prompt stop |
| Gmail poller (`gmail_api_poll.rs`) | last history id, phase | baseline, poll, list per label, retry | the mailbox changes between requests; the baseline expires | no relevant record passed over |
| process runner (`process.rs`) | child, group, two readers, shared budget | wait, read, time out, cancel, terminate, collect | exit, output limit, deadline and shutdown race | limit kept and reported, no group left, bounded time |
| command executor (`command.rs`) | none | run with or without capture and shutdown, translate the outcome | an end that is none of the command's own | success only for a run that ended of itself, with nothing cut off |
| auth helpers (`auth.rs`) | none | find the program, run the helper, take its stdout as secret, build SASL strings | deadline, limit and background writers race the output | a secret is a whole stdout; no cancellation |
| runtime state (`state.rs`) | phase and progress per watcher and lane, event and outcome seen, status revision | mark, heartbeat, health, notify | crash marks overwritten, heartbeats beside the task, time limits, notification after unlock | a dead or overdue task is unhealthy and stays so; a working one is not |
| systemd notifier (`systemd.rs`) | socket, interval, last look at the status | ready, status, watchdog | a tick is several looks at the state | pings in time and only while healthy; the status shown is true |
| resume watcher and broadcaster (`system_resume.rs`) | place in the bus, phase, last 64 signal identities | subscribe, read, de-duplicate, broadcast, queue | several listeners, lagging or ending ones | each resume reaches the IMAP watchers, once while it is remembered |
| daemon (`main.rs`) | task handles, initial answers, fatal channel, startup and shutdown signals | load, wire, wait for readiness, announce, serve, stop | readiness, fatal errors and signals race; listeners made anew | READY is true, the exit status tells why, no command left |
| configuration (`config.rs`), command line (`main.rs`) | none after start | validate, derive names, timeouts and policies, find a command to test | joined names may coincide, each lookup has its own defaults | what is accepted can be put to work; a test runs what the daemon would |

`PROJECT.json` lists the hazards of this code line by line, with the properties
that would catch each.

## 2. Modules

| module | models | state | uses |
|---|---|---|---|
| `CommandService` | what a lane promises its sources (abstract) | a status per source | - |
| `Lane` | `CommandLaneRunner::run`, `PendingRequests`, `CommandTrigger` | the channel, both fields of `PendingRequests`, the batch, the await point, the lane's phase | refines `CommandService` |
| `Pipeline` | event channels, `DebounceRunner`, `SystemResumeRunner` over a lane | events, runner points, settle timers | `EXTENDS Lane` |
| `FsState` | `FsStateRunner`, `notify`, `state_cmd`; the lane as seen from one source | watched state, baseline, dirty flag | refines `CommandService` for one source |
| `Process` | `run_shell_process_with_streams` | processes, pipes, readers, budget, caller | - |
| `GmailPoll` | `watch_gmail_api_poll_forever` and a mailbox | tracker, poll in progress, mailbox history | - |
| `ImapWatcher` | `watch_mailbox_forever`, `idle_forever` and a server | session, lines under way, pending event | - |
| `Callers` | executor of a lane, `test-command`, auth helpers, reader of an fs_state source | what the caller goes on with | `EXTENDS Process` |
| `Resume` | `watch_system_resume_forever`, `ResumeBroadcaster` | place of each listener, shared history, channels, phases | - |
| `Health` | `RuntimeState`, the tasks and supervisors that mark it, heartbeats, `run_status_task` | tasks, marks and their age, revision, status shown, silence | - |
| `Config` | validation, derived names and settings, wiring, `test-command` | none: operators on a configuration | - |
| `Daemon` | `run_daemon` | place in it, watchers and their answers, fatal channel, signals, lanes | `EXTENDS Config` |
| `MCLane`, `MCPipeline`, `MCProcess`, `MCGmailPoll`, `MCImap`, `MCHealth`, `MCDaemon` | constants for TLC | | |
| `LaneProofs`, `ProcessProofs`, `FsStateProofs`, `GmailPollProofs`, `ImapProofs`, `ResumeProofs`, `HealthProofs`, `DaemonProofs` | theorems | | |

Each action is one stretch of a task between two await points, or one move of
its surroundings.  A `pc` (or `rpc`) names the await point; every branch of a
`select!` there is an action of its own, and where the code's select is not
biased no branch is preferred.  `biased` selects matter only where two branches
that are ready at once lead to different outcomes; the models let either be
first, because either may become ready first.

*Lane.*  A source awaits the lifecycle of one trigger before it starts another,
so a request is named by its source and `life[s]` is where it is.  `waiters[c]
= {}` stands for "no entry in the map".  `finished` is `last_finished` as the time
since it was entered, counted up to the command's `Interval`; `TimePasses` is a unit
of it.  `rest`, a history variable, is the time since a run of the command really
came to an end: the runner neither reads nor keeps it.  `Leave` is a runner that
returns on shutdown while its
request is still somewhere.  The branches for a closed request channel are left
out: `run_daemon` keeps a sender until it returns.

*Pipeline.*  `QueueEvent` is every `try_send` of a watcher, `Submit` the end of
the quiet time with the drain before it, `Finish` the answer with the drain
after it.  The debounce runner's own cool-down is zero at every call site.
What a runner does to the lane (`Request`, `Collect`, `Abandon`) is apart from the
terms on which the lane expects it (`Trigger`, `TakeAnswer`, `Leave`: not returned,
nothing else under way).  The runners here act by the bare effects, so that they could
break the terms, and that they do not is a property.
`dirty` records that an event has not yet been followed by the start of a run.

*FsState.*  The watched state is a pair, what others write and what the command
writes, so that the properties can tell them apart; `baseline` and `sample` are
values of the pair.  A write raises `lag`; `Deliver` is notify's callback some
time later.  The lane is reduced to what one source sees of it (`run`), which two
theorems justify: a real lane gives each of its sources a `CommandService`
(`LaneServesEach`), and this module asks and believes no more than that
(`FsStateKeepsLaneTerms`).

*Process.*  `holds[s]` is who has inherited pipe `s`; a pipe ends when none of
them lives.  A process may exit, write, close or fork at any time and ignores
SIGTERM if it likes.  Output is counted in units.

*GmailPoll.*  Records have numbers and one label each.  A list for a label finds
every record up to the poll's profile and may or may not find later ones.
Failures may hit any request; history may expire at any time.

*ImapWatcher.*  The server's lines are a queue.  Connecting and authenticating
are one step each.  `queued` stands for the event channel and the debounce
runner (shown in `Pipeline` to lead to a run).  `world`, chosen at the start, says
what the server, the network and the debounce window may do: report between two
IDLEs (`outside`), deliver a line in pieces (`torn`), be over before DONE is
answered (`hasty`).  The tame world `{}` has none of these.

*Callers.*  What a run is made of (`conf`) tells who asked for it: stdout alone
is captured for helpers and readers, both streams or none for commands; helpers
and `test-command` pass no shutdown receiver.  The exit code and what the text
says are free, within what was kept.

*Resume.*  A signal's place in `sent` is its identity, as the bus name, interface
and serial number are in the code.  A listener reads from where it subscribed.
`told` and `fresh` are history variables.

*Health.*  The module of time: `Tick` lets a unit pass once nothing is due
(`Quiet`), so that a task that can run does so within a unit.  Ages are counted
as far as they make a difference.  `tardy` records that a working watcher has gone
without progress for longer than `Stale`, which validation rules out for IMAP and not
for a Gmail source.  Phases are reduced to what health asks of
them.  A supervisor's mark is a step of its own after the panic, and a status
change is notified in a step after the mark, as the lock is released in between.

*Config.*  An option is the set of the at most one value given; a name is the
sequence of its parts between slashes, so that joining account and mailbox is a
concatenation and two different pairs may give one name, as in the code.

*Daemon.*  `Wire` is everything between two awaits.  The sources answer in their
own time, and the code waits for them in order (`Asked`).  A listener for signals
lives from the first poll of its `select!` to its end.  The work of a source is a
state of `task`; what it does is in the modules above.  After shutdown the handles of
the lanes are awaited in turn, each for no longer than the grace (`LaneAwaited`,
`GiveUp`), while `Tick` lets time pass.  A run that is cancelled terminates its group
within `Terminate`; if a process that has left the group holds a pipe, the lane is
`held` after that, without a bound, until it is given up.

## 3. Runs

| run | shows | instance | states |
|---|---|---|---|
| `lane` | places of requests, order/waiters, honest phase, return only on shutdown, no second run after shutdown, every request answered, shutdown stops the lane, the lane implements `CommandService` | 3 sources, a throttled command two of them share, a command nobody configured, channel of 1 | 31,000 |
| `pipeline` | no wake-up lost, `min_interval` kept, the runners keep the lane's terms, every event and resume served, everybody stops | a debounced and a resume source, a command each (one throttled), all channels of 1 | 112,000 |
| `fs_state` | nothing missed, no self-trigger, failed runs retried | 2 contents each, channel of 1, every configuration | 795,000 |
| `process` | shared limit, overflow reported, no group left, bounded runtime, secrets and states are whole outputs | a shell and a background process, limit 2, 3 units per stream, every caller | 485,000 |
| `gmail` | no relevant record passed over, each signalled, honest report | 3 records, 2 labels of 3, or no label | 105,000 |
| `imap` | no change lost, each acted on (tame server); honest report, prompt stop (any server) | 3 changes, 4 faults | 152,000 |
| `resume` | one broadcast while remembered, every resume heard, honest phase | 2 listeners, a history and channels of 1, 3 signals, a fault | 298,000 |
| `health` | an excess of a run costs at most one ping, pings only while alive, deaths noticed for good, true status | a source with and one without a heartbeat, a lane, a fault | 879,000 |
| `daemon` | accepted configurations can be wired, `test-command` runs the daemon's command, READY, exit status, clean stop, startup released, fatal errors end it | 87 configurations, 22 of them accepted, with and without waiting, 2 signals, 2 faults | 110,000 |

Three more runs are expected to fail: `fs_state_startup`, `imap_torn` and
`daemon_signal`; section 6 says what each shows, and which other
counterexamples the remaining configuration files give.  The type invariants of all
modules with a state are proved, but for that of `CommandService`, which is there
for the reader.  Some properties need no run of their own, because a theorem states
them for every instance: `ServedInTurn` and `EachSourceServed` of the lane,
`ReadsBetweenRuns`, `FailedBatchStaysDirty` and `KeepsLaneTerms` of `FsState`,
`NeverStartsOver` and `EventsAreNews` of `GmailPoll`, `BroadcastsTrue` and
`ReadIsBroadcast` of `Resume`, `DeathRemembered` of `Health`, `ResultHasCause` and
`HeldByEscapeesOnly` of `Process`.

The bounds.  In the lane a second source joins the batch that cools down, and a
third makes a command wait behind it; a channel of one is full whenever a
request waits in it, so that senders wait (in the daemon: 64).  That one
configured command does not starve another, and that its runs do not make the lane
forget when the other's ended, is asked in `pipeline`, whose two sources have a
command each; one unit of `Interval` is enough to tell an interval kept from one
that is not.  Either pipe of a run can exceed the limit of two
alone, or both together.  Two labels are the least for which an answer is kept while
another is awaited, three records the least that lie before, within and after a
poll.  Three changes allow one before, one during and one after a refresh; four
faults, which also count resumes, allow a failure of the session that replaces a
failed one.  A history
of one is full, and forgets, with the second resume; of two listeners one may lag
behind the other by all three signals.  In `health` the stale time and the period are
two units, timeout and grace one, and a watcher may take three to report, one more
than the stale time: a run can be overdue between two ticks, and at
a tick, and the next one of the same lane at the next tick; one fault is enough, as
none of the properties is about two.  The configurations of `daemon` are a sound one and its
variants with one thing changed, one for each check of the validation and each
boundary value; those that are accepted have one or two sources, enough for one to
fail while start-up waits for the other, and for one lane to be held while another is
awaited.  A termination takes up to two units and the grace is three, one more, so that
a grace that ran out any sooner would leave a group behind.  No symmetry is used: the runs check
liveness.  Deadlock is checked
everywhere but in `fs_state`, where a source that has returned has nothing left
to do.

Fairness.  Weak fairness on task steps, since tokio schedules tasks that are
ready, and on timers.  Strong fairness is assumed for a sender that waits for
room (the channel's semaphore is FIFO), for the shutdown branch of the lane's
idle select and of the IMAP select (tokio picks among ready branches at random;
without it a source that keeps asking for an unknown command could keep the lane
from stopping), and for Gmail's answers (a request repeated for ever is answered
some time; without it nothing can be promised).  That a lane's run ends rests on
`BoundedRuntime` of `Process`, and so holds as long as no process leaves its
group holding a pipe.  Nothing makes a
process exit, a user stop writing, or a resume happen; `EveryEventServed`
therefore assumes of resume sources that resumes stop.  In `Health` time passes, a
watcher that works reports within `Progress`, heartbeats beat, and a run that does
not hang takes at least one unit and at most its timeout and the grace of its
termination.  In `Daemon` only the code's own steps are fair, and that time passes and
a process group that is terminated goes: neither the setup of a source, nor a command,
nor a process that holds a pipe has to come to an end, so that `StartupReleased` speaks of
sources that can take the event, and `AuthFailureStops` of messages that were
sent.

## 4. Proofs

Proved for every value of the constants, under the named assumptions of the
modules: channels and the history hold at least one entry, configured commands
are commands, the shell is not its own child, labels are labels, bounds are
numbers, the command of every source is a configured one (which `AcceptedWires`
shows of every configuration that validation accepts), what serde makes of a file
is well-formed (`WellFormed`), the grace of a termination is shorter than the
ping period (`HealthAssumption`), and than the grace of shutdown
(`DaemonAssumption`; `AcceptedConfigsWork` shows it of every configuration that
validation accepts, whose `ShutdownGrace` exceeds the two seconds of
`TERMINATE_GRACE`).

*Lane* (`LaneProofs`).  `LaneInv` is the conjunction of `PlaceTypes`,
`PendingCoherent`, `RequestPlaces`, `PhaseHonest` and `ReturnsOnlyOnShutdown`.
None of the middle ones is inductive alone: that a popped command has waiters
needs order and waiters to agree, that they agree after a push needs the request
not to be held already, and that needs its place.  The lemmas are about what
`Receive`, `Push`, `PopNextCommand` and `CancelPending` keep; sequences without
repetition are handled by four lemmas about `Append` and `Tail`.  From `LaneInv`
follow its parts as theorems; with `Recorded`, that `last_finished` is what has
really passed since the last run of each command, `MinIntervalRespected` (an action
property over that history); and
`LaneImplementsService`: each action of the runner is matched with a step of
`CommandService` or leaves its view unchanged.  `LaneRunsNothingMore` is
`NoSecondRunAfterShutdown`.  `LaneServesInTurn` says what fairness needs and no
liveness property shows for all sizes: channel and order are queues that only grow
at the back and shrink at the front, and the command served next is the front one.
`LaneServesEach` maps the lane to a service of one source at a time: a step for
one source is a step of that service or leaves it alone, whatever the others do.
The theorems assume `Safety`, not fairness, so that they hold of the lane inside
the pipeline too.

*Pipeline* (`LaneProofs`).  `RunnersKeepTerms`: the runners act on the lane by bare
effects, and `Terms`, the invariant that relates the point a runner is at to the life
of its request, shows that each such effect meets the guard the lane expects: a
runner that waits or settles has nothing under way, and one that has left does nothing
more.  So `Lane`'s `Safety`, and with it all of the above, holds in the pipeline.
`NoWakeupIsLost` then needs one thing more,
`UnderWay`: while a runner awaits its answer, its request has a place in the lane,
which the lane leaves only by starting the run.  `RunnersAreServed` composes the
two: with the runners over it the lane still implements the service, as a whole and
for each source.  `PipelineTypeCorrect` bounds the event channels.

*Process* (`ProcessProofs`).  `ProcessInv` adds to the types that the budget is
what both readers keep and is spent once one has cut output off (`Budget`), that
the caller hears of an overflow only if there was one (`Knows`), and that from
the SIGKILL on the group is empty (`Cleared`).  From it: `CapturedWithinLimit`,
`OverflowReported`, `NoGroupLeft`, and `HeldByEscapeesOnly`, the safety half of
`BoundedRuntime`: what can still hold up a run after the SIGKILL has left the group.
`ResultHasCause` is by `Caused`: an end is chosen only after what it says has
happened, and neither a deadline, a shutdown nor a death is taken back.

*Callers* (`ProcessProofs`).  `AnswersAreWhole` is `AnswerIsWhole` for any number
of processes and any limit.  `CallersInv` adds to `ProcessInv` what the caller
knows of the readers (`Known`), that whatever was written to a pipe whose reader
has cut nothing off is kept or still in the pipe (`Flow`), that a pipe found at its
end is empty and has no writer left (`Ended`), and that an answer that claims
success comes of a completed run (`Answered`).  `WritersShrink` is the lemma that
matters: a pipe that nobody can write to stays so.

*Gmail* (`GmailPollProofs`).  `GmailInv` is the types, `AskedInVain` and
`NoMissedHistory`.  The last is not inductive: when the last label has nothing,
the answers of the earlier labels are needed, and `AskedInVain` carries them.
`ReportsHonestly` has a proof of its own.  `NeverStartsOver` needs that a baseline is
awaited only while there is none (`FirstBaseline`); it is what gives
`NoMissedHistory`, which speaks of records after the baseline, its reach.
`EventsAreNews` is the converse of that property: an event is made of nothing but a
record, or of history that Gmail no longer has.

*FsState* (`FsStateProofs`).  `MissInv` is that a reading shows the state as it is
unless an event is still to come (`Fresh`), that the baseline is what the last
successful run was handed (`Accepted`), and that outside a batch what was handled is
what is there (`Seen`), each up to the flags that name the exceptions.  At rest it
is `NothingMissed`.  `CauseInv` is that without a cause the baseline and every
reading are the current state; `NoSelfTrigger` follows, as equal readings lead to
no run.  `ReadsBetweenRuns` comes with `CauseInv`.  `FailedBatchStaysDirty`, the
safety half of `RetriesFailedRun`, is about the failed run of a batch, until the next
check, and needs that the failure was noted by a batch (`RetryInv`); start-up
runs are the exception that `fs_state_startup` shows.
`FsStateKeepsLaneTerms` maps `run` to the status of the service's only source, and
with it every step to one of the service or a stutter.

*ImapWatcher* (`ImapProofs`).  `ImapIsHonest` is proved for every world.
`ImapMissesNothing` is about the tame one: `Shape` says for each place of the watcher
which lines can be on the wire and what the server is waiting for, so that nothing
but a change can be read where a change is expected; `Baseline` and `NothingOpen`
that a change not acted upon is in the queue, with the server, or on the wire.
`ImapTypeCorrect` takes the variables in four groups (`Booleans`, `Places`,
`Counters`, `Stream`); the last, that only lines of the protocol are on the wire,
needs that a line is taken in half only while the watcher idles, and only of the
report that comes next.

*Resume* (`ResumeProofs`).  `BroadcastsApart`: the history is the last stretch of
the broadcasts (`Window`), so a signal it does not know is at least a history
away from its last broadcast, which is `OncePerResume`.  `IdlingListens`: an
invariant for each ending of a listener (`EndsInv`), with the races of a crashed
runner and of shutdown, gives `ListenerHonest`.  `BroadcastsAreResumes` and
`ReadResumesAreTold` are the two directions of de-duplication: nothing is broadcast
but a resume, and no resume that is read is taken for known without having been
broadcast (`TruthInv`, with `Window` for the second).  The third part of the safety
of a broadcast, how often, is `OncePerResume`.

*Health* (`HealthProofs`).  `PingsMeanAlive` rests on `Marked`: what is dead is
marked or about to be, and marks of `Beaters` and lanes stay.  `DeathsAreRemembered`
is the safety half of `DeathNoticed`, from the same invariant.  `StatusIsShown`
needs the same invariant, for which lane a mark takes from the count of running
commands, and is inductive with it: whoever changes the status owes a
notification, and until that is given the status need not be shown.
`PingsComeInTime` is `FedInTime` for any intervals: while nothing goes wrong heartbeats
come when due (`Smooth`, `Punctual`) and no working watcher is stale unless one has been
tardy, so only a run that exceeds the longest timeout withholds a ping (`Excess`), and
it is over before the next, because `Grace < Period` (`Counted`).
That there is a longest timeout is `LongestTimeout`.

*Daemon* (`DaemonProofs`).  `AcceptedResolves` and `AcceptedWires` are about
configurations of any size: what `Valid` accepts has a command for each watcher,
and as many entries in the tables of health as there are sources and lanes; from
finite sets and the injectivity of the names that validation enforces.  A bounded
set of numbers has a greatest (`GreatestBounds`), so `ShutdownGrace` exceeds every
timeout.  With `WorkInv` (only an accepted file is put to work) these give
`AcceptedConfigsWork`; `TestIsTrue` follows in the same way from `TestAgrees`.
`ReadyIsReady`, `ExitTellsWhy` and `CommandsAreStopped` follow from three
invariants, one for each: `ReadyInv` (answers taken so far are good while start-up
waits), `ExitInv` (every message of failure was sent by a source that failed, and
every place in `run_daemon` tells which of them it has read), and `StopInv` (shutdown
is asked for only on the way to waiting for the lanes, and a signal is heard only
where one is waited for).  Its part `LanesStop` relates time to the lanes: once time has
passed since shutdown none is idle or running, and one that still terminates has not
been waited for longer than shutdown is old.  So a lane whose wait has come to the
grace is `held` or has ended (`GivenUpIsHeld`), as `Terminate < Grace`.
`StopsCleanly` says of every end whether it can leave a
command: only a signal without a handler and a failed initial readiness do.
`DaemonTypeCorrect` shows with the types that answers, messages and startup events
are of watchers the configuration has.

Only model-checked: every liveness property (fairness and ENABLED are beyond this
prover).  Where a liveness property has a half that is safety, that half is proved:
`LaneServesInTurn` for `EveryRequestAnswered`, `NoWakeupIsLost` for
`EveryEventServed`, `ProcessHeldByEscapees` for `BoundedRuntime`,
`FsStateBatchStaysDirty` for `RetriesFailedRun`, `ReadResumesAreTold` for the
hearing of resumes, `DeathsAreRemembered` for `DeathNoticed`.

## 5. Plan

Done, in this order: the lane with its abstract service and proofs; the pipeline
over it; the fs_state source; the process runner and the Gmail poller, both with
proofs; the IMAP watcher; the callers of the process runner; the resume watchers
and their broadcaster; health and the systemd notifier; the configuration and the
daemon's start-up and shutdown; proofs for these, for the pipeline, the fs_state
source and the IMAP watcher; the type invariants, the composition of lane, runners
and fs_state source, and the safety halves of the liveness properties.  Next:

1. An abstract "every change is followed by a run" specification that `FsState`,
   `GmailPoll` and `ImapWatcher` each implement.
2. `Daemon` over `Lane` and `Pipeline`, instead of its own single-step sources and
   commands.

## 6. Where code and documentation disagree

Three are runs that are expected to fail; the counterexample is the shortest
story.

* `fs_state_startup`: a failed `run_on_startup` run is not noted, so nothing
  retries it (`fs_state.rs:484`), although `docs/operations.md` says a source
  remains dirty after a failed run.
* `imap_torn`: a line half read when the refresh fires is lost (`imap.rs:531`).
* `daemon_signal`: a signal that arrives while no `select!` of start-up is being
  polled is forgotten, as each makes listeners of its own (`main.rs:1053`), although
  `docs/operations.md` says that signals stop the daemon.

Others are not among the runs; the configuration file named with each gives the
counterexample.

* `MCFsStateReread.cfg` (module `FsState`): after a failed rebaseline the old
  baseline stays known; a state that returns to it is taken for unchanged
  (`fs_state.rs:456`).
* `MCProcessEscape.cfg` (`MCProcess`): a process that left the group and holds a
  captured pipe keeps the run from ending, timeout or not (`process.rs:469`),
  although `docs/design.md` promises a bounded runtime.  Its lane serves nobody else,
  and shutdown gives it up after the grace.
* `MCProcessLimit.cfg` (`MCProcess`): when the shell has exited and the readers have
  ended because of the limit, the group is not terminated (`process.rs:426`).
* `MCImapOutside.cfg` (`MCImap`): a change reported between two IDLEs of a session
  is dropped (`imap.rs:574`).
* `MCHealthTimeout.cfg` (`MCHealth`): health compares every run with the longest
  timeout of all commands (`state.rs:344`), so that a run may exceed its own by far
  while systemd is fed, although `docs/operations.md:128-131` speaks of the
  command's timeout.
* `MCHealthStale.cfg` (`MCHealth`): `poll_interval_seconds` has no upper bound
  (`config.rs:791`), while a poller makes progress once per poll; one longer than
  `watcher_stale` makes a poller that works look stale, and pings are withheld:
  the "appears stale" of `docs/operations.md:61` includes it.
* `MCHealthFed.cfg` (`MCHealth`): a run that times out looks unhealthy until it has
  been terminated, and withholds a ping if the tick falls into that time.  Two
  timeouts that do so at consecutive ticks, of two lanes or of one whose timeout is
  just below the period, let the watchdog interval pass and systemd kills the daemon
  (`state.rs:344`), although `docs/operations.md:59` says that when a command times out
  the "daemon remains active".  `FedInTime` says what does hold.

Four more are visible in the definitions, and the properties are stated around
them: `TestByMailbox` gives an `imap_idle` source's command the global output policy,
also when the command has one of its own (`main.rs:203`), and `TestRunsTheCommand`
therefore asks by mailbox only for those of the accounts; the
mark of a crashed runner of an IMAP or Gmail source is overwritten by the next
report of its watcher (`state.rs:153`); a watcher of an fs_state or system_resume
source that hangs is not noticed, because its heartbeat is a task of its own
(`fs_state.rs:800`); and the word that the daemon is unhealthy, which only the
periodic tick adds to the status, is gone at the next change of it.

The properties that the passing runs check are stated so that they hold besides
these: `NothingMissed` names the exceptions, and `NoMissedChange` is about the tame
world.  The `hasty` world is left out of it for a choice the code documents with a
test: of several changes between DONE and its answer only the first queues an
event (`imap.rs:639`), so that with a debounce window shorter than the wait for the
answer a later one can fall between the run for the first, or its last look at the
mailbox, and the answer.

## 7. Not modelled

* Message contents, formats, TOML, credentials and SASL strings, logging and the
  tails of output in it, the wording of status lines.
* Errors of spawn, wait and pipe reads in `process.rs`, and dropping its future
  (`kill_on_drop`).  Of the ends of the daemon a failed initial readiness drops
  a run, and a shutdown the one of a lane it has given up; `StopsCleanly` says which
  of them can leave a command, and what becomes of its processes is left open.
* The D-Bus connection and `notify` beyond what they deliver; the setup of D-Bus,
  which takes up to 30 seconds, is not cut short by shutdown.
* SIGTERM before the first listener for it exists ends the process as the kernel
  does.
* What the command-line tools print, and how they read their arguments.
* Panics where an `Instant` and a huge configured duration are added; the panic of
  a task is modelled, its cause is not.
* Lengths of time outside `Health`, the interval of `Lane` and the shutdown of
  `Daemon`.  Any other timer is an action that may happen once its wait has begun.  In
  `Health` a run takes at least one unit.
* The choice which of several ready branches a biased select prefers, as
  section 2 says.

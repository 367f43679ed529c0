# restate-toolkit in TLA+

Specifications of [restate-toolkit](../src/README.md): the durable polling loop it
adds to Restate handlers (`restate-ext`), the configuration of what a process
serves (`restate-config`), the two examples, and the end-to-end harness that
starts, watches, calls, questions and stops a `restate-server` from a test process
(`restate-e2e-harness`). Each module follows the Rust code it names, line by line
in control and abstractly in data. TLC checks every property below on small
instances. TLAPS proves, for every value of the constants, the safety of the poller's
replay, that the poller implements what it promises and keeps its limits and its
interval, and the safety of the process registry, of the in-process endpoint, of
readiness, of the admin waits, of calls and selections through the ingress, of the watch, of
the check of step names, of the gate and the launch, of a served process and of the
counter's wait.

- [1. The system](#1-the-system): its parts, what they keep, how they interact
- [2. The modules](#2-the-modules): how state and actions correspond to the code
- [3. The runs](#3-the-runs): what is checked, with which bounds and fairness
- [4. The proofs](#4-the-proofs): what holds for all constants, and why
- [5. Not modelled](#5-not-modelled): and what the models leave out
- [6. Plan](#6-plan): the modules and theorems still to come

## 1. The system

### Inventory

| Component | Source | State it keeps | Operations | What makes it correct |
|---|---|---|---|---|
| Poller | `crates/restate-ext/src/poll.rs` | locals of `poll_with` (attempts left, deadline, latest clock sample); what survives is the journal | `PollerBuilder::build`, `poll`, `poll_with`, `Deadline::{new, observe, remaining, expired}` | every execution asks for the entries its journal holds; both limits hold across executions; no check after an observed expiry; a limited poll ends |
| Clock | `crates/restate-ext/src/clock.rs` | none (one journal entry) | `now`, `now_named` | read once, replayed afterwards |
| Shutdown | `crates/restate-ext/src/shutdown.rs` | the streams of the signals it listens for | `shutdown_signal` | one signal that can be heard is enough, and needed |
| Server | `crates/restate-e2e-harness/src/server.rs` | `STARTED` (groups, stopping), `INSTALL`, `NEXT`; per launch: `child`, `keep_evidence`, base directory, endpoints | `launch_directory`, `stop_on_signal`, `spawn`, `ready`, `deploy`, `finish`, `finish_with_failures`, `Drop` | no server outlives the process, no stranger is killed, evidence is kept, nothing deadlocks |
| Endpoint | `crates/restate-e2e-harness/src/server/endpoint.rs` | connection set, stream set, `Failures`, the stop channel | `serve`, `Executor::execute`, `shutdown`, `Failures::record` | finish reports exactly the panics; nothing runs on; shutdown ends |
| Watch | `crates/restate-e2e-harness/src/watch.rs` | `Sampler` (`Retries`, `seen_in_flight`), stop channel | `Watch::over`, `observe`, `finish`, `Drop` | what it reports was there; idle means idle after busy; it ends |
| Admin | `crates/restate-e2e-harness/src/admin.rs` | none of its own; the server's rows | `poll_until`, `register`, `drain`, `pause`, `purge`, `await_status`, `await_in_flight_on`, reads | the deadline bounds the wait and the wait looks to its end; what it answers holds |
| Run names | `crates/restate-e2e-harness/src/run_names.rs` | the table of declared steps | `Table::new`, `Table::check`, `RunPatterns::{of, pattern}` | a passed check was earned, a reported violation is real |
| Introspection | `crates/restate-e2e-harness/src/introspection.rs` | none | `JournalEntry::from_row`, `validate_run_journal`, `run_result`, `run_result_at`, `named_run_name` | a result is matched with its own run, an intact journal is not refused |
| Gate | `crates/restate-e2e-harness/src/gate.rs` | none | `launcher_or_skip`, `Launcher::launch` | no suite passes by skipping what it was offered; it runs against the server it asked for |
| Ingress | `crates/restate-e2e-harness/src/ingress.rs` | none | `Call::path`, `Restate::invoke`, `Reply::fault` | a call reaches the object it names; a fault is the handler's |
| Configuration | `crates/restate-config/src/` | none | `identity_keys`, `EndpointConfig::apply`, `ServiceOptionsConfig::apply` | handler names exist; every option that is set is forwarded, into its own field |
| Errors | `crates/restate-ext/src/errors.rs` | none | conversions | - |
| poll-counter | `examples/poll-counter` | a counter in an object's state | `add`, `wait` | `wait` sees an `add`; no addition is lost or wraps |
| greeter | `examples/greeter` | none (two journal entries) | `main`, `endpoint`, `greet` | serves what is configured; a reply keeps its first reading of the clock |

### How the parts interact

A test process launches servers from several threads. Each launch makes a base
directory, installs (once per process) a thread that listens for SIGINT and
SIGTERM, spawns the server as the leader of a process group, and registers the
group under the `STARTED` lock. The same registry is read by the signal thread
and emptied by `Drop`. A launch then owns in-process *endpoints*: serving tasks
with connection and stream tasks of their own, told to stop through a dropped
sender and joined by `finish`. The test registers them with the server and
questions it through *Admin*, each wait being `poll_until` over a query of a
table that goes on changing; a *Watch* samples the same table from a task of its
own; the step-name *Table* is checked against three such reads, and the results of runs
are looked up in a journal read the same way. A suite gets its server through the
*Gate*, which decides on the environment whether to launch one, to use one that is
offered, or to skip; it calls objects through *Ingress* by paths, and selects their
invocations through *Admin* by SQL, both written from the same names. Inside a
handler, the *Poller* issues clock, check and sleep entries to a journal which
outlives it; the example *poll-counter* polls a state that other handlers change.
A process that serves, as the example *greeter* does, applies its *Configuration*
to an endpoint and stops by the *Shutdown* signal.

### What is hard

Crash and replay between any two awaits (Poller). A stop signal at any moment,
a leader that exits while its group lives on, pids that are used again, a panic
that unwinds through a lock (Server). Panics that race with a deliberate
cancellation, and results waiting in a join queue (Endpoint). A table read in
pieces or stale as soon as it is read, answers that are late, malformed or never
come (Watch, Admin, Run names, Introspection). Deadlines met by sleeps that end
late (Admin, Poller). Texts that several parsers read in a row, and answers from
something in between (Ingress). Settings inherited from an environment nobody
controls (Gate, Server). A signal that cannot be listened for (Shutdown).
`PROJECT.json` lists each of these hazards at its line with the
properties aimed at it.

## 2. The modules

| Module | Models | Extends or instantiates |
|---|---|---|
| `Poll` | what the documentation of `Poller::poll` promises, without a journal | - |
| `Poller` | `poll_with`, `Deadline`, `build`, `now_named`, and the journal they run on | instantiates `Poll` as `Promised` |
| `Server` | launches, signal thread, registry, teardown, directories | - |
| `Ready` | the stages of readiness, their probes and the inspection of the child | extends `Retry` |
| `Endpoint` | serving loop, connection and stream tasks, shutdown, failures | - |
| `Watch` | the sampler and its handle over a changing table | - |
| `Admin` | `poll_until` and the waits built on it over a changing table | extends `Retry` |
| `Retry` | the sleep between two probes, as an operator | - |
| `RunNames` | patterns and the table check, as operators | - |
| `Suite` | the table check over reads made one after the other | extends `RunNames` |
| `Journal` | decoding and validation of journal rows, results of runs, as operators | - |
| `Results` | a test that asks a journal in progress for results | extends `Journal` |
| `Calls` | paths and SQL predicates, and those who read them, as operators | - |
| `Ingress` | calls through a proxy, their replies and faults, and the selection of invocations | extends `Calls` |
| `Launch` | the gate, the launch, the environment a server gets and what it reports | - |
| `Session` | a suite from its gate to the results its tests read | extends `Launch` and `Results` |
| `Options` | from a configuration to an endpoint, as operators | - |
| `Serve` | a serving process from its start to its stop, the shutdown signal, and the greeter's handler | extends `Options` |
| `Counter` | the poll-counter's two handlers on one object | extends `Poller` |
| `MC*` | the instances TLC checks | the module they are named after |
| `*Proofs` | theorems | the module they are named after, `TLAPS`; `PollerProofs` extends `Counter`, `HarnessProofs` extends `Endpoint` and `Session`, `RequestProofs` extends `Admin` and `Ingress` |

### Poller and Poll

`local` is the record of the loop's variables with `pc`, the await it stands at
(`start`, `check`, `remaining`, `sleep`, `wake`, `ended`). The code between two
awaits is a function of `local` and of the entry's result (`OnStart`, `OnCheck`,
`OnRemaining`, `OnSlept`, `OnWake`), so that an action `Await*` is one
resumption of the future. `journal` is Restate's: `Issue*` adds the command,
`CompleteClock`, `CompleteCheck`, `FireTimer` and `Cancel` store its result, and
an attempt at position `pos` takes the next completed entry whether it was
written by this execution or by an earlier one. `Crash` throws `local` and
`pos` away. The wall clock ticks and may step backwards. `trail[p+1]` remembers
what `local` was when the first `p` entries had first been taken; it is history,
read by no action.

`Poll` has six variables and no journal. `KeepsPromise` says that `Poller`
implements it under the mapping that shows the caller the furthest point any
execution has reached: crashes and replays are stuttering.

### Server

Every launching thread has a `pc`; a panic at any stage goes through `Panic`,
which unwinds to `Drop` only if a child was spawned. A directory that cannot be created
is such a panic (`CreateDirectory`, its third arm), and so is what fails between the
directory and the signal thread (`PrepareFails`): a launch may be over without a
directory of its own, or with one that nobody will ever use. `lock`, `groups` and
`stopping` are the mutex `STARTED`; `once` is `INSTALL`, with its poisoned state;
`handler` is the signal thread with its two registrations and the rendezvous in
which the launching thread learns of them. `process` is the operating system's
view: who leads a pid's group, whether a worker lives in the group, who owns it.
A leader that exits is a zombie until waited for and so reserves its pid; any
free pid may be taken by somebody else's process (`Elsewhere`). `Signal` ends the
test process at once unless a handler is registered. Readiness is one step which
succeeds or fails at any time, with the exit of the child among its reasons
to fail; the stages behind it are `Ready`.

### Ready

`ready` probes health, SQL and version one after the other under one deadline.
`stage` is the one supervised, or how readiness ended; `probe`, `answer` and
`wake` are `poll_until` inside it; `tick` is `while_alive`'s inspection interval. The
biased select is in the guards: `Expire` at the deadline, otherwise `Inspection`
when a tick is due, otherwise what the probe does (`Polled`). Every answer that
ends a stage inspects the child once more (`Advance`, `AnsweredExited`). The host
decides when the child binds, is provisioned or exits, when another process
takes the port, and what is answered by whoever listens; a reused server is
`child = "none"`, which never exits. Time is as in `Admin`.

As long as the child has neither bound nor exited, another process that answers all
three stages is taken for it: nothing in the code tells the two apart, and `Ready`
claims no more than the code's comment does, that an exit is not hidden.

### Endpoint

`task[t]` is idle, running, over but unjoined (ended, panicked, cancelled), or
joined. `Record` is `Failures::record` with its `shutting_down` argument. The
biased select of `serve` is in the guards: joins only while there is no stop,
accepting only while there is neither. Aborting a task marks it; it may still do
what its current poll does (start a stream, panic, end) before the cancellation
takes effect. `Finish` drops the sender, `Finished` joins the serving task and
takes all failures, and dropping the handle or the future of `finish` detaches it.

### Watch

`inv` is `sys_invocation`: each row's status with its retry columns, which the
server clears on a yield and on completion. A completed row is purged in the end, and
the table is empty again; an identity never comes back. A query reads all rows at one moment
between its sending and its answer, in any order of rows, possibly with one row
that does not decode, possibly not at all. `Observe` is `Sampler::observe` with
the check for completion that follows, guarded by the bias to the stop.

### Admin

`op` is the wait: what it patches first, and what its probe looks for. `Loop`,
`Return`, `Refuse`, `Cut` and `Wake` are `poll_until`: the deadline test at the top,
`timeout_at` around the probe, and the sleep `RetryDelay`, the interval cut to half
of what remains. `Late` bounds how late the runtime acts on a timer or an answer
that is due; code between two awaits takes no time; the resolution is the
runtime's millisecond. A query sees the table at one moment; a request may be
refused, lost after it took effect, or never answered.

### RunNames and Suite

A declared step is its text up to the parameter, and the parameter's name or
`Fixed`. `Accepts` is the refusal in `RunPatterns::of`, `Pattern` is the longest
prefix that goes on, and `Violations` is `Table::check`, by kind, without its
wording. `Suite` lets invocations arrive, run, complete and be forgotten while
the handlers, the invocations and the journals are read by three queries in any
order. What a handler's steps are is kept apart (`executed`) from the names the
journal holds, and the properties speak of the former. A parameter's value is any text, an empty one
and one that makes the name go on after a longer prefix among them, so that a name can be mistaken: under
`h{sku}` and `ha{sku}`, the value `aa` of the first is journaled as `haa` and read as the second
("reads as the longer pattern, whichever step wrote it", says `RunPatterns::pattern`).
`Clear` is a name for which that cannot be, nor that a step outside the table
reads like a parametrised one, and `Plain` an invocation of such names only. Of it the
properties speak of the steps; of any other they still say that its names may be
those of the path (`Follows`).

### Journal and Results

A row is a record of the columns a test selected; `Decodes` is
`JournalEntry::from_row` up to what a missing or contradicting column makes of it,
`Valid` is `validate_run_journal`, `run_result`, `run_result_at` and `named_run_name` are
themselves.
In `Results` the handler starts runs whose completion ids come in no order, and
they complete in any order; `Read` takes the rows at any moment, as they are or
with one flaw (`Damaged`): a column not selected, a version or a type not known,
metadata missing, a row twice, out of order or left out. `ran` remembers what the
handler had run when the journal was read; the properties compare answers to it.

### Calls and Ingress

The texts are sequences of characters here, since what a character means to the
next reader is the whole question. `path`, `push_segment`, `predicate` and
`sql_literal` are the code's; `Split`, `Decode`, `Forwarded`, `Routed`, `Lexemes` and
`Satisfies` stand for the URL parsers, a proxy that publishes the server under
a prefix, the ingress and the SQL engine, and are external. Each writer and reader of a
text is a fold of one step per character (`Encoded`, `Quoted`; `Segmented`, `Decoded`, `Lexed`).
`Characters` is any set with the words and the marks in it, and `Code` any injective code for
what is not unreserved, the marks of a path among it, that holds no mark itself. `Null` is what
is absent, and no character. In `Ingress` each client
calls (`Invoke`), the ingress accepts the call for whatever object the path reads
as, the handler completes, fails or goes on, something in between may answer instead
(`Interfere`), and the client is answered, fails or is timed out; meanwhile a test
selects an object's invocations in flight.

### Launch

`env` is the test process's environment, and a variable is unset, empty, set, or
not Unicode, which `std::env::var` and `var_os` tell differently. `Gate` is
`launcher_or_skip`; its answer is no server, a panic, a binary, or the two URLs of a
server that runs already (`AtUrls`). `Spawn` draws three free ports and layers the
inherited settings, the spec's, the features' flags and the harness's `Own`
(`Environment`); `addresses` is what the handle keeps of them, and `child` what the
server gets: nothing where none is spawned. The server then `ComeUp`s with what
those settings mean to it, and `Ready` compares the features it reports with the
spec's. What can go wrong in between is in `Server` and `Ready`.
What the properties call supplied is not what the code reads: `Supplied` is the documentation's
"an empty variable is unset", so that a variable that is not Unicode is supplied, though not
`Readable`. The code drops such a URL as if it were unset; see `gate` in section 3.

### Session

`Session` is `Launch` followed by `Results`: the tests of a suite read a journal once
`Restate::ready` has returned, and not before. `Launches` and `Questioned` are the steps of
either, with the other's variables left alone. `Asking` bounds which suites go on to ask.

### Options and Serve

A configuration is a function from the fields that are set to their values, and
so are the SDK's options: every setter of `apply_common_options` is one field, and
what is set goes `Over` what was there. Identity keys in one text are cut into parts
(`Grow`) of which the empty ones are dropped; the keys are a set, since the SDK
accepts what any of them signed.
`Serve` starts a process from a configuration (`Bind`, `Build`, `Listen`), which then
serves until `shutdown_signal` resolves; `Signal` is anyone's, and kills a process
that does not listen for it. `hearable` is what the process could listen for if it
asked; registration of each signal may fail on its own. `Tick` and `Stop` are the
SDK's drain, and `Restart` the supervisor's. An invocation's attempts (`Attempt`,
`Lose`) run `Now` and `Greet` over a journal that Restate keeps.

### Counter

`Counter` extends `Poller` with an object's value. `add` holds the object's key
(`Enter`, `Get`, `Set`, `Leave`), refuses what does not fit and may lose its attempt
before its read was stored, to read again (`LoseRead`);
`wait` is shared, so that it polls meanwhile: the poll's check is `Look`, the value at
that moment, and `Answer` maps the poll's outcome to the reply. `sums` and `looked`
are history: the amounts the counter held, and the reads there had been when it
reached ten.

## 3. The runs

| Run | Instance | Distinct states |
|---|---|---|
| `poller` | every combination of limits in `MCRequested` | 392,170 |
| `server` | 2 launches, 2 pids, 3 directory numbers of which one is an earlier process's, 1 signal | 215,456 |
| `ready` | deadline 22, intervals 6 and 3, inspections every 2, lateness 1 | 65,697 |
| `endpoint` | 2 connections, 3 streams | 114,064 |
| `watch` | 2 invocations, 1 failure, 1 command, purged at last | 548,753 |
| `admin` | 2 invocations, timeouts 0, 1 and 8 with interval 5 | 779,342 |
| `suite` | 2 invocations, 2 handlers, 6 tables, 4 programs, 3 values of a parameter | 4,571,418 |
| `session` | every combination of the gate's 5 variables, 5 specs, 2 inherited environments; after one of the launches, journals of up to 5 rows with 2 completion ids | 640,376 |
| `gate` | the launches of `session` | a violation |
| `ingress` | 2 clients, 7 calls, 5 selections | 1,528,608 |
| `serve` | 5 configurations, 2 invocations, 3 hours, 2 starts | 182,228 |
| `counter` | amounts 4 and 9, one poll of interval 1 and timeout 3, 1 crash | 1,868,841 |

`CHECK_DEADLOCK` is off in all: each of these systems stops for good (a returned
invocation, an ended process, a finished handle, a wait that is over, a checked
suite, an answered call, a journal with no room left).

The type invariants that are inductive are proved (`PollerTyped`, `EndpointTyped`,
`ReadyTyped`), and are no runs' properties: each property below is about what can go
wrong.

**poller** - `ReplayMatches`: an execution that replays asks for exactly the entry
the journal holds. `ReplayRebuilds`: it has the locals the first one had.
`LimitsHold`: the limit of attempts, the end at an observed expiry and the length of
each sleep, stated over the journal and so across executions, and that a deadline no timer
could carry is refused at the first reading, and no other one. `ChecksSpaced`: a check never
begins before a full interval has passed, unless the clock stepped back.
`LimitsEnd`: a poll with a limit ends. `KeepsPromise`: it implements `Poll`.
*Bounds*: times up to 4 with a deadline overflow at `TimerMax` 4 give room for a
timeout to fall before, on and after two intervals; one crash at any point, with
replay of every shorter journal; one backward step of any size. `MaxEntries` is
beyond what a limited poll needs (the run would find `LimitsEnd` violated
otherwise), `MaxOpen` cuts the poll without limits.

**server** - `NoOrphan` (neither a dropped handle nor the ended process leaves a
server or a worker of its group), `NoStrayKill`, `DirectoriesOwned`, `EvidenceKept`, and the two
liveness properties `SignalEnds` and `LaunchesSettle`. *Bounds*: two launches
race for the lock, the `Once` and a directory number; two pids are enough for
one to be handed to a stranger while the other is a server's; a second signal
changes nothing that the first did not. The theorems remove these bounds for
the safety properties.

**ready** - `ExitShows`: an exit never ends as ready, and is told within an
inspection's interval whatever the probe waits for. `DeadlineFair`: nothing goes
on past the deadline, and a server that answers at once only meets it if it came
up within the last moments. *Bounds*: the deadline leaves room for several sleeps
of each stage and for their halving near the end; the intervals are longer than an
inspection's. The lateness of one unit gives every race between a tick, a wake-up,
an answer and the deadline; `MaxTime` stops the clock after all of them.

**endpoint** - `ReportExact`, `NothingRunsOn`, `ShutdownEnds`.
*Bounds*: three streams so that one is joined by another's spawn, one by the last
join and one is started by a connection that is being cancelled.

**watch** - `ObservationsSound`, `IdleWitnessed`, `MalformedLeavesNothing`,
`StopsPromptly`, `IdleEnds`. *Bounds*: two rows so that one is malformed or busy
while the other is not, and that the table is empty before the first arrives and after
the last is purged; `samples` and `query_errors` saturate at `MaxSamples`
(no decision reads them).

**admin** - `EndsInTime`, `LastLookIsFresh`, `PurgeFinal`, `DrainedStays`,
`WaitEnds`. *Bounds*: a timeout of zero, one shorter than the interval and one
longer; one millisecond of lateness; the clock stops after every deadline.

**suite** - `PassIsEarned`, `FailureIsReal`, with symmetry between invocations
(no liveness is checked there). *Bounds*: the tables include nested prefixes, a
fixed name next to a parametrised one, an empty path, and tables that
`Table::new` refuses. The values of a parameter are one that leaves the name its own, one
that makes it another pattern's, and an empty one, which leaves nothing to go on with:
three are enough, since a name is read by which of the prefixes it begins with and whether it
goes on. That a passed check counts a path another step's name stood in for is so in this run,
and is what `PassIsEarned` excepts.

**session** - `NoEmptyPass`: a suite is skipped only where no binary and no readable URL of a
server it may use was supplied, and it is not in CI; where one URL can be read and the other
not, it panics; one that runs uses the server at both URLs, or one it spawned where it had a
binary and neither URL. `RunsAsSpecified`: whatever the inherited environment and the spec's own
pairs say, the server reports each feature as the spec has it, keeps its data in its own
directory, and listens where the handle expects it. `AnswerIsTrue`: the result of a run, by
name or by name and position, is that run's, whatever completed first and whatever the rows
were deprived of; the list of runs is what was run; a leak is found exactly if it is
there. `RefusalIsReal`: rows read as they are always decode, and only an ambiguous
question is refused. *Bounds*: every value a variable can have that the code tells apart;
specs that contradict the harness and themselves. Two runs of one name, or one without a
name, and room for either to complete first with an unrelated entry in between; one flaw at
a time, of every kind. The server's journal does not depend on how it was launched, so that
asking after one of the launches is enough.

**gate** - a violation of `HalfPanics`, and the project's one finding. `launcher_or_skip` says
(`gate.rs:114-115`) that "supplying only one reuse URL panics" and that "an incomplete
configuration never falls back to a binary or a skip", and of values only that "an empty variable
is unset" (`:112`). It reads the URLs with `std::env::var(name).ok()` (`:117`), for which a value
that is not Unicode is as good as none: with `RESTATE_ADMIN_URL` set to one and
`RESTATE_INGRESS_URL` unset, the suite is skipped. `HalfPanics` states the documentation;
`NoEmptyPass` is what holds besides.

**ingress** - `CallsAreSelected`: a call that was accepted runs on the object it
names, and a selection of that object's invocations finds it and nothing else.
`FaultIsHandlers`: a fault is decoded only of the terminal error of the call's own
invocation. *Bounds*: keys and scopes made of one slash, one quote, the text that
encodes a slash, and `..`: each means something to one of the readers; a proxy with a prefix
and a base written with more slashes than it needs. Clients are symmetric, and no
liveness is checked.

**serve** - `ServesConfigured`: an endpoint that serves trusts exactly the keys that
were written and has every override in its own field, a false and a zero too.
`DrainsAsAsked`: a drain begins only for a signal that could be heard, and no such
signal kills the process. `StopsWhenAsked`: a process that is asked to stop does.
`GreetsByFirstReading`: a greeting keeps its first reading of the clock.
*Bounds*: configurations of which three are mistaken (a key, a handler's name, a
field); the drain's ten seconds are two ticks, so that invocations end before and
after them; hours on both sides of a boundary; a second process for what the first
left open.

**counter** - `WaitIsTrue`: a wait answers with an amount the counter held, ten or
more for a success; a 408 is not sent once a check could see ten. *Bounds*: 4
and 9 add up to ten in more than one way and, with a counter of at most 15, also fail
to fit; the poll checks up to four times; one crash at any point of it. The clock
does not step back here: that is `poller`'s question.

### Fairness

| Module | Weakly fair | Because |
|---|---|---|
| `Poller` | the clock; the poll's own steps and completions, taken together | Restate retries an invocation until it completes; time passes. Crashes, backward steps and cancellations owe nothing and are bounded |
| `Server` | each launch's own steps; the signal thread | they are threads of the operating system. Nothing the test decides is fair, nor anything of the system: no signal need come, no server need exit |
| `Endpoint` | the serving task; `finish`; an aborted task | the runtime polls what is ready; an aborted task is cancelled at its next await. No running task need end by itself, no peer need connect |
| `Watch` | the sampler; `finish` | as above. No answer is owed: `IdleEnds` has the answers as its premise |
| `Admin` | the waiter; the clock | as above. The server owes no answer |
| `Serve` | the process's own steps, with the time of its drain | the runtime polls what is ready and time passes. No invocation need end, no signal need come |

`Ready`, `Suite`, `Results`, `Ingress`, `Launch`, `Session` and `Counter` state safety only. In
`Counter` that is for want of anything new: that the poll ends is `LimitsEnd`.

## 4. The proofs

All theorems are about the modules TLC checks, for all values of the constants
that meet the modules' named assumptions.

**PollerProofs** - `PollerTyped` (`TypeOK`), `ReplayIsFaithful` (`ReplayRebuilds`),
`ReplayNeverDiverges` (`ReplayMatches`), `LimitsAreHeld` (`LimitsHold`) and
`PromiseIsKept` (`KeepsPromise`). `ReplayRebuilds` alone is not
inductive: after a crash the journal is longer than `pos`, and that the next
entry is of the kind the locals ask for must come from somewhere. It comes from
`Shape`: each journal entry is of the kind which the state *recorded in the
trail* at its position asks for, and the trail's next state is what that entry
made of it. Since the code between two awaits is a function of the locals and the
entry, a replay walks along the trail. This is where a loop that looked at
anything unjournaled would fail to be provable; the mutants of `ReplayRebuilds`
and `ReplayMatches` do just that. The conjunction `Replay` is the inductive
invariant; the type invariant is proved with it, since the bounds on the locals
follow from those on the trail.

`PromiseIsKept` is the refinement: every step of `Poller` is a step of `Poll` or
leaves its six variables alone. `FrontierStep` shows that the furthest point any
execution has reached only moves when an execution at that point takes a new entry,
so that a crash and the replay after it are stuttering (`UnseenStep`); there the
entry's result decides which step of `Poll` it is (`AwaitStep`, `PromisedStep`). It
rests on `Replay`, which says that the locals at the frontier are the trail's last.

`LimitsAreHeld` needs one more invariant, `Ledger`, which relates the part of the
journal that was awaited (`Past`) to the trail's last locals: the checks in it and the
attempts left make up the limit (`Counted`); no reading in it is later than `latest`,
and one at the deadline was the last thing to happen (`Bounded`); a delay still to be
slept fits what is left (`Short`), as those slept did at their time (`Slept`). It
changes only when the trail grows (`LedgerGrows`), so that what a lost execution had
journaled is never counted twice. `MaxEntries` and `MaxOpen` play no part. That a deadline no
timer can carry ends the poll at its first reading, and only such a one (`RefusedAtOnce`), follows
from `Replay` alone: the trail begins at the start, and no later step refuses.

`ChecksAreSpaced` (`ChecksSpaced`): without a backward step of the clock, no two checks are
closer than the interval. An action property, but what it forbids is prepared several
entries earlier, so it needs `Spaced`: the delay chosen is the interval or ends at the
deadline (`Chosen`), nothing seen lies ahead of the clock (`Clocked`), a timer that fired did so
in time (`Timer`), and the reading that follows lets the poll go on only if the interval
was slept in full (`Awake`), so that where a check is due, the clock is an interval past
the last one (`Due`). Like `Ledger` it speaks of the furthest point any execution has
reached, so that a crash between a sleep and its check changes nothing. It assumes that
the clock's bound `MaxTime` was not met, where ticking ends.

`WaitsAreTrue` (`WaitIsTrue`) is about `Counter`. Every step of `Counter` is a step of
`Poller` or leaves it alone (`PollsStep`), so `Replay` holds; `Tally` adds that the
value is the largest of its sums (`Sums`), that what an addition read is what it writes
to (`Adds`, the key), that the durable verdicts are those of the values read (`Reads`),
and that a read made after the threshold was reached saw it (`Reached`). `Remembered`
follows the trail as `Ledger` does: the check whose value a 408 reports is one of those
in the journal. A check that broke must be the journal's last entry, which is why a
wait that times out has read nothing at the threshold (`Spoken`).

**HarnessProofs** - `EndpointInvariant` is the inductive invariant, and `EndpointTyped`
(`TypeOK`), `ReportIsExact` (`ReportExact`) and `NothingIsLeft` (`NothingRunsOn`) follow
from it for any number of connections and streams. `ReportExact` speaks of the end
only; `Recorded` says at every moment that a panic is counted once its task is
joined and only then, and `Owned`, that every task that is not joined is in the set
of somebody who still will. `Aborts` tells a cancellation from a panic: only what was
aborted is ever cancelled, and streams only when no connection is left to start one.

`NoSuitePassesEmpty` (`NoEmptyPass`) and `RunsAsAsked` (`RunsAsSpecified`) are about
`Launch`, for any environment, spec and set of ports. `LaunchInv` says that the gate's
answer is what the environment says (`Gated`), that a server is at the addresses the
handle keeps, found there or spawned with an environment of the harness's making
(`Launched`), and that what answers runs with that (`Answering`). `OwnIsLast` is the heart
of it: whatever lies under the harness's settings, each of them is read back as it was set.
The one assumption is that no variable's value is the mark of an unset one. "Any environment"
includes variables that are not Unicode: what `NoEmptyPass` says where a URL is one of them it says
openly, and the documented claim that fails there is `HalfPanics`, of which nothing is proved.
`SessionsAreSound` takes these two and the next two over to `Session`, whose steps are a step of
`Launch` or one of `Results` (`SessionHasParts`).

`AnswersAreTrue` (`AnswerIsTrue`) and `RefusalsAreReal` (`RefusalIsReal`) are about
`Results`, for any names and identities and a journal of any length. `InStep` is what the
server keeps: every row in its place with what a row of its type carries (`Written`), an
identity for each run (`Distinct`), each run matched with its command, all of them in
order (`Commands`), and with its result, after the command (`Completions`), and the names
of the commands those of the runs (`Listed`). It makes the journal valid
(`WholeIsValid`), an answer by name or by position that of its run (`WholeResult`,
`WholeResultAt`), and a flaw harmless: `FlawShows` says that a flawed row does not decode,
says what it did, or is refused, and `ValidIsWhole` that rows of which two have changed
places, one is there twice or a command is missing are never taken for a journal.
The flaws are those `Damaged` lists, one at a time: what two at once could hide is not
claimed. The assumptions are that the marks of what
is absent and of a refusal are none of the values, and that the needle is in the leaky
bytes and not in the others.

**WatchProofs** - `ReportsWhatWasShown` (`ObservationsSound`), `IdleIsReal` (`IdleWitnessed`)
and `MalformedIsOnlyCounted` (`MalformedLeavesNothing`), from `WatchInvariant`. `Shown` and
`Sound` carry what a row shows through the answer in flight into the report; since a sample
is a fold over the rows, of any number and in any order, that it preserves `Sound` is an
induction (`FoldSound`). `Witnessed` is what makes two samples enough: an answer that
shows something in flight, or nothing, was true at some moment since the query before it
was answered, and the second kind only ends the watch after the first. The table may have
changed twice over by then, so the invariant speaks of history and not of the table.

**SuiteProofs** - `PassesAreEarned` (`PassIsEarned`) and `FailuresAreReal` (`FailureIsReal`),
from `SuiteInvariant`, for any tables, handlers and number of invocations. `Retained` relates
each journal to the steps behind it and excuses a journal that is missing; `Reads` says
the same of what was read, whatever came after, so that three reads that were never true
together still are evidence. The rest is about patterns: of the prefixes that go on in a name
one is the longest (`LongestExists`), and it is the only one of its length (`PrefixesAgree`), so
that an accepted table reads a clear name as the step it is of (`ClearIsReadAs`), and a journal of
clear names as the steps that were taken (`ObservedIsNamed`), with unnamed runs left out of both
alike (`KeepAlike`). Of a name that is not clear, what it is read as is still one it may be
(`PatternFits`), which is what `ReadIsFollowed` needs. Values of parameters are assumed to be
texts and no more; it is `Clear`, a condition on the name that was journaled, that says when
the documentation's exception applies.

**ServeProofs** - `ServesWhatIsWritten` (`ServesConfigured`), `GreetsFirst`
(`GreetsByFirstReading`) and `DrainsWhenAsked` (`DrainsAsAsked`), for any configuration, any
number of invocations, hours, starts and ticks. The first rests on `Configured`, that
what was built is what `apply` makes of the configuration, and on two facts about that:
each override reaches its own field (`ConversionsKeep`), and the parts of a text of keys are
its words (`PartsAreWords`), the longest stretches without a delimiter. The latter is an
induction over the text: `Cut` says of a part of it that the parts which are over are its
words, and that the last one is what follows the last delimiter. `Greeted` says that an
invocation's journal is a reading and then its greeting, an attempt has been given what it
holds, and a reply is its second entry; `Heard`, that a process that serves listens for
exactly what it can hear.

**ServerProofs** - `Inv` is eleven named parts. The core is that the lock is held
wherever the registry and the children disagree (`Locks`, `Registry`), that a
child's pid is led by an unreaped process of its launch (`Children`), and that
every live process of a launch is accounted for by its child (`Accounted`);
`Handshaken` says that no server exists before both signals are registered.
From there `NoServerOutlives` (`NoOrphan`), `NoStrangerKilled` (`NoStrayKill`),
`RegistryIsExact` (`RegistryExact`, stated with the proofs), `DirectoriesAreOwned`,
`EvidenceIsKept` and the action property `NothingStartsLate` follow, for any
number of launches, pids, directories and signals.

**RequestProofs** - of `Admin`, `Timely` (clock, deadline, wake-up time and last refusal) gives
`DeadlineBounds` (`EndsInTime`) and `LooksUntilTheEnd` (`LastLookIsFresh`) for
every interval and timeout. Its middle part, `NearTheEnd`, bounds a sleep by how
far its end is from the deadline: half of what remained, rounded up.
`Seen` relates a pending answer to the rows it was read from, which is what
survives until the answer is acted upon: a row that is gone stays gone, an
invocation that is not in flight on a closed server never is again. It gives
`PurgeIsFinal` and `DrainIsFinal`.

Of `Ingress`, `SelectionsAreExact` (`CallsAreSelected`) and `FaultsAreHandlers`
(`FaultIsHandlers`), from `IngressInvariance`, for any alphabet, prefix, handlers, targets
and number of clients. What is hard about them is texts, and is settled first, without
any state:

- `CallIsRouted`: the path of a call that can be sent is routed to that very call, or to nothing
  if its handler is not deployed. Its steps: encoding leaves no mark of a path in a segment
  (`EncodedIsPlain`), so that splitting undoes joining (`SplitAfterSlash`, `SplitSegment`) and
  the client drops no fragment (`SentWhole`); decoding undoes encoding (`DecodedIsWritten`),
  so that what `Sendable` lets through is no segment of dots either (`NameIsSegment`,
  `SentMore`); and the proxy's prefix comes off again (`ForwardedIs`). This is where the
  injectivity of `Code` and that it holds no mark are needed.
- `PredicateSelects`: the query for a target is well formed, and satisfied by exactly the calls
  of the object. A literal ends only at a quote that no other follows, so it is read as the text
  that was doubled (`ScanningDoubled`), and the query as the condition meant (`LexemesAre`).

Each of these is an induction over a text of any length. `IngressInv` then follows a request:
what was sent is its call's path (`Saying`), the invocation it became is of that call, and where
none came none was deployed (`Placed`); every invocation is somebody's (`Owned`), so that a
selection finds no other; a reply is the server's word on the client's own invocation, which
only goes on (`Grown`), or it was altered and is no fault (`Told`); a fault is what its reply says
(`Judged`). The assumptions are that a base URL is the prefix and slashes at its end, that the
prefix has neither a fragment nor a segment of dots, and that the marks of what is absent and
of a failed assertion are none of the values.

**ReadyProofs** - `ReadyTyped` (`TypeOK`), `NoExitIsHidden` (`ExitShows`) and
`DeadlineIsFair` (`DeadlineFair`), for every deadline, interval and lateness. `OnTime`
says that nothing due is acted upon more than `Late` later; `Watched`, that the next
tick comes within an inspection's interval of the exit, since ticks are only ever
put to `Inspect` after now or after the previous one. `DeadlineFair` says nothing of a
sleep under way and is not inductive: `Fair` adds that a sleep ends at most
halfway between its begin and the deadline (`Halfway`), and that a server up since
then has time left for one wake-up and the answers of the stages to come
(`InTime`). The bounds of the sleep itself are `RetryDelayBounds`, a lemma of
`RequestProofs` too.

**Folds.** Samples, named runs (of a table check and of a journal), keys, paths and queries are computed by
`FoldLeft`, and what a fold yields for
input of any length is proved by induction. The library's induction theorems take a
predicate as a parameter, which the provers cannot instantiate; `SetInduction` says the same of a
set (one that holds zero and each successor of its members holds all of `Nat`) and follows
from the well-foundedness of `<`. `FoldExists` and `FoldUnrolls` then give the fold its
value step by step. These lemmas speak of the folded operator by name, so that each
module which folds has its own; in `RequestProofs`, with six folded operators, each is also
given as a function (`Encoding` for `Encoded`), for which `FoldExists`, `UnrolledFolds` and
`FoldOfMore` are stated once.

**Only model-checked**: all liveness (`LimitsEnd`, `LaunchesSettle`, `SignalEnds`, `ShutdownEnds`,
`StopsPromptly`, `IdleEnds`, `WaitEnds`, `StopsWhenAsked`), since fairness and `ENABLED` are out of
the prover's reach. Every safety property that a passing run checks is proved.

## 5. Not modelled

Components: *Errors* are stateless conversions of an error into another. The
Restate server, its SDK and the operating system are modelled only from how the code
here uses them.

Within the modelled components:

- `Poller`: sub-millisecond durations (time is in whole milliseconds), and readings
  before the epoch, which `unix_millis` takes for the epoch itself. With a clock that steps back, checks may
  come closer than the interval, which `ChecksSpaced` therefore excludes.
- `Server`: platforms on which `exit_status` cannot look without reaping. `free_ports`, which may
  panic before there is a directory to look for. Panics inside a critical section other than
  the spawn's; the spawn's, which lets the lock go and unwinds, is one step, so that the order in
  which it does so is not told apart.
- `Ready`: response bodies that end late, which are answers given late; the messages.
- `Endpoint`: HTTP itself; the ten seconds of the drain are an arbitrary moment.
- `Watch`: assertions about its configuration; the length of the interval.
- `Admin`: `kill`, `cancel`, `resume` and `set_public`, one PATCH each without a wait;
  the text of errors. Code between awaits takes no time. SQL quoting is in `Calls`.
- `Journal`: the values of columns beyond what tells rows apart; the rows of
  `sys_invocation` and timestamps.
- `Calls`, `Ingress`: bodies, headers other than the one that marks a fault, query
  parameters; the wording of `ok` and `assert_fault`.
- `Launch`: what can fail between the spawn and the version, which is in `Server` and
  `Ready`; a binary given by name and looked up in the path.
- `Options`, `Serve`: what serde does beyond refusing unknown fields; durations are
  opaque; the tracing subscriber.
- `Counter`: the wait's handler is the only shared one, and only one wait runs.
- `Suite`: the wording of a report.

## 6. Plan

In this order:

1. `Deployments`: `Server` and `Endpoint` composed through `finish`, with several
   endpoints finished one after the other.
2. `Admin` with `kill`, `cancel`, `resume` and `set_public` next to a wait, so that one
   test's write meets another's.
3. Several waits in `Counter`, each with a journal of its own.

Theorems to follow: the safety of those compositions, from the invariants of their parts.

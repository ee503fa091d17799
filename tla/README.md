# MaaEnd-Client in TLA+

MaaEnd-Client is a Go program that runs beside a game on a user's machine, keeps
a WebSocket connection to a server, and executes on the server's demand jobs of
automation through MaaFramework. This directory holds TLA+ models of it, the TLC
configurations that check them, and proofs checked by TLAPS. Paths below are
relative to the repository's root.

    tlc -config MCJobRun_safe.cfg MCJobRun      # one run
    tlapm JobRunProofs.tla                      # the proofs about JobRun

## 1. The system

| component | code | state it keeps | operations |
|---|---|---|---|
| Jobs | `client/handler.go`, `maa/wrapper.go` | `Client.currentJob`; `Wrapper.stopRequested`, `controller`, `currentController`, `resource`, `currentResource`, `tasker` | accept or refuse `run_task`, `executeTask`, `RunTask`, `StopTask`, `Cleanup` |
| Screenshots | `client/handler.go`, `maa/wrapper.go` | the same controller | `handleRequestScreenshot`, `TakeScreenshot` |
| Agent processes | `maa/agent.go`, `maa/wrapper.go` | `Wrapper.agentServers`; processes of the system | `startAgents`, `Stop` |
| Event forwarding | `maa/callback.go`, `client/handler.go` | `EventHandler`, `statusCh`, `logCh` | `SetChannels`, `ClearChannels`, the callbacks, the forwarders |
| Connection | `client/client.go`, `main.go` | `conn`, `connected`, `sendCh`, `reconnectCount`, `connectedCh`, `stopCh`, the context | `Run`, `writeLoop`, `heartbeatLoop`, `readLoop`, `Send`, `Stop` |
| Task compilation | `core/option_resolver.go`, `core/task_compiler.go` | the maps of `ProjectInterface` | `Compile` |
| Interface loading | `core/interface_parser.go` | `ProjectInterface` | `LoadInterface`, `stripJSONComments`, imports, merges, lookups |
| Capabilities | `core/capabilities.go`, `client/client.go` | none | `Build`, `SendCapabilities` |
| Credentials | `config/config.go`, `store/store.go`, `main.go`, `client/handler.go` | `config.yaml`, `device.json` and their images in memory, the binding code | `Load`, `EnsureConfigFormat`, `NewStore`, `handleRegistered`, `handleAuthFailed`, `OnMessage` |
| Start-up and configuration | `config/config.go`, `main.go`, `maa/wrapper.go` | `config.yaml`, `globalConfig`, the command line | `Load`, `detectMaaEndPath`, `SaveConfig`, the checks of `main`, `applyWin32Overrides` |
| Controllers of the system | `maa/wrapper.go` | none of their own | `createWin32Controller`, `createAdbController`, `matchWindow` |
| Protocol | `client/protocol.go` | none | encoding of messages |
| Elevation, console | `admin_*.go`, `main.go` | none | |
| Unused code | `maa/task.go`, `maa/resource.go`, `OnNodePipelineNode` | none | |

**Who runs.** The main goroutine is inside `Client.Run` and is also the read
loop: it handles every message of the server, one at a time, so `handleRunTask`,
`handleStopTask` and the token handlers never overlap. An accepted job and every
screenshot get a goroutine of their own; every connection gets a writer and a
heartbeat; a job gets two forwarders. MaaFramework calls back from its own
threads. A signal goroutine cancels the context and calls `Stop`; main then
returns from `Run` and cleans up without waiting for anybody.

**What they share.** `Wrapper.mu` covers the connecting of controllers, the
loading of resources, screenshots, `Cleanup` and the flag of a stop. `RunTask`
holds it only in stretches: the tasker is destroyed, created, bound, given tasks
and stopped without it. All senders share `sendCh`, which drops what does not
fit. The resolver shares the maps of the interface with the overrides it
returns. `config.Config` is one object for main, the wrapper and the client, and
every save writes all of it.

**What is hard.** Interleavings of stop, screenshot, shutdown and job; late
callbacks into closed channels; goroutines that outlive their connection; two
files that must agree across crashes; maps that outlive the compilation that
changed them; an overflow after enough failures. PROJECT.json lists each hazard
at its line with the properties that watch it.

## 2. Modules

| module | models |
|---|---|
| `JobService` | the promise to the server: one job at a time, items in order, one verdict, "completed" only when all items are done |
| `JobRun` | jobs, stops, screenshots, agents and the shutdown; implements `JobService` (`ServiceSpec`) |
| `EventStream` | a job's events from the callbacks through channels, forwarders and `sendCh` to the wire |
| `Connection` | `Client.Run` with its writers, heartbeats and the signal goroutine |
| `Backoff` | the arithmetic of `waitForReconnect`, with its 64 bits, and the theorem about it |
| `InterfaceLoad` | how a directory of files becomes a `ProjectInterface`: operators, with the promises written beside them |
| `Capabilities` | what of it the server and its web page are told: operators |
| `OptionResolver` | a compilation step by step, as a stack of calls over a heap of shared maps, beside the documented result |
| `Project` | composes the three: load once, offer, compile |
| `Credentials` | the token in two files, three objects and a server, across crashes and failing writes |
| `Startup` | the other settings, from `config.yaml` and the command line to the window a job controls |
| `JobRunProofs`, `EventStreamProofs`, `ConnectionProofs`, `CredentialsProofs`, `StartupProofs` | the theorems about the module each is named for |
| `LoadProofs`, `ProjectProofs` | what the operators of `InterfaceLoad` compute, and the theorems about `Project` |
| `MC*` | values of the constants for TLC |

Properties stand at the end of the module they are about. Definitions whose
name ends in `_Something` (`Dial_KeepsLock`) stand before the definition they
vary: each is a plausible bug in that code, and PROJECT.json names the property
that catches it.

### JobRun

One action per stretch of code that other goroutines can see as one step. The
program counter of a job, `jpc[r]`, goes through `RunTask` in order: `spawned`
(before line 407), `connect`, `dial` (a controller is being made, `mu` held),
`load`, `attach`, `retire`, `create`, `bind`, `agents`, then the item loop
`loop`, `post`, `wait`, and `reap`, `clear`, `report`, `done`. Where the code tests a
field for nil without the mutex and uses it in the next line, the test and the use
are two actions: `bundle` and `destroy` are the pcs between them, as `listing` is the
one between the start of an agent and its entry in the list. `reader` says
where the read loop is inside `StopTask`: the flag is set under the mutex, and
`w.tasker` is tested (`StopTest`) and used (`StopPost`) after it. `spc[s]` is a screenshot. Controllers and taskers
are named by the goroutine that made them; `controller` and `tasker` are the
wrapper's fields, `ctrls` and `taskers` what exists in MaaFramework. A failure
of connecting, loading, creating, compiling or executing is a choice. A
dereference of nil ends the process (`Dies`): as "killed" if main had cleaned up, as
"crashed" if the client was serving. `OnlyKnownCrashes` names the two ways to the
latter: a screenshot has left `w.controller` nil under a job that binds it (`BindNil`),
and `NewTasker` has failed between the two lines of `StopTask` (`StopNil`). `Cleanup`
does not come between those, because `StopTask` runs in the goroutine that cleans up.
`stopped` is a history variable: how the flag of a stop met its job.

A controller may be swapped under a job by a screenshot (`ControllerFitsJob` fails);
`ControllerFitsQuietJob` says that nothing but a screenshot does it.

Actions that hold the mutex from start to end take one step guarded by
`mu = None`; it is held across states only while a controller is dialled, the
one operation long enough for a queue to build up behind it.

### EventStream

Jobs follow one another, as `JobExclusion` allows; what an earlier one left
behind goes on, its report included: `owing` are the jobs between `ClearCurrentJob`
and `SendTaskCompleted`. A channel is a bounded buffer that drops (`safeSendStatus`,
`safeSendLog`); a send on a closed one panics, which is recovered, and sends nothing.
A callback is three actions: `Raise`, when a job's tasker has an event, `Notice`, which
copies the channel and the job id under the read lock, perhaps of the next job, and
`SendLog`, which sends after it.

Connections are lost and made again (`Lose`, `Reconnect`), each with a writer of its
own. Taking from `sendCh` and writing are two actions, and the writer of a lost
connection goes on until a write fails, so that two may hold messages at once.
`crowded` is a history variable: a connection began while an earlier writer still
ran. `heard` is another: the last progress the server heard of each job.

### Connection and Backoff

The n-th connection, writer and heartbeat are named n. A writer looks at
`c.conn` when it writes, a heartbeat at `c.connected` when it ticks, so both may
meet a connection that is not theirs. `ReadMessage` stands for every message
handled; what handlers, jobs and screenshots send is `Produce`, which begins once
the server has asked for something. `SendAuth` uses the same queue and loses its
message when that is full; `authed` are the connections whose auth got in.

`Backoff` represents the product `2^(n-1) * 10^9` by `10^9 = 2^9 * 5^9`: in 64
bits it is `m * 2^(n+8)` with m the low `56 - n` bits of `5^9` in two's
complement. TLC works with small numbers and the result is exact. Durations are in any
unit: `Second` says how many of them a second has, 10^9 in the code. TLC's integers
take milliseconds, and `Doublings` is where it stops to tell a large product from
larger ones, above every maximum of the run; the proofs take any unit and maximum.

### InterfaceLoad, Capabilities, OptionResolver and Project

A MaaEnd directory maps paths to files, a file is the bytes `stripJSONComments`
sees and what the JSON says. `json.Unmarshal` is external: it understands a file
if the stripped bytes are the ones meant and the types fit, which joins the byte
machine to the rest. `stripJSONComments` goes through its text turn by turn, one
`Turn` for an iteration of the code's loop; `loadImportedFile` merges one import,
and `LoadInterface` goes through the imports in order. Beside them stand the
promises: `WithoutComments` says how each byte is to be read, `LastOfEachName` and
`DocumentedOptions` what a list of files amounts to, without a merge.

`Build` is what the server is told. An override maps nodes to fields and fields to
values. Nodes are references into a `heap`, because `mergeOverride` stores src's own
map when dst has no such node and updates dst's map in place when it has. `calls` is
the stack of the resolver: `ResolveTaskOptions` at the bottom, above it one call for
each option that is being resolved, with what it has merged so far (`map`) and what
it has still to go through (`cases`, and the options `names` of the sources or of the
case at hand). `Compile` begins a compilation; `PassOver`, `CallOption`,
`ResolveInput`, `ApplyCase` and `Return` go on with it, and `Refuse` or `Finish` ends
it: one action per merge, return or early exit of the code. `Documented` is written
from DEVELOPMENT.md and the tests, without a heap: the contributions in order, the
later value of a field wins.

`Project` runs them in the order of the client: `Load` (fatal or not),
`SendCapabilities` at every authentication, also while a task compiles, `RunTaskItem`
for any request, whether or not it keeps to the offer. `KeepsToOffer` says which do.

### Credentials and Startup

Both follow `config.yaml` across starts, each for the settings it is about, since
the token and the other settings meet only in that both are written at once.
`os.WriteFile` truncates and then writes, so each write is two actions, either of
which may fail, and `Die` may come between.

In `Credentials`, `yaml` and `json` are the two files, `config`, `storeToken` and
`clientToken` their images in memory. The server is external: it answers auth by
the tokens it holds valid, and `register` by a new token, an error or nothing;
`Unbind` makes a token invalid. `issued` starts with the token a file already holds.

In `Startup`, `Load` reads the file, searches for MaaEnd if it names no directory,
and lets the command line override (`main.go:78-83` is part of the action: nobody
sees the state between). `Preflight` and `WrapperInit` follow, then
`ConnectController` picks a window of whatever desktop there is. `wanted`, `given`
and `lost` are history: the settings as the user left them, the command lines since,
and whether a crash, a full disk or an edit beside a running client came in between.
What a regular expression finds in a text is a constant (`Finds`), which rules are
malformed another (`Malformed`), and so is the set of texts (`Texts`): nothing depends
on what the texts are, except for the empty one and the default server's.

`SaveConfig` puts every text between double quotes as it is, where YAML reads a
backslash as an escape. `Reread` is a constant that says what each text comes back as,
or that the file with it is no YAML; `Backslashed` are those that make
`EnsureConfigFormat` write again, so that a text may change once more at every start
(`\bUnity\b`, backspaces, no YAML). A file that cannot be parsed ends `Load` (`refused`),
before the repair. `log` is the file of the log: no rule of matching looks at it, and
still it can make the file unreadable, as the name of the device can.

## 3. Runs

Passing runs:

| run | bounds | shows |
|---|---|---|
| `job_safe` | 2 jobs of 0 or 1 items, 1 screenshot, 2 controllers (one that attaches a bundle), 2 resources, 2 agents | the inductive invariant of the proofs, which dereferences of nil end a serving client, exclusion, ownership of controller, tasker and agents, what a stop promises and whom it spares, the resource and, without screenshots, the controller a job works with, refinement of `JobService` |
| `job_live` | 1 job of up to 2 items or of an unknown controller, 2 screenshots, fairness | nobody waits for ever for `Wrapper.mu`; only shutdown and the two known crashes leave a job or a screenshot without an answer |
| `event_safe` | 2 jobs of 2 and 1 items, 1 callback thread, 1 log, channels of 2 and 1, queue of 1, 1 lost connection, fairness | late callbacks reach no closed channel and no earlier job, progress never goes back while writers take turns, forwarders end |
| `conn_safe` | 2 connections with a token, 2 messages beside their auths, queue of 2, fairness | the connection at hand is served; the flag follows the loop; a queued auth arrives whoever writes it; a signal ends `Run` |
| `backoff_fits` | 34 failures, maxima from 0 to 900 s, some no whole seconds | the delays are the documented ones |
| `project_safe` | every text of up to 5 of 6 kinds of bytes; 10 directories, with up to 4 imports, of which some redefine, are missing, mistyped or no JSON; every kind of option; 132 requests, 2 compilations | comments go and nothing else; what is loaded is what the files amount to; what is offered compiles and its defaults apply; the first compilation is the documented one, if it mentions no option twice; history adds no node, changes no verdict, fills no template |
| `cred_safe` | 3 starts, 3 tokens, files of 4 kinds, every write may fail | a binding that reached `device.json` survives, a refusal that cleared both files stays |
| `startup_safe` | 4 starts with or without a command line, 3 edits or installations, 3 machines, 5 controllers, 2 desktops, 3 texts that quotes do not keep | the client runs with what its user wrote last, where quotes keep it, down to the window it controls; the search for MaaEnd passes over halves |

`IInv` is the inductive invariant of a module's proofs, checked by its run before it
was proved; `TypeOK`, the type invariant, is its first conjunct. A queue of one place
has no order, so `event_safe` checks no more of `QueueInOrder` than how the queue
follows the channel; without lost connections and with a queue of three TLC finds no
error either.

Two jobs suffice for what the wrapper hands from one job to the next: controller,
resource, tasker and agents pass from a job to its successor only. `job_safe` gives a
job at most one item: a stop or a shutdown meets it before, in or after the item loop
whatever its length, the second item is in `job_live`, and the proofs take any number.
Two connections suffice likewise: a leftover of the first meets the second. Five
bytes hold a comment with something before and after it, and a string with an escape;
the directories of `MCProject` reach every disjunct of the resolver, and those of
`MCTwice` among them let a request mention an option twice. A second start sees what the
first one left, and the third and fourth what an edit or a lost file made of it. The
queues are small so that they are full in many states; the code's capacities
(256, 100, 1000) only make that rarer. `MaxConns`, `MaxMessages`, `MaxLogs`,
`MaxLosses`, `MaxTokens`, `MaxStarts`, `MaxEvents`, `MaxFailures`, `MaxCompiles` bound behaviours by guards
and are named as bounds where they are declared. Runs (job goroutines) are
interchangeable and `RunSymmetry` is used for safety only.

Runs that show a statement of the documents not to hold; PROJECT.json quotes each
under `findings`:

| run | statement | what the code does |
|---|---|---|
| `job_early_stop` | a stop stops the job | a stop before `RunTask` resets the flag is lost |
| `conn_auth` | a client with a token authenticates when connected | a full queue drops auth, and nothing repeats it |
| `backoff_wraps` | exponential back-off | no wait after the 35th failure in a row (the trace), nor after 36, 37, 39 to 41, 44, 45, 47, 49, 50, 53 and every one from the 55th on; at the others the wrapped product is large and the maximum is waited |
| `project_leak` | the override depends on its inputs | the previous job's choices leak |

Further divergences are kept as configurations that reproduce them; they are not in
the standing suite, and the hazards of PROJECT.json refer to them:

| configuration | property TLC finds violated | what the code does |
|---|---|---|
| `MCJobRun_endless` | `StopEndsJob` | a stop between the loop's check and `PostTask` interrupts nothing |
| `MCJobRun_stop_tasker` | `PostStopOnLiveTasker` | `PostStop` may hit a destroyed tasker |
| `MCJobRun_shot_controller` | `ControllerFitsJob` | a screenshot swaps the controller under a job |
| `MCJobRun_orphans` | `NoOrphanAgents` | agents started during `Cleanup` live on |
| `MCJobRun_crash` | `ClientServes` | a screenshot that dials has left `w.controller` nil when a job binds it, and the client dies |
| `MCEventStream_last` | `CompletedIsLast` | forwarders send after `task_completed` |
| `MCEventStream_full` | `CompletedIsQueued` | a full queue drops the completion |
| `MCEventStream_booked` | `LogsBookedToRaiser` | a callback that comes after the next job's `SetChannels` is booked to that job |
| `MCConnection_heartbeat` | `OneHeartbeat` | two heartbeats ping on one connection |
| `MCConnection_order` | `QueueOrder` | two writers reorder the queue |
| `MCConnection_first` | `AuthFirst` | queued messages go before auth |
| `MCProject_twice` | `EveryCompileAsDocumented` | an option mentioned twice loses its second turn |
| `MCProject_offer` (with `-continue`, to see both) | `NoHiddenDefault`, `EveryOptionOffered` | a default in the field `default` applies but is not offered; nor are options of the project, of controllers and of cases |
| `MCCredentials_prompt` | `AsksOnlyUnbound` | a client with a token asks for a code too |
| `MCCredentials_wait` | `RefusedWaitsForBinding` | a refused client has no code to wait for |
| `MCCredentials_saved` | `SavedTokenIsUsed` | the other file's older token wins after a crash |
| `MCCredentials_wiped` | `NewBindingKept` | the refusal of the old token clears the new one |
| `MCStartup_rules` (with `-continue`, to see all three) | `RulesKept`, `SavesReadable`, `BackslashesRepaired` | a save turns `\b` into a backspace and `\d` into a file that is no YAML, and the load fails before the repair |
| `MCStartup_path` | `EmptyPathDetects` | a detected directory is saved, and not searched for when MaaEnd has moved |
| `MCStartup_flags` | `FlagsAreForOneStart` | the command line is saved with the settings |
| `MCStartup_edit` | `EditSurvives` | a save overwrites what was edited beside the running client |
| `MCStartup_crash` | `CrashKeepsSettings` | a crash while `config.yaml` is truncated loses the settings |

## 4. Fairness

`JobRun!FairSpec`: goroutines that can take a step take one (Go's scheduler is
preemptive and its mutex does not starve waiters), and a task item the framework
executes ends. `EndlessSpec` weakens the latter: an item ends if `PostStop`
interrupted it. Nothing obliges the server to send, a user to quit or an agent to
die. `EventStream!FairSpec`: the goroutines of a job, with its report, and of the
forwarders. Nothing is assumed of writers, reconnection or callbacks: a send that finds
no room drops its message, so nobody waits for them. `Connection!FairSpec`: `Run` and a
signal handler that has its signal; a dial ends because it has a handshake
timeout, a wait because it is a timer. Its writers too: a write on a connection
returns, with an error if the connection is gone, so a writer that can take or write
a message does. In all of them weak fairness is enough,
because nothing but its own progress disables a goroutine for ever: for the mutex,
the holder of a dial always releases it, and the waiters are finitely many.

## 5. Proofs

Eight modules hold theorems, for every value of the constants that the assumptions
admit. Every theorem but those marked is an invariant of `Spec`; in the first five
modules it follows from one inductive invariant, `IInv`, in `ProjectProofs` from
`Shape` and what a theorem needs besides.

| module | assumptions on the constants | theorems |
|---|---|---|
| `JobRunProofs` | requests carry a natural number of items; jobs, screenshots and None are distinct; None is no controller, and the attaching ones are controllers; the number of agents is a natural number | `Invariance`, `TypeCorrect`, `Exclusion` (`JobExclusion`), `NoControllerLeaks` (`OnlyCachedControllerLives`), `TaskerOwnership` (`JobOwnsTasker`), `StopsLand` (`StopLands`), `StopSparing` (`StopSparesOthers`), `AgentConfinement` (`AgentsConfined`), `ResourceFits` (`ResourceFitsJob`), `ControllerFits` (`ControllerFitsQuietJob`), `CrashesKnown` (`OnlyKnownCrashes`), `ImplementsService` (refinement: `ServiceSpec`) |
| `EventStreamProofs` | capacities are positive, the numbers of jobs, items, logs and lost connections natural | `Invariance`, `TypeCorrect`, `HandlerIsCurrent` (`HandlerHoldsOpenChannels`), `EventsBooked` (`EventsCarryTheirJob`), `ProgressNeverBack` (action property: `ProgressMonotone`) |
| `ConnectionProofs` | the queue has a place; the bounds are natural numbers | `Invariance`, `TypeCorrect`, `Served` (`ConnectionServed`), `FlagFollows` (`FlagFollowsLoop`) |
| `CredentialsProofs` | `Files` are states `config.yaml` can be in; the bounds are natural numbers | `Invariance`, `TypeCorrect`, `BindingsSurvive` (`BindingSurvives`), `RefusalsLast` (`RefusedNotReused`) |
| `StartupProofs` | files, edits, command lines, machines, controllers and desktops are of their types; a file without settings stands for the defaults; every text is read back as a text or not at all | `Invariance`, `TypeCorrect`, `SettingsApply` (`RunsAsConfigured`), `RightWindow` (`ControlsRightWindow`), `FirstStartDetects` (`FirstStartFinds`) |
| `Backoff` | a second has a positive number of units, the maxima are any integers, and no product beyond `Doublings` is looked at; at most 34 failures in a row (hypothesis `Fits`, not of `WaitsFollowTheCount`) | `WaitsFollowTheCount`, `BackoffDoubles` (action property: `ExponentialBackoff`), `WaitsWhileItFits` (`AlwaysWaits`) |
| `LoadProofs` | a text is a sequence of bytes that closes its block comments | `StripsComments` (operator: `stripJSONComments` is `WithoutComments`) |
| `ProjectProofs` | files hold lists where the code's types say so (`DirsAssumption`); for `LoadHolds` no task twice in a main file and no open comment (hypothesis `Plain`); for `HistoryHolds` no options whose cases name each other (hypothesis `NoCycles`) | `ShapeHolds`, `StripHolds` (`StripAsDocumented`), `LoadHolds` (`LoadedAsDocumented`), `TemplatesStay` (`TemplatesKept`), `DefaultsApply` (`OfferedDefaultApplies`), `OffersCompile` (`OfferedChoicesCompile`), `HistoryHolds` (`HistoryAddsNoNode`) |

`Plain` and `NoCycles` are hypotheses and not assumptions of a module, because files
may break them; `MCProject` assumes both of its directories, so TLC evaluates them on
the ones of the run. `Fits` marks where the code itself goes wrong (`backoff_wraps`).

The bounds of TLC (`MaxConns`, `MaxTokens`, `MaxStarts`, ...) are constants too, so
the theorems hold for each of their values. Every conjunct of an `IInv` has a lemma
that goes through the actions; the last lemma puts them together. None of the
properties is inductive alone, and `IInv` adds what it leans on:

- **JobRun.** `JobData`: item, verdict and request follow the program counter.
  `MutexHeld`: the mutex is held exactly by who dials, and no controller is cached
  then, so that the new one leaks none. `TaskerChain`: only the tasker in the field is
  alive, and none between `retire` and `create`. `StopPending`: from the moment a stop
  lands the flag is up and an item missing; no other job can reset the flag, by
  exclusion. `StopMarks`: while `StopTask` is between its unlock and its `PostStop`, a
  job that is active is one the stop named, so the interruption cannot hit another.
  `ResourceOnTheWay`, `ControllerOnTheWay`: from `LoadResource` and from
  `ConnectController` on, a job finds what it left in the cache. `ServersConfined`: no
  agent servers outside a job's loop. The refinement maps a job's program counter to
  its phase, and shows every action to be an action of the service or a stutter.
- **EventStream.** `HandlerFollowsJob` and `ClosedBehind`: a channel is closed after
  the handler let go of it. `CopiedTogether`: what a callback copied under the read
  lock belongs together, and to no job before the one that raised the event.
  `ProgressMonotone` speaks of the server only, so `ChannelInOrder`, `QueueInOrder`,
  `TakenInOrder` and `HeardInOrder` order all of the road: what the channel holds, what
  is queued, what a writer has taken and what was heard. `WritersInTurn`: as long as no
  two writers were at work together, only one has a message in hand, which makes the
  last of the four inductive; the others hold anyway. `NoneAhead` bounds what is on the
  road by the item at hand, so that the next event keeps the order, though any may be
  dropped or lost.
- **Connection.** `CancelFirst`: the signal handler cancels before it stops, so
  `connected` falls under a running loop only when `ctx` is over (`DialledConnected`).
  `ServedFromStart` is `ConnectionServed` from the first steps of a connection on;
  `WritersHold` and `OfferedBounded` carry the types of the queue.
- **Credentials.** `BindingStored`: `device.json` holds the binding at every point at
  which a crash may come, and `NewStore` prefers it. `RefusedGone`: a refused token is
  in no file and no memory. Nothing brings it back, because `registered` carries a token
  the client has never seen (`RegisteredIsNew`, `InboxInOrder`: the code is sent once,
  a connection carries one verdict). `HandlingFollows` ties memory to the message
  between the two writes.
- **Startup.** `FileFollows` is `RunsAsConfigured` of the file instead of memory:
  each save writes what the client runs with, each load reads what a save left. Both say
  so of each text that double quotes keep, for such a text is unharmed by what becomes
  of its neighbours, unless the file cannot be read at all: then nothing runs.
  `ArgsGiven`: the command line in force is one of those given. `OverriddenOnline`:
  controllers are made from interface and settings after the overrides, never before.
  `FirstStart`: until the check, the path of a first start is what detection found.

- **Backoff.** `Waits`: the last wait is the one the count of failures stands for, and
  a connection that lasted has no count. `ProductDoubles` says of the product in 64 bits
  that it doubles as long as it is told apart, and is positive, up to 34 failures.
- **InterfaceLoad.** The scanner's turns are followed one by one: `Keeping` says that
  before each turn the output is what `WithoutComments` keeps of the bytes consumed,
  and that the mode agrees with `ReadAfter`, the reading of a byte from its
  predecessors; a turn may consume two bytes. Imports: after each, a list of tasks or
  presets holds of every name the last definition at the place of the first
  (`ListedPlaced`, `MergeIsListed`), and `option` the last one that is not null
  (`LastSays`).
- **Project.** `Shape`: calls are a stack, an offer is of the interface as it is,
  nothing compiles before. `Loaded`: the interface is `LoadInterface(dir)` until
  there is an offer. `MapsApart` and `TemplatesHeld`: no override under way refers to a
  template of an input option, so no merge writes to one.
- **HistoryAddsNoNode.** What a request will override is fixed before it compiles:
  `Contributed` defines the contributions of all options at once, and `Contributing`
  shows that the definition has a solution and only one, by taking of any set of
  options one whose nested options lie outside (`LeastOption`, which is `NoCycles`).
  `MarksOf` reduces contributions to the nodes they set and to whether one refuses.
  `Accounted` then says of every state of a compilation that what the calls on the
  stack have merged, and what they have still to go through, amounts together to
  `Requested`; each step moves an option, a case or a finished call from one side to
  the other. `Answered` keeps the result once the stack is empty, and
  `DocumentedMarks` says that `Documented` amounts to the same.

The attempts changed the models where they could not be reasoned about.
`ControlsRightWindow` used to compare with a window picked by `CHOOSE`, which is right of the first match only under TLC's
reading of `CHOOSE`; it now says that there is a position with the window, the rules hold
there and at none before. And positions replaced filtered sequences in
`detectMaaEndPath` and `createWin32Controller`, since "the first" is then a least
element and needs no induction (`Least`). In `InterfaceLoad` and `OptionResolver`
functions replaced RECURSIVE operators, and a compilation became the steps it consists
of, which also lets capabilities be sent in its midst. Inductions over lists and
options go by sets, least elements and bounded ranges (`UpTo`), since no prover here
takes the library's induction theorems, which have an operator as a parameter.

Left to TLC:

- liveness (`JobsAnswered`, `ShotsAnswered`, `ForwardersEnd`, `SignalEndsRun`,
  `AuthArrives`): it rests on fairness;
- the runs that show a statement to fail;
- `FirstCompileAsDocumented`, the values of the fields, of requests that mention no
  option twice: a proof would need an invariant of who refers to which map of the heap. `HistoryHolds` says as much of the nodes and of
  the verdict, for every compilation and every interface without cycles.

## 6. Not modelled

- Cyclic options: the code recurses without end on them. `HistoryHolds` assumes there
  are none (`NoCycles`).
- Translations and labels (`loadI18n`, `GetI18nString`), paths of resources and agents,
  the pixels' size: wording and layout that no property is about.
- Tasks of one name twice in the main file: `getTask` takes the first, the merge the
  last, and no document says which is meant (`Plain`). Nor are texts that end inside a
  block comment, which are no JSON.
- Concurrent writes on one WebSocket connection, which the library forbids: a write is
  one step, and `MCConnection_order` shows that two writers are there. What they do to
  the order of messages is modelled, what they do to a frame is not.
- Settings other than the token, the directory, the server, the window rules and the log
  file: the device's name and the log level are loaded and saved as the log file is, the
  version and the durations need no escaping.
- Connection state of the device while a job runs; pixels; message encoding (a bad
  payload is a choice of the handlers in `Credentials`).
- Elevation on Windows: one call before anything starts, which hands command line and
  working directory on to a process that begins as `Startup` does.
- Code nothing calls (`maa/task.go`, `maa/resource.go`, `OnNodePipelineNode`, the
  setters of `store.go`).

## 7. Plan

Done: every component named in section 1 but the codec and the console. The suite is
kept to a dozen runs: a new question joins the run of its module where the bounds
allow, or takes the place of a weaker one. Next, in this order:

1. Proofs: `FirstCompileAsDocumented` for requests that mention every option once; an
   abstract specification of the event stream (a lossy channel that keeps the order of
   a job's progress) and of the credentials (one token, bound and refused), implemented
   by `EventStream` and `Credentials`.
2. A composition of `Connection` and `Credentials` for the authentication of a
   reconnecting client, once the order of auth and register is the question.

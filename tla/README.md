# A verification project for xrpl-hive

xrpl-hive runs *simulators* (test programs in containers) against XRPL servers
(*clients*, in containers too). A host process, `hive`, builds the images, starts
one simulator after another and serves each of them an HTTP API through which
the simulator starts and ends test suites and tests, starts clients, and connects
them to networks. This directory holds TLA+ models of that machinery, the TLC
configurations that check them, and proofs checked by TLAPS.

    tlc -config MCClients.cfg MCTestManager      # one of the runs below
    tlapm TestManagerProofs.tla                  # one of the eight modules of proofs

`PROJECT.json` lists the components, runs, theorems, findings and hazards, and
maps every definition to the lines it models.

## 1. Inventory of the system

| component | source | state it keeps | operations | model |
|---|---|---|---|---|
| simulation API | `internal/libhive/api.go` | none; one goroutine per request | start/end suite and test, start/stop/pause/share client, networks, exec, status | `TestManager`, `NetworkManager` |
| test manager | `internal/libhive/testmanager.go` | running suites and tests, results, clients of a test, ID counters, two locks | the methods behind the API, `Terminate` | `TestManager` |
| networks | same, `networks`, `networkMutex` | suite -> name -> ID, and docker's networks | create, remove, prune, IP, connect, disconnect | `NetworkManager` |
| container backend | `internal/libdocker/container.go` | open log files and attachments per container | create, start, delete, run, upload | `ClientStart` |
| API proxy and probe | `internal/libdocker/proxy.go`, `hiveproxy/` | the proxy in use, running probes by ID | serve, close, CheckLive, cancel | `ClientStart` |
| simulation run | `internal/libhive/run.go`, `hive.go` | results of the run, failure count | run per simulator, deferred cleanup, exit status | `Simulation` |
| simulator framework | `xrplsim/testapi.go`, `xrplsim.go` | suite at hand, results of running tests | RunSuite, runTest, T.Run, T.Fail | `Simulation` |
| start page of the results | `cmd/hiveview/assets/lib/app-index.js` | filters in the URL, the `<select>`s, the table's searches, filter objects; boxes | choose, click, clear, search, sort, group, load | `IndexPage` |
| suite page | `app-suite.js` | rows with details, highlighted rows, the URL hash | load, click, page, search, sort | `SuitePage` |
| log viewer and routes | `app-viewer.js`, `routes.js` | its URL | show a log, go back to the test | `Hiveview`, `TestLog` |
| loader of test output | `testlog.js` | buffers, positions, lines read | head and tail lines, split, line ranges | `TestLog` |
| test patterns | `xrplsim/testmatch.go` | none | parse, match | not modelled |
| oracle, topology, RPC, WebSocket | `xrplsim/*.go` | connection and message ID | CompareAtSequence, Call, ReadMessage | not modelled |
| conformance comparison | `xrplsim/iotest/` | none | compare, redact, parse, discover, run | not modelled |
| inventory | `internal/libhive/inventory.go` | directory listing | client lists, nametags, filters | not modelled |
| cleanup | `internal/libhive/cleanup.go` | none (docker's labels) | remove and list containers | not modelled |
| result viewer, server side | `cmd/hiveview/*.go` | the log directory | listing, garbage collection, serve, deploy | not modelled |
| image builder | `internal/libdocker/builder.go`, `docker.go` | none | build client and simulator images | not modelled |
| simulators, client images, CI | `simulators`, `clients`, `.github`, `scripts` | - | - | not modelled |

**How they interact.** `hive.go` calls `Runner.run` for each simulator. `run` makes
a `TestManager`, starts the proxy container (`ServeAPI`), then the simulator's
container, and waits for the simulator's exit, the time limit or an interrupt.
Requests of the simulator travel through the proxy to goroutines of `net/http`,
which call the manager, which calls the container backend, which calls docker.
At the end the results are counted, and deferred calls delete the simulator's
container, close the proxy and call `Terminate`, in this order. Nothing waits for
the requests still being served. When it is over, `hiveview` lists the summary files
and serves them to three web pages, which share nothing but URLs: the start page
links to a suite run, its page to the logs of a test, and the log back to the test.

**What is hard.** All requests of a simulator run concurrently with each other and,
at the end, with `Terminate`. The manager has three locks: `testSuiteMutex`,
`testCaseMutex`, `networkMutex`. Several operations check under one lock and act
under another, and some hold a lock across calls of docker or the wait for a
container to stop. docker fails; containers exit by themselves; simulators crash,
hang and run into the time limit. The start of a client is served by five
goroutines in two processes. On the web pages, what the reader has chosen is kept
in several places at once (URL, controls, table, objects), each written by several
handlers, and output is read in chunks from both ends of a file that holds more
than the test's part. The repository has one Go test (of `hiveview`'s
deployment), so none of this is tested.

**What makes each component correct**

- *Test manager*: a client is stopped exactly by the test that started it, a test
  that has ended owns no running client, a test has one verdict and a suite one
  summary, and `Terminate` returns and leaves nothing running.
- *Networks*: the manager's map and docker agree; a suite that has ended has no
  network; an operation on a network hits the network it looked up; no deadlock.
- *Container backend and probe*: a client is reported online only if it was
  reached; output is logged while a container runs; a start that fails leaves no
  container, file or goroutine; every start returns; a cancellation stops the
  probe it is meant for and no other.
- *Simulation run and framework*: a failure that a test signals reaches hive's exit
  status; the summary counts the whole run; a suite whose tests are over is ended.
- *Web pages*: what the URL says, what the controls state and what is shown agree,
  through any sequence of choices, reloads and links; the test that a URL names is
  open; no row and no line of output is hidden without a sign of it.

## 2. The modules

Each model names its actions after the functions of the source. A goroutine `p`
of `TestManager` and `NetworkManager` is a value of `at[p]`, the step it takes
next, and `arg[p]`, what it has read so far (its local variables). One action is
one critical section, or one call of docker. Locks that are kept across steps are
variables; a lock that is taken and released within a step is a guard that it is
free. Operators named `NAME_xxx` are plausible mistakes in `NAME`; no
specification uses them, and each, put in the place of `NAME`, makes a property
fail (`mutants` in `PROJECT.json`), which shows that the property is about the
code.

### TestManager (`testmanager.go`, `api.go`)

State: the two locks; `runningTestSuites`, `results`, `testCases`,
`clientVersions`; `runningTestCases`, `summaryResult`, `clientInfo` (per test and
client: `absent`, an entry without a `wait` function (`nil`) or one with it (`wait`),
which is the right and duty to stop it); `container` (docker); `summaryFiles`.
A request waits for `testSuiteMutex` first (`suite?`), also one that came just before the
API server was closed: `StartTestSuite`, `Receive` or `Refuse`. `startClient` is seven
actions, from `CreateContainer` to `RegisterNode`; `ConnectNetworks` and `JoinNetwork`
are `ConnectContainer`, with `networkMutex` held for reading in between, for which the
end of a suite waits at `MoveToResults` (`PruneNetworks`);
`registerMultiTestNode` is four; `EndTest` deletes and waits for one client per
step while it holds `testCaseMutex`; `StartTest` and `AddTest` are the two halves of
`StartTest`, between which the suite may end, since suites end under the other lock;
`Terminate` is two nested loops over maps
that handlers may be changing (a Go map range visits an entry added meanwhile or
not: nondeterministic).

Abstracted: names, descriptions, timestamps, log contents and offsets, the
multi-test details file (its closing is part of `DoEndSuite`), HTTP encoding.
A suite file is always written: the case of an empty `LogDir` in `doEndSuite` cannot
occur, since `createWorkspace` (`run.go:300`) refuses an empty name before a manager
exists. `ClientFaults`
lets containers exit and deletions fail (a container whose start failed and which could
not be deleted is `stray`: whether it runs is left open), `DiskFaults` lets summaries fail to be
written, `CrossSuite` and `ShareBack` admit requests that a simulator which uses the
framework does not send.

`TestLedger` is what the manager promises about suites and tests, without requests,
locks and containers. `TestManager` implements it: the operator `Ledger` instantiates
it under a refinement mapping that computes a suite's state from `runningTestSuites`
and `results`, a test's from `runningTestCases`, its counter and `results`
(`LedgerImplemented`).

### NetworkManager (`testmanager.go`, `container.go`)

State: `testSuiteMutex`, `networkMutex` (a read-write lock), `networks` (the
manager's map), `docker` (docker's networks and who is attached), `present`
containers. `RemoveNetwork` is a loop that disconnects one container per step.
The test cases of a suite are left out: ending a suite may be refused. The IP of a
container in docker's own network `bridge` is a request that no map is looked at for.
Without `Overlap`, suites end only when no other request is being served, and no
container disappears while one ends: a simulator that stops its clients, or waits for
their end, before it ends a suite. With it, both happen at any time. Go blocks
new readers of a `RWMutex` once a writer waits; the model lets them in, which
admits more interleavings and, since no goroutine takes a read lock twice, misses
no deadlock.

### ClientStart (`container.go`, `proxy.go`, `hiveproxy/`)

A start has a handler (`at`), a waiter, a checker, a relay, and in the proxy's
container the goroutines of the probe and of its cancellation. `request` and
`cancel` are the two messages, which the RPC library serves in goroutines of
their own, in any order. `CloseProxy` is `proxyContainer.Close` in three steps.
`RunFaults` admits two failures of docker that are not what they seem: a start that is
reported as failed though the container runs (`RunContainer`, then `Undo` deletes it),
and an attachment that ends with an error while the container runs (`AttachmentBreaks`;
`broken` is a history of these). A probe whose address has no IP, because docker knew
none when the container was inspected, ends at once (`invalid`).
Abstracted: TCP and yamux, the contents of files. The start of the proxy itself
(`ServeAPI`) is the initial state.

### Simulation (`run.go`, `hive.go`, `testapi.go`)

hive's main goroutine, the simulator's main goroutine and its test functions, with
an abstract manager whose requests are single steps. `suiteState` and `verdict`
are what the manager knows, `test` and `failed` what the simulator knows. One simulator
runs `NumSuites` suites; each test belongs to one (`SuiteOf`), and `Parent` makes some
the subtests of others. The parents of tests form a forest (`SimulationAssumption`),
because a test gets a subtest only from its own function. `Faulty` lets requests, docker
and the attachment to the simulator fail, `Crashes` lets the simulator end anywhere, and a
test function may hang.

A test function does not wait for subtests that it has started concurrently: it may end
by `FailNow` (as `StartClient` does) or a panic. The subtest goes on, may start others,
and the manager refuses to end the suite as long as it runs. `T.Fail` may come after the
result was sent. `Terminate` ends some of the suites that run, or none, or hangs
(`hung`): what it does is `TestManager`'s subject, and nothing here depends on it.
`DeleteSim` may leave the simulator running.

`spoiled` is a history variable: the suites in which one of these things happened (a
request failed, the simulator was cut off, a test ended before a subtest, a failure came
late). Of these suites the code promises nothing (section 5, 9), and neither do the
properties; of the others, in the same run, they do. `signalled` is the other history
variable: a test failed in a suite that was not spoiled.

It is assumed that no simulator runs when its start has failed (`StartSim`); docker
could leave one there, as it could for a client (`ClientStart.RunContainer`).

### IndexPage, SuitePage, Hiveview (`app-index.js`, `app-suite.js`, `routes.js`)

`IndexPage` is the table of runs: `url`, `selects`, `values` (the page's own filter
set), `notice`, and `table`, with the rows last drawn. A handler runs to completion
and is one action; `Apply` is one filter's `apply`, and handlers that set several
filters compose it, as the code does. `Draw`, `DrawClient` and `TypeQuery` are what
`app-index.js` depends on in DataTables (searches of columns, custom searches, the
reuse of the previous result). `SuitePage` is the table of tests of one run, with
`open`, `highlighted` and `hash`. `Hiveview` puts both and the log viewer into one
browser tab with its Back and Reload buttons: a page is loaded from its URL and
forgets everything else. Left out: pages of the start table, the highlighting and
keyboard focus of boxes, rendering.

### TestLog (`testlog.js`, `app-viewer.js`)

The Loader as a process: `FetchHead` and `DecodeHead` alternate until enough lines
were read from the front, then `FetchTail` and `DecodeTail` from the back, until the
two meet. Bytes are letters, newlines, and pairs that make one character, so that a
chunk may end in the middle of a character. Positions are computed as the code
computes them, which is not always in bytes. `SplitHeadTail`, `FirstLine` and
`LastLine` are pure functions, evaluated on the same outputs. What goes byte by byte or
line by line (decoding, splitting a text at its newlines, joining lines) is a fold, written
as one recursive function (`Folding`) with the step as its parameter.

### How they fit

`Simulation` treats as one step what `TestManager` takes apart, and `TestManager`
treats as one step (`StartContainer`) what `ClientStart` takes apart;
`NetworkManager` and `TestManager` share `testSuiteMutex` and the end of a suite. The
ledger of `Simulation` (`suiteState`, `verdict`) has the states of `TestLedger` with
`Decide` and `EndTest`, `WriteSummary` and `EndSuite` taken together, and the verdicts
that are not a pass as one.

## 3. The runs

| run | module, configuration | shows |
|---|---|---|
| `clients` | MCTestManager, MCClients | ownership of clients with failing deletions and exits: `EndedTestOwnsNothing`, `SingleOwner`, `RunningClientOwned`, `VersionKnown`, `FirstVerdictStands`; `OnlyInversionDeadlocks` of the three locks |
| `suites` | MCTestManager, MCSuites | `LedgerImplemented` with two suites, requests that name a test of the other suite, clients shared by and with any test, and failing writes; with a docker that does not fail, `TerminateReturns` and `RequestsAnswered` unless a `startClient` that joins a network has met the end of a suite (`Inverted`) |
| `late_client` | MCTestManager, MCLateClient | violated: section 5 |
| `networks` | MCNetworkManager, MCNetworks | `RecordedNetworkExists`, `SuiteNetworksRecorded`, `CallTargetExists`, `OnlyInversionDeadlocks` with a failing docker |
| `networks_orderly` | MCNetworkManager, MCNetworksOrderly | `EndedSuiteHasNoNetwork`, `RequestsAnswered` if the simulator ends a suite after its other requests |
| `lock_order` | MCNetworkManager, MCLockOrder | violated: section 5 |
| `starts` | MCClientStart, MCStarts | `OnlineWasReached`, `CancelReachesOwnProbe`, `RunningIsLogged` for two starts, each step of which may fail, deletions and probes of an unknown address included |
| `starts_end` | MCClientStart, MCStartsEnd | `RunningIsLogged`, `FailedStartCleanedUp`, `StartReturns`, `GoroutinesEnd` for one start while the proxy is closed at any moment, attachments break, and docker reports a failure of a start it has made |
| `simulation` | MCSimulation, MCSimulation | `FailureReported`, `SummaryCountsRun`, `SuiteEndAccepted` for simulators that crash, hang, run into the time limit, fail late, start subtests that outlive their parent and have requests that fail |
| `hiveview` | MCHiveview, MCHiveview | the filters (`StatedFiltersAgree`, `ColumnFiltersHold`, `NoMatchHidden`, `ClearShowsAll`, `ReloadKeepsView`), and the selection of tests (`HashNamesSelected`, `ClickKeepsDetails`, `LinkedTestOpened`), over all three pages |
| `filters` | MCHiveview, MCFilters | violated: section 5 |
| `testlog` | MCTestLog, MCTestLog | `HeadIsPrefix`, `TailIsSuffix`, `CompleteIfNoTail`, `LoadEnds` of the loader; `SplitConserves`, `RangeHasItsLines` of the pure functions |

The type invariants of the modules, and the properties `OneSummary` and
`EndedStaysEnded` of `TestManager`, are not in a run: they are proved.

**Bounds.** Two handlers and `Terminate` are three goroutines: each property
relates one client (or network) to at most two tests (or operations), so that a
violation needs two goroutines that disagree and one that ends things. Two tests
are needed to share a client, and one client suffices because clients interact
only through the tests that own them. Two suites are used where a request can
name a test of another suite. `MaxNetworks` allows a name to be used again after
a removal. Two starts share a proxy; the failures that `RunFaults` adds concern one start at a
time and are in the run with one. Two suites, one of a test with a subtest, and two
simulators show that counts are neither lost nor carried over; that the top-level
tests of a suite run one after the other matters only with two of them, and for this
there are the proofs. Three runs in the listing, of two suites
and with one or two clients, make every filter tell some runs apart; the date filter
has no options in the instance, since it is a column search like the status. Two
tests on pages of one row make the page, the search and the order matter. Outputs
of up to seven bytes, in chunks of two and four bytes (the code requests one byte
more than a chunk), with limits of one to three lines, are cut by chunks and limits
in every way, and front and back meet, overlap and miss. `MaxSuites`, `MaxTests`,
`MaxNetworks`, `NumSuites`, `NumSims`, `MaxTrail` (the browser's history) and `MaxBytes`
bound what the code leaves unbounded; they are the only such bounds. The proofs
have none of them but `MaxTrail`, for any value of it.

**Deadlock** is checked except where the system really stops: `clients` (`EndTest`
waits, with `testCaseMutex` held, for a client whose deletion failed and which does
not exit), `clients`, `suites` and the runs of `NetworkManager` with `Overlap` (the lock
order, section 5; `OnlyInversionDeadlocks` says that nothing else stops them),
`testlog` (the loader has loaded), and `hiveview` and `filters`, which only describe
what a reader may do.

**Fairness.** Weak fairness of each goroutine's steps: Go schedules every runnable
goroutine. In `TestManager` a request that came is served, and the loop of
`ConnectNetworks`, which may go round any number of times, is left in the end (strong
fairness of `LoopLeft`): a request names finitely many networks. `NetworkManager` uses
strong fairness, because a goroutine that waits
for a contended lock is enabled only now and then, and Go's mutexes hand over to
waiters. `ClientStart` assumes that the start timeout fires (a timer), and nothing
of the container, the port or the moment hive shuts down. `Simulation` has only safety
properties: a simulator without a time limit may hang, and so may `Terminate`. `TestLog`
assumes that a request is answered, or fails, and that
its answer is decoded. The pages assume nothing of the reader.

## 4. The proofs

### TestManagerProofs

For every set of handlers, every number of suites, tests and clients, and every
value of `CrossSuite`, `ShareBack`, `ClientFaults` and `DiskFaults`:

- `TypeCorrect`: `Spec => []TypeOK`;
- `EndedTestsOwnNothing`: a test that has ended has no client entry with a `wait`
  function;
- `ClientsHaveOneOwner`: an entry with a `wait` function belongs to the test the
  client was started for, and its container has not been removed;
- `VerdictsStand`: the first verdict of a test is never replaced;
- `SummariesAreSingle`: a suite is running or ended, and gets one summary file;
- `NothingRestarts`: a test or suite that has ended stays ended;
- `RequestsGoOn`: while anything is going on, some goroutine waits for no lock that
  another one has, unless one that ends a suite meets a `startClient` that joins a network
  (`OnlyInversionDeadlocks`; section 5, 2). The locks are `testSuiteMutex`, `testCaseMutex`
  and what `startClient` and the end of a suite need of `networkMutex`.

Two more theorems about clients are in `ClientProofs`, below.

The only assumption is `ManagerAssumption`: the goroutine names are distinct and
the bounds are numbers.

*Ownership.* A test gets entries only while it runs, and `EndTest` takes it from
`runningTestCases` when it has no client left to stop, so `EndedTestOwnsNothing` follows
from the guards. `SingleOwner` is not inductive: `startClient` holds a client that no
test owns yet, and registers it after several steps of other goroutines. The invariant
`OwnerInv` adds what is needed:

- `Control`: what a goroutine has read fits the step it is at (`Fits`): a handler
  about to register a client has a node and a test, and so on. Every action moves
  `at` and `arg` together; lemma `ControlStep` reduces all of them to one fact per
  action.
- `Private`: the client that a `startClient` handler has created is not in any
  test's table and not in the hands of another handler, and its label names the
  test it was started for. This is what `RegisterNode` needs to keep `SingleOwner`,
  and what `ShareBack` cannot break, since a client not in a table cannot be
  shared.

`Private` is disturbed only by the actions of `startClient` and by those that
change a client's table entry; lemmas `OwnerQuiet`, `OwnerEndTest`, `OwnerStart`,
`OwnerClient` and `OwnerOther` treat one group of actions each, `OwnerNext`
combines them.

*Endings.* A verdict is written at the beginning of `EndTest` and the test is taken
from the running ones at its end, many steps later; a summary file is written two
steps before its suite moves to the results. What happens in between depends on the
locks. `CaseLock` says that `testCaseMutex` is held exactly by the goroutine in the
middle of `EndTest`, whose test is still running, or between `StartTest` and `AddTest`,
and that a running test has a verdict only if it is being ended. `SuiteLock` says the same of `testSuiteMutex`, of
the suite being ended and of its file. Both say that counters are ahead of the
IDs in use. Each is inductive together with `OwnerInv`.

*Deadlock.* `Waits` says which goroutines need a lock that is held, and also counts one that
needs `testSuiteMutex` while another may be reading the suites, and a reader of
`networkMutex` while a writer waits for it. `SuiteLock` says that who
ends a suite has that lock; `RequestsGoOn` needs the other direction, `SuiteHolder`: who
has it ends a suite or is in `Terminate`. Then `SomeoneGoesOn` names the goroutine: the
holder of `testCaseMutex`, which is inside `EndTest` or `StartTest` and takes no other lock;
else the holder of `testSuiteMutex`, which can only wait, at `move`, for readers of
`networkMutex`, and these wait only for `testSuiteMutex`, so that the two are `Inverted`; else
a reader of the suites; else any. This is the safe half of `RequestsAnswered` and
`TerminateReturns`, for any number of goroutines; that a goroutine which can go on also
does is fairness. A container that never stops is not
a lock: a goroutine in `waiting` is not one that `Waits`.

### LedgerProofs

`Implements`: `Spec => LedgerImplemented`, that is, the manager implements `TestLedger`,
for every value of the constants. The mapping is computed from seven variables
(`ledgerSees`), and a step that leaves them alone is a stutter. Of the others:
`StartTestSuite` is `StartSuite`; `AddTest` is `StartTest`, of a suite that is running or
has ended since it was checked (`Begun`, a fact about goroutines between `StartTest` and
`AddTest` that is added to the invariant), with an ID that is not in use; the first step
of `EndTest` is `Decide`, and by `CaseLock` the test is running and has no verdict; its last step is `EndTest`, and has a verdict by `Decided`, a fact about
goroutines in the middle of `EndTest` that is added to the invariant; the steps that
write and move a suite are `WriteSummary` and `EndSuite`, by `SuiteLock`.

### ClientProofs

- `RunningClientsOwned`: `~ShareBack` implies `Spec => []RunningClientOwned`;
- `VersionsAreKnown`: `~CrossSuite` implies `Spec => []VersionKnown`.

The hypotheses are the assumptions under which the run `clients` checks the two
properties, and TLC finds them violated without. A simulator that uses the framework
satisfies both.

*The argument.* `Known` is what the manager and docker agree on: requests, labels and
tables name only tests that were started and containers that were created, and the
entry a handler is about to register has a `wait` function if the container is up. A
client would be lost if its own test's entry were overwritten by one without `wait`. A
request to share a client names the test that started it, and another one
(`SharesOwn`), so that `registerMultiTestNode` writes only to other tests' tables: with
this, and the invariant of `LedgerProofs`, `RunningClientOwned` is inductive. For the
versions, `NamesMember` says of a handler that is about to register a node that its suite
knows the version, or has ended; `Members`, that the tests of a suite are its own, so that
an entry in the table of a test counts for no other suite.

### NetworkManagerProofs

For every set of handlers, suites, names, containers and networks, and every
value of `Overlap`, `Duplicates` and `Faulty`, from `NetworkAssumption` (the names
of the goroutines are distinct and the constants have their types):

- `TypeCorrect`: `Spec => []TypeOK`;
- `RecordedNetworksExist`: the map has no network that docker does not have under
  that suite and name;
- `CallTargetsExist`: the same of the ID that a goroutine is about to call docker
  with, after it has looked it up;
- `NoNetworkIsLost`: unless docker lets two networks have one name, the map has
  every network of a running suite, until `PruneNetworks` is through with the suite;
- `EndedSuitesHaveNoNetwork`: a suite that has ended has no network, if suites end only
  when no other request is being served, docker refuses duplicates, and its calls succeed
  (`~Overlap`, `~Duplicates`, `~Faulty`, as in the run `networks_orderly`; section 5, 4
  says what happens otherwise);
- `DeadlocksAreInversions`: if all goroutines wait for each other, one of them ends a suite
  and waits for `networkMutex`, and another has that for reading and is about to check its
  suite (`Inverted`; section 5, 2). No other overlap of requests, and no failure of docker,
  stops hive;
- `OrderlyRunsGoOn`: `~Overlap` implies `Spec => []~Deadlock`.

*The argument.* The invariant has four layers, and one more for the last theorem. `Control` is as above.
`NetworkLock` ties `networkMutex` to the stages of the goroutines that hold it: one
writer, or readers and no writer. `Agree` adds to `RecordedNetworkExists` that
what a goroutine has looked up under the lock is still what the map says
(`LookedUp`), and that docker's IDs are not above the number created. The steps
that change the map (`Create`, `RemoveIt`, `Forget`) do so while no other goroutine
has looked anything up, which is lemma `Alone`, from `NetworkLock`. That `RemoveIt`
leaves no other name with the removed ID follows from `RecordedNetworkExists`
itself: a recorded network carries one name. `Tracked` is
`SuiteNetworksRecorded` if docker refuses duplicates; it needs `Agree` to know that
`RemoveIt` forgets the network it removes and no other. For
`EndedSuitesHaveNoNetwork`, the fifth layer `OrderedInv` says that a request that ends a
suite is alone (`Solitude`), that every recorded network of the suite is one that
`PruneNetworks` will still visit, so that none is left when it forgets the suite's map
(`PrunesAll`), that a network is only created in a running suite and only attached
containers are disconnected (`KeepsPace`), and that networks have the names of requests.
That docker has no network the map does not have is `Tracked`.

*Deadlock.* `Waits` is wider than the guards: a goroutine that needs a read lock also waits
for those that need the write lock, as Go's `RWMutex` makes it. `OrderInv` adds to the
layers above that who has `testSuiteMutex` ends a suite or is in `Terminate`, and where
(`SuiteHeld`; without it the lock might have been left behind). `InversionOnly` then
follows the waiting: the holder of `networkMutex` for writing only calls docker; without
one, its readers wait only for `testSuiteMutex`, whose holder can only wait for
`networkMutex`: if both wait, the two are `Inverted`.

`TestManager` has of the network lock only what `startClient` and the end of a suite wait
for, and `NetworkManager` has no test cases, so that neither proof relies on the other. Both
find the same inversion, and no other one.

### ClientStartProofs

For every finite set of starts, every subset of them with a port check, and every
value of `Closing`, `RunFaults` and `DeleteFaults`:

- `TypeCorrect`: `Spec => []TypeOK`;
- `OnlineIsReached`, `CancellationsAreOwn`, `OutputIsLogged`: the three properties of
  the run `starts`;
- `FailedStartsCleanUp`: if docker deletes what it is told to delete
  (`~DeleteFaults`), a start that failed leaves nothing.

*The argument.* `StartInv` says for each start how the stages of its goroutines fit.
`Messages`: a message was sent by a call that has begun, a cancellation only after
the end of the context. `Reached`: whatever goroutine knows of a success, an answer of
the port is behind it. `Logged` and `Cleaned`: at which stages of the handler the
container, the files, the attachment and the waiter are in which state. A container that
runs while its start is being taken back (`Undone`, `GivenUp`) or after its attachment broke
is what `RunningIsLogged` leaves out, and `Logged` has to say that it is nowhere else. Only the
front-end connects starts, through the IDs of calls, and one conjunct is about all of
them: `Numbered`, the counter is the number of calls begun and their IDs differ. It
shows that `FrontCancel` cancels the probe of the sender's start, whose context is
done, and that a probe never finds its ID registered. The finiteness of `Starts` is
used to count.

### SimulationProofs

For every number of simulators and suites, every finite forest of tests, and every
value of `TimeLimit`, `Crashes` and `Faulty`:

- `TypeCorrect`;
- `FailuresAreReported`, `RunsAreCounted`, `SuiteEndsAreAccepted`: the three properties of
  the run `simulation`. They are about every run; what they leave open are the suites
  that were spoiled in it, one by one.

*The argument.* Three places know of a test: the simulator, the manager, and hive's
counts. `Whole` says of a suite that is not spoiled that the manager agrees with the
simulator on each test (`Agree`), and that a test which has ended has no subtest that
runs. With the assumption that parents form a forest this yields lemma `NoneRuns`: when all
top-level tests of such a suite are over, no test runs, since a running one without a
running parent would be a top-level test. That is why the manager accepts the end of
the suite, and hence why what is ended when the results are counted has all of it
(`Counted`). By then the simulator has exited, or its attachment broke and all suites are
spoiled, or hive exits with an error (`HivePhase`). `Told` says that a
failure which was signalled is in hive's count, or replaced by an error.

### HiveviewProofs

For any tests, orders, searches and page length, and any use of the three pages:

- `Selection`: highlighted tests have details, and the URL names no test that is
  closed or not highlighted;
- `Clicks`: a click leaves the details of other tests alone and closes only a
  highlighted test;
- `LinkedTest`: when the file arrives, the test that the URL names is open,
  highlighted and still named.

For any listing, menus, queries and bookmarks:

- `FiltersAgree`, `ColumnFilters`, `NothingHidden`: the three invariants of the start
  page;
- `Clearing`, `Reloading`: its two action properties;
- `PagesTyped`: `Spec => []TypeOK`, for all three pages and the browser's history.

*The argument.* Lemmas about `Selected` and `Toggled` hold for any row that
`deselectTest` may be called with: which row `selectTest` finds, in the document or
not, does not matter. `MarksInv` adds to `HashNamesSelected` that a page that loads
has no marks yet.

For the start page there are two assumptions, both of what the models take as given: a
row that has a text has every text it begins with (`ListingAssumption`, why DataTables
may search the rows it has already found), and a URL that the page is opened with lists
the filters it has a value for (`BookmarksAssumption`: a parameter is a place in the URL
and a value). The inductive invariant `IndexInv` says that `<select>`s, boxes and column
searches are what the URL says, that every row shown satisfies the column searches
(`Within`), and that every row that satisfies all filters is shown (`Covers`); the order
in the URL has exactly the filters with a value. Each handler is the composition of
one, two or four calls of `Apply`, so that the proofs are about `Apply` (`AppliedAgrees`):
on a set of filters whose column searches agree with the URL, it leaves one that does.
The sets made by clicks on boxes start from the table and the URL and forget the
`values`, which the argument never needs. Loading is a loop over the URL's order, and so a
fold (`ApplyAll`), of any length: `AppliedUpTo` is its loop invariant, in which the filters
not yet reached have a value in the URL and none in the table, so that `Agrees` does not
hold before the end. The folds (`Without` and `ApplyAll`, recursive functions) are
unfolded by induction over the natural numbers (`Induct`, derived from the
well-foundedness of `<`).

### TestLogProofs

For any outputs and any bytes after them in the file, any size of chunks but zero and any
limits of lines and bytes, the number of lines not zero (`InputsAssumption`):

- `HeadRight`, `TailRight`, `ReadersMeet`: the three invariants of the loader;
- `SplitRight`, `RangeRight`: what `splitHeadTail` and `byteRangeToLineNumbers` return.

*The argument.* Induction over data is derived, not assumed: `SeqInduct` (a set that has
the empty sequence and, with a sequence, its extensions, has all of them) from `NatInduct`,
and that from the well-foundedness of `<`. `FoldingUnfolds` shows that the recursive
function exists and what it does with one more element; decoding, splitting and joining
are instances. The facts everything rests on: decoding two parts and joining two lists of
lines go part by part (`DecodedConcat`, `JoinedConcat`), a text is its lines joined, and has
no other division into lines that end in their only newline (`SplitForm`, `TextForm`), and
the lines after complete lines are the lines of what follows (`LinesAfter`).

For the head, `HeadInv` says that the bytes in the buffer are the next bytes of the file
(`Buffered`), and that the lines so far and the unfinished text are what the bytes so far
decode to (`Sofar`): `HeadIsPrefix` alone does not say where the next chunk continues. One
step of `LineDecoder` keeps this wherever the chunk was cut (`Decoding1`, `NextLines`); the
byte of the next test at the end of the last chunk is not taken, because `remaining` bounds
what is. For the tail, `TailFound` says that what was read are the lines after the newline
before them, and that the position the code counts is the byte position and the number of
lines, since each line's newline was left out. `Meeting` is why that error does no harm: the
code takes the readers for met if the position is less than the end of the head, the
position is at least that of the bytes, so the line just read begins inside the head,
and, since both ends are ends of lines, it is in the head. An end of the load with nothing decoded from the back is an end with the
head only (`HeadEnded`, `Behind`: a line comes from the back only after a chunk was
fetched there), which is what `HeadIsPrefix` says of a load that is done.

`SplitRight` shows the closed form of the loop (`Shared`) and that its three parts, the lines
of the head, those of the tail and the hidden ones, are all lines of the text, one after
the other. `RangeRight` identifies the line of a byte by the number of newlines before it
(`LineHolds`); that there is only one such line is the growth of the lines' ends
(`EndsGrow`).

### Model-checked only

The liveness properties (fairness and `ENABLED` are beyond TLAPS as it is used here):
`TerminateReturns`, `RequestsAnswered`, `StartReturns`, `GoroutinesEnd` and `LoadEnds`. Of the
first two, `RequestsGoOn` and `OrderlyRunsGoOn` prove that no circle of waiting goroutines but
the inversion stands in the way. Every invariant and action property of the passing
runs is a theorem.

## 5. Where the code departs from what it says

The first three have a run that TLC finds violated (`findings` in `PROJECT.json`
quotes the line). The others are behaviours of the models, too, unless it is said
otherwise, and were seen as counterexamples while the properties were written; the
properties above are stated, and the constants of their runs chosen, so that they do
not depend on them.

1. `late_client`: a test ends while `startClient` is starting a container;
   `RegisterNode`'s error is dropped and the container belongs to nobody.
2. `lock_order`: `ContainerIP`, `ConnectContainer` and `DisconnectContainer` take
   `testSuiteMutex` under `networkMutex`, `EndTestSuite` and `Terminate` take them
   the other way round: hive hangs. A `startClient` with networks does it, too, against the
   end of any suite (`TestManager`, hence `Inverted` in its liveness properties).
   `DeadlocksAreInversions` and `RequestsGoOn` prove that nothing else makes requests wait
   for each other's locks for ever.
3. `filters`: the client filter of the start page (`app-index.js:1004`) is a custom
   search that is taken back after one draw. The next draw shows runs of all clients,
   while URL, `<select>` and notice still state the filter.
4. A network that docker failed to remove while its suite ends is forgotten and
   stays, though "all its networks have been torn down"; a network created after its
   suite, checked before, has ended is never removed. These are the reasons for
   `Faulty = FALSE` and `Overlap = FALSE` in `networks_orderly`.
5. `StartTest` checks under `testCaseMutex` that its suite is running, but suites end
   under `testSuiteMutex`. The suite may be written, and move to `results`, before the
   test is added, and `Terminate` may have passed it: the test is in no summary and runs
   on. `TestLedger` therefore lets a test start in a suite that has ended; requiring
   that the suite is still running is violated by the run `suites`.
6. A cancellation that overtakes its probe, or is not sent, leaves a
   goroutine in the proxy that dials a dead address for ever.
7. Closing the API server while a client starts makes the assertion in
   `StartContainer` fail, or ends hive with a nil dereference (`Panicked` and
   `crashed` in `ClientStart`).
8. The comment of `CheckLive` (`hiveproxy/proxy.go:75`) states the opposite of what
   it does.
9. hive may exit with 0 although a test failed; the suites in which this can happen are
   `spoiled` in `Simulation`. Results are counted before the suites of a crashed
   simulator are ended, so that a failure in the suite it was at counts nowhere. The
   deferred `EndTest` and `EndSuite` ignore errors (`testapi.go:360-381`). A test that
   ends by `FailNow`, as in `StartClient`, or by a panic, does not wait for subtests that
   other goroutines have started: the manager then refuses to end the suite, and none of
   its results are counted. `T.Fail` after the end of the test changes nothing. The
   simulation container's `DeleteContainer` error is ignored, too (`run.go:242`), and a
   broken attachment is taken for the simulator's exit.

On the start page:

10. The notice "Filters active" is computed from one filter set (`:818`), while boxes
    use sets of their own: it may be on without a filter, or off with one.
11. After the grouping was changed the boxes are sorted by name, whatever the
    control says; sorting by name does nothing in the grouping by client.
12. The date filter's regular expression is searched for in the whole text of the
    start time (`Matches` takes what it finds as given, in `days`).

On the suite page:

13. `scrollToTest` compares the number of the current page with itself
    (`app-suite.js:260`), so that a linked test on another page of the table is opened
    but not shown.
14. `selectTest` looks for the selected row among the rows in the document (`:299`).
    After paging or searching it does not find it: several tests stay highlighted,
    and `row(undefined)` is the first of the table, which is deselected instead.
15. A click on another highlighted test closes it and clears the URL hash, though the
    test that the hash named is still open (`:287` says it clears its own).

In the loader of output:

16. The position after a line read from the back leaves out the newlines
    (`ReverseBuffer.outputPosition`), that from the front counts characters: lines where
    the two meet may be shown twice, and with characters of several bytes a line in the
    middle may be lost without a mark. The reason for `SingleByte` in
    `CompleteIfNoTail`.
17. A head that was cut by the limit of bytes, with fewer lines than the limit of
    lines, is shown without a truncation mark, hence `headEnd <= limit.bytes`.
18. Reading backwards up to the first line requests the range `0--1`, which the
    server refuses: the page shows an error (`failed`).
19. The last line of an output without a final newline is decoded with a newline, and
    one that is blank is skipped: `TailIsSuffix` is about terminated outputs.
20. `splitHeadTail` counts a line after the final newline: it shows one line of the
    tail less than it is asked for, and hides one too many.

Seen while reading, and not in the models: maps that are read and written
without a common lock (`suite.TestCases` in `Terminate` and `doEndSuite` against
`StartTest`; `networks` in `PruneNetworks`), which Go may report as a fatal error;
containers that are not deleted when a step of `startClient` before `StartContainer`
fails; `cleanup.go` looking for the label `hive.instance` (`:24`), while the one that hive
writes is `xrplhive.instance` (`data.go:13`); `iterLines`, which
never returns that it reached the end (`testlog.js:108`); `text()` of an empty log, a
range the server refuses (`:75`); `fetchTestLog` showing an undefined text after an
error (`app-viewer.js:271`); an empty byte range, for which lines from 1 on are
highlighted; a name that is not defined in the ready handler (`app-index.js:269`) and
`failure:`, which is no option of jQuery's `ajax` (`:98`); an empty listing (`:461`) and a
suite without tests (`app-suite.js:226`), for which the pages throw.

## 6. Order of the work, and what could follow

The modules were written in this order, the most important behaviour first:
`TestManager`, `NetworkManager`, `ClientStart`, `Simulation`, each with its proofs;
`TestLedger` and its refinement; `IndexPage`, `SuitePage`, `Hiveview`; `TestLog`.

What could follow: a module that
replaces the ledger of `Simulation` by an instance of `TestLedger`; a model of the log
directory with hive writing and `hiveview` collecting (`gc.go`), once the collection
has a rule that could hold while hive runs: as it is, it deletes the logs of a suite
that has no summary yet whenever it meets one.

## 7. Not modelled, and why

- *Vendored libraries* (`cmd/hiveview/assets/extlib`: jQuery, Bootstrap, Popper,
  DataTables and its extension): about 34,700 of the 37,500 lines of JavaScript in the
  repository. They are not this system's code; only what `app-index.js` and
  `app-suite.js` depend on in DataTables' search and draw is modelled, from how it is
  used and from its source.
- *Rendering*: HTML, styles, formats of dates and durations, the progress bar, and the
  keyboard focus and highlighting of boxes on the start page. They keep no state that
  outlives a handler.
- *Pure functions on strings and JSON*: `testmatch.go`, `iotest` (comparison,
  redaction, parsing), `inventory.go`. They have no state, no concurrency and no
  failure but a wrong result, which depends on characters one by one.
- *Calls of docker, git and HTTP in a fixed order*: image building, the docker
  connection, `cleanup.go`, `setup.go`, `deploy.go`, `serve.go`; the HTTP relay of the
  proxy (library code), read-only API handlers, `RunDevMode` (the same server without
  a simulator).
- *The listing and garbage collection of `hiveview`*: one loop over a directory each;
  section 6.
- *XRPL servers and what simulators ask of them*: `oracle.go`, `topology.go`,
  `rpcclient.go`, `wsclient.go`, the simulators, client images and their scripts. What
  they check is the behaviour of servers that are not in this repository.

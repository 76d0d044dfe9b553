# Verification of duckflight-extension

TLA+ models of the parts of this repository where several things happen at
once, the TLC runs that check them on small instances, and proofs that TLAPS
checks for every instance. Paths are relative to the repository; `main.rs`
without a directory is `crates/duckflight-idle-proxy/src/main.rs`.

## 1. The system

| Component | State | Operations | Talks to |
| --- | --- | --- | --- |
| Wake proxy, `Controller` (`main.rs` 248-439) | owner and Deployment UID, `needs_fence`, `connections`, `idle_since`, one tokio mutex around all of it | `new`, `fence`, `scale`, `wake`, `idle_tick` | API server (GET, PATCH with resourceVersion and UID), idle-control endpoint of the core |
| Wake proxy, connections (`main.rs` 441-476) | one task per client socket | first byte, wake, connect, copy, close | `Controller`, worker listeners |
| Wake proxy, process (`main.rs` 478-600) | acceptors, idle task, health task | start, SIGTERM, drain; `worker-ready` probe | Kubernetes |
| Worker cluster (chart templates, core) | Deployment, pods, admission gate, sessions | rollout, eviction, restart, Helm upgrade; `/status`, `/suspend`, `/resume` | - |
| Container launcher (`docker/server.c`) | `stopping`, signal mask, the CLI's input pipe | write the startup script, wait, shut down | DuckDB CLI, signals |
| Extension table functions (`src/lib.rs`) | `EmitOnce`, `ServerListInit`, shared `ExtensionState` | serve x4, stop, servers, core_status | `CoreRuntime` |
| Dynamic core and C ABI (`src/dynamic_core.rs`, `crates/duckflight-extension-abi`) | library, API table, handle, bundle file | load, create, start/stop/list with callbacks, destroy | provider library |
| Mock core (`test/mock_core`) | server table under a mutex | the five ABI functions | receiver and visitor callbacks |
| Authentication CLI (`scripts/duckflight_auth.py`) | a TOML file | add/remove users and tokens, check | file system, other invocations |
| ClickBench harness (`benchmarks/clickbench/harness.py`) | pid file with nonce | install, start, stop, load | a server process (not modelled) |
| Release scripts (`scripts/*.sh`, `build.rs`) | files | download, verify, move; bundle | - (not modelled) |

### Behaviours that are hard

* **Proxy and cluster.** Every decision of the proxy rests on a chain of
  requests (Deployment, pods, status, suspend, scale), each evaluated at a
  different time, while Kubernetes, Helm, clients, the core and a second proxy
  act in between. A request that timed out may be applied later. A process
  may die, or its idle task be aborted, at any await.
* **Launcher.** Signals arrive between a test and the write it guards, while a
  write blocks, or just before `sigwait`; the CLI may end at any time.
* **Extension.** A listener is started by a query that may still fail; queries
  of several threads call the provider, which calls back under its own lock;
  library, handle and callbacks have lifetimes across an FFI; sizes and
  statuses come from code that is not this extension's.
* **A file on disk.** `duckflight_auth.py` reads, asks for a password and
  replaces, while other commands, hand edits and power losses come in between.

### What makes each part correct

* Proxy: an automatic sleep ends no session or detached work; a sleep that was
  given up can never hurt a worker that is reused; a worker is woken only from
  nothing; connections are counted exactly; everybody who waits is answered; a
  worker nobody uses goes to sleep, and none stays suspended.
* Launcher: no listener before the SQL boundary, none after a failed startup, a
  failure is reported, and every signal and every end of the CLI ends it.
* Extension: each query starts, stops or lists listeners once, between its call
  and its answer, and reports what was true then; a start that fails has left
  no listener of the mock core; rows are paged without loss; no table is read beyond its
  size; nothing of the core is called after `destroy` or after unload.
* Auth CLI: the file is always a complete valid configuration, and no
  reported change is taken back by a command on another name.

`PROJECT.json` lists every hazard at its line under `hazards`, with the
properties that cover it or the reason why none does.

## 2. Modules

| Module | What it models | Kind |
| --- | --- | --- |
| `SleepWake` | the promise of idle scaling: awake or asleep, sessions only while awake, sleep only without sessions | abstract specification |
| `WorkerCluster` | Deployment, pods, core, Helm: the environment of the proxy | actions used by `IdleProxy` |
| `IdleProxy` | `Controller`, `proxy_connection` and `main` composed with `WorkerCluster`; refines `SleepWake` | system |
| `MCIdleProxy` | symmetry for TLC | model-checking |
| `Launcher` | `docker/server.c` with the CLI it drives | system |
| `CoreLifetime` | loading, using and dropping the core in several databases of one process | system |
| `AuthConfig` | the commands of `duckflight_auth.py` that change the file, several processes on one file system | system |
| `ListenerRegistry` | the promise of the SQL functions: one set of listeners, queries that take effect at one moment | abstract specification |
| `CoreAbi` | what crosses the C ABI: API table, statuses, protocols, strings, diagnostics, pages of rows | operators, no state |
| `ServerFunctions` | the table functions, the calls of `DynamicCore` and the provider's table; refines `ListenerRegistry` | system |
| `MCServerFunctions` | the API tables and listeners a provider may come with | model-checking |
| `IdleProxyProofs`, `ConnectionProofs`, `SleepProofs` | theorems about `IdleProxy`, each building on the one before | proofs |
| `LauncherProofs`, `AuthConfigProofs`, `CoreLifetimeProofs` | theorems about these modules | proofs |
| `ServerFunctionsProofs`, `RegistryProofs` | theorems about `ServerFunctions` and `CoreAbi`, the second on the refinement | proofs |

### IdleProxy and the code

Everything a proxy does to the cluster happens while it holds the tokio mutex
of its `Controller`, so one proxy is a record of which operation holds the lock
(`op`: `new`, `idle`, `recover` for the error branch of `idle_tick`, `wake`),
the await it is suspended at (`pc`) and its locals (`loc`). One action is the
completion of one await: the server evaluates the request, and the code runs up
to the next await.

| `pc` | await | actions |
| --- | --- | --- |
| `fence` | `current()` in `fence()` (292-293) | `Fence`, `ReadFails` |
| `fencing` | PATCH of `fence()` (295-302) | `PatchOk`, `PatchRefused`, `PatchTimesOut` |
| `current` | `current()` of `wake` 348, `idle_tick` 380, 431 | `Current`, `ReadFails` |
| `pods0` | `pods()` when asleep (354) | `ListSleeping`, `ReadFails` |
| `pods1` | `ready_backend()` (359, 388) | `ListAwake`, `ReadFails` |
| `status` | GET `/status` (360, 392) | `Status`, `ReadFails` |
| `suspending` | POST `/suspend` (415) | `Suspend`, `ControlRefused`, `ControlTimesOut` |
| `scaling` | PATCH of `scale()` (307-319) | `PatchOk`, `PatchRefused`, `PatchTimesOut` |
| `resuming` | POST `/resume` (362, 396, 433) | `Resume`, `ControlRefused`, `ControlTimesOut` |
| `retry` | `sleep(500 ms)` (368) | `Retry`, `ColdStartTimeout` |

A connection is a task with a state: `first` (waiting for its first byte),
`lock`, `wake`, `connect` (it has a backend, the lock is free again), `copy`,
`closing` (waiting for the lock to be uncounted). `net` holds the writes nobody
waits for any more: a PATCH or POST whose client timed out, was aborted or
died. `Straggler` processes such a write at any later time, or never.

Abstractions, each of which allows at least what the code allows:

* A GET is evaluated when it is answered.
* Clocks are two events: "the idle interval has elapsed" (`IdleElapses`) and
  "the deadline of the wake loop has passed" (`ColdStartTimeout`).
* resourceVersions, UIDs and permits are opaque; a new one is the least token
  nothing refers to any more, so that finitely many are enough and no stale
  token is ever reused while somebody remembers it. `rv` is cleared in the
  locals where the code no longer uses it.
* A pod slot is reused for a new pod only when nothing refers to it, so a slot
  stands for a pod UID.
* `detached` stands for all protected activity without a socket.
* The Deployment controller acts on the current spec without the lag of its
  ReplicaSet; a pod that is deleted may serve for as long as it likes.
* Replica counts other than 0 and 1 and unparsable answers are not modelled:
  the chart rules the first out, and the second is `ReadFails`.

Two constants name assumptions about the environment. `Overlap`: a replacement
may start while a terminating proxy still drains (the chart's `Recreate`
strategy rules this out for its own updates, not for evictions). With
`Overlap`, `SlowRequests = FALSE` says that a request of the drained proxy is
shorter (10 s and 15 s client timeouts) than the idle interval of the new one;
the chart's default is 50 minutes, but its schema allows one second. With
`SlowRequests = TRUE` TLC finds a sleep that ends a session: the draining proxy
reads the Deployment, its replacement fences, and the pod list of the old one is
answered only after the idle interval of the new one; the new one suspends the
worker, the old one sees the permit, resumes the worker and forwards its
connection, and then the scale to zero takes effect.

### Launcher and the code

`Script` is the sequence of what `main` writes. The launcher tests `stopping`
(`Check`) and writes (`Write`) in separate steps, so a signal may come between
them. A write blocks on a full pipe, and then the handler (`Handle`) makes it
fail with EINTR; a command of several writes may lose only a part (`torn`).
`Block`, `Look`, `Sigwait`, `Quit` and `Reap` are lines 171-210. The CLI is
external: it ends at the first command that fails (`-bail`), and since DuckDB
uses SIGINT to cancel SQL, one that finds no SQL running may end it or be lost.
`Refuse`, `InputFails`, `InitReadFails` and `WaitFails` are the ways to
`return 1`: before a child exists, when `fdopen` fails, when the startup file
cannot be read, and when `waitpid` or `sigwait` fail.

### AuthConfig and the code

A process is one invocation of the script. `Read` is the handler up to its
change (`_add_user` 631-659 and the three others), `Reread` is `write_users`,
and `Create`, `Name`, `Write`, `Sync`, `Replace`, `SyncDirectory` are the steps of
`write_config`; `Fail` is an `OSError`, a refused password or an interrupt at
any of them. Before `Name`, the assignment of `temporary_path`, an interrupt
leaves the empty temporary file, because the clean-up does not know it yet; from
then on the file is removed, and the `unlink` itself is taken to succeed. A document is the users with their iteration counts, the tokens,
and one opaque value for the sections only the operator edits; a verifier or a
digest is the process that made it. `disk` and `behind` are what a power loss
may leave: the file as of the last directory sync, or any later replacement,
torn if its contents were not synced. Hand edits are atomic and durable. A
process that has ended forgets what it had read. Rendering a document and
parsing it again is the identity in the model. It is not in the code for a text
with U+007F: `_toml_string` leaves it raw and `tomllib` refuses it, so that a
`token add` with such a name reports success and writes a file that no later
command reads. The names of the model stand for all others.

`overlap`, chosen once in a behaviour, says which parts of two commands may be
in progress at once: all of them; only password prompts, the one wait of human
length; or none. The script takes no lock, so what holds under `"none"` only is
a rule for its users.

### CoreLifetime and the code

A load is one database of the process that loads the extension. `Prepare`,
`Open`, `Resolve`, `Validate`, `Create` are the steps of `DynamicCore::load` or
`load_bundled`, `Register`, `RegisterFails`, `Loaded` those of
`register_extension`, and `arcs` is the strong count of the
`Arc<ExtensionState>`: one of `register_extension` and one of each registered
function. `todo` holds the values that Rust still has to drop, in its order
(`LocalOrder`, `FieldOrder`); each drop is a step, because other threads of the
process run in between. The dynamic loader is external: it recognises a library
by the path it was opened under. So is DuckDB, which drops the functions of a
database when no query of it runs. By contract a `create` that fails leaves no
handle.

### ServerFunctions and the code

A query is one use of a table function. `Begin` is bind and init; then DuckDB
calls func (`PullOnce`, `PullDone`, `PullPage`) until a call emits no row, or
loses interest (`Abandon`). The calls of the core go through these states:

| `pc` | the query is | actions |
| --- | --- | --- |
| `pull` | between two calls of func | `PullOnce`, `PullDone`, `PullPage`, `Abandon` |
| `serve`, `stop`, `list` | about to enter the provider, which may still wait for its Mutex | `Start`, `Stop`, `List`, `ListUnavailable`, `CallRefused` |
| `receive` | in the receiver of a start, the listener is up, the Mutex held | `Receive`, `ReceiveAny` |
| `visit` | between two items of a list, the Mutex held | `Visit`, `Listed` |
| `end`, `failed`, `abandoned` | answered | - |

`provider` says what is behind the ABI. `"mock"` is `test/mock_core`,
statement by statement. `"other"` is any provider that synchronises its table
too: it may refuse a call, know protocols this extension does not, report
nothing, bytes that are no text, or an address with a NUL, ignore what a
callback answers, and fail after it has started. `core` is the `CoreRuntime`
after `Load`: the dynamic core if `Examine` accepts the provider's API table,
otherwise the unavailable core.

`servers` is a set where the mock core keeps a vector: its `start` removes an
equal entry before it pushes one, so none is in it twice, and the order, which
nobody promises, is left open. A byte string is its data and whether its length
is zero; a table is its declared size, its version and the entries that are not
null; `Examine` also says how many bytes of it were read. Addresses are model
values: `bound_address` maps those that end in `:0` to one known address.

The refinement maps a query that has called its function to `called`, one whose
provider has done its work to `effective`, and one that has ended to
`answered`. What it saw is the listener of its row, whether there was one to
stop, or the set of listeners its snapshots name.

## 3. Runs

`tlc -config <run>.cfg <module>`; sizes are distinct states.

| Run | Shows | States |
| --- | --- | --- |
| `IdleProxySessions` | `TypeOK`, `ConnectionsCounted`, `ClockStartsAfterConnections`, `IntervalIsOfThisWorker`, `ForwardedFindsOpenGate` with two connections and failing reads, restarts, evictions, rollouts, foreign status writes | 185,315 |
| `IdleProxyFaults` | `FencedBeforeReuse`, `SleepKillsNoSession` and the refinement `KeepsPromise` with two connections, failing reads, timed-out, lost and late writes, crashes and SIGTERM | 999,949 |
| `IdleProxyOverlap` | `FencedBeforeContact`, `SleepKillsNoSession`, `WakeOnlyFromNothing` with two proxies alive, and under Helm upgrades, reinstalls, rollouts, evictions | 4,311,354 |
| `IdleProxyLiveness` | `WaitingIsAnswered`, `SuspensionEnds`, `QuietWorkerSleeps` | 28,275 |
| `IdleProxyTakeover` | violation of `TakeoverIsFinal` | - |
| `IdleProxyLateSuspend` | violation of `ForwardedFindsOpenGate` | - |
| `IdleProxyHelm` | violation of `HelmPreservesCount` | - |
| `LauncherServing` | `TypeOK`, `SealedBeforeServing`, `FailureIsReported`, `StopEnds`, `CliEndEnds` | 20,737 |
| `AuthConfigSafety` | `TypeOK`, `WholeDocument`, `NoLitter` however commands overlap; `SectionsKept` when only passwords do; `AcknowledgedStands` when none do | 3,037,552 |
| `CoreLifetimeSafety` | `TypeOK`, `CallsAreBacked`, `LibraryIsOwn`, `NothingLeft` | 517,946 |
| `CoreLifetimeDiscard` | violation of `BundleOutlivesLibrary` | - |
| `ServerFunctionsSafety` | `TypeOK`, `CallsAreSound`, `PagesInOrder`, `DiagnosticIsWhole`, `FailedServeStartsNothing`, the refinement `KeepsRegistry` and `QueriesAreAnswered` | 179,666 |

**Bounds.** Two proxies: the one that acts and the one it replaces or is
replaced by; a process that is off can start again as a new incarnation, so
runs have any number of incarnations one after the other. Two pods: the old
worker and its replacement, which is what `maxSurge: 1` allows. One or two
connections: two are needed for one to be served while another waits for the
lock. `MaxFaults` bounds faults and administrative events (two: a fault, and
another one during the recovery from it); clients, sleeps and wakes are not
bounded. `Versions` and `Permits` are as many as can be remembered at once;
were they too few, `PatchOk` or `Suspend` would be disabled and the liveness
run or the deadlock check would show it. The launcher's script has two buffers
of startup SQL, a pipe of two commands (so that it is full at every command
after the second) and two signals. For the configuration: two commands are
enough to overwrite each other, or to fail after another one has succeeded; one
edit and one power loss, each at any step; iteration counts below and at the
minimum, and the default. For the core: three loads, one to fail, one to reuse
its descriptor and one more; two functions instead of seven, so that a
registration can fail before, between and after others. For the table
functions: two queries, because a call holds the Mutex and one other query is
all that can meet it; vectors of two rows and lists of up to three, so that a list ends
within a page; `MaxUsize` = 5, with room for a vector behind every list: a query
ends at its first empty page, so that the saturation and the wrap of the offset
never affect a row there; diagnostics of no bytes, of exactly the capacity and of
one more; tables that end within the header, after it, before the last entry,
after it, and later (`MaxU32` = 56, where version 1 has 48 bytes: a larger size
covers as much as 48 does, and the theorem covers every u32).

**Symmetry** is used for connections and pods in the safety runs only: no
definition tells two of them apart. Proxies are not declared symmetric.

**Fairness** (`Fairness` in `IdleProxy`). Every await ends, because every
client has a timeout: weak fairness of a proxy's steps. The deadline of the
wake loop is checked at every round: strong fairness of `ColdStartTimeout`.
tokio's mutex is fair: strong fairness for the operations that need the lock to
be free (`Wake`, `Close`, `IdleTick`). Time passes: `IdleElapses`. The first
byte has a 10 s timeout. Kubernetes restarts the proxy, creates and deletes
pods; the worker admits or refuses a queued socket. Nothing is assumed of
clients with an open connection, of detached work, or of a pod that starts: it
may never be ready. For the launcher: it is scheduled, and every SQL statement
ends by itself or when it is cancelled. For the table functions (`FairSpec`):
DuckDB goes on pulling a query or abandons it, the calls of a provider return,
and finitely many queries compete for the Mutex; weak fairness per query is
enough, because each holds it once.

`CHECK_DEADLOCK FALSE` stands in the runs of `Launcher`, `AuthConfig`,
`CoreLifetime` and `ServerFunctions`, because their processes, databases and
queries really end. The proxy's runs check for deadlock.

### What the violations say

* `IdleProxyTakeover`. The old proxy drains with a waiting connection; its
  scale PATCH gets a conflict because the new proxy has fenced. `needs_fence`
  therefore stays TRUE, so the next waiting connection skips the owner check
  (`main.rs` 286) and fences the ownership back. The new proxy then refuses
  everything. `SleepKillsNoSession` still holds in `IdleProxyOverlap`.
* `IdleProxyLateSuspend`. Only Kubernetes writes are fenced. A suspend whose
  answer timed out may be processed after the next `wake()` saw no permit, and
  the forwarded connection meets a closed gate. No session is lost, and the
  next idle tick resumes the worker.
* `IdleProxyHelm`. The count the chart preserves is the one `lookup` saw.
* `CoreLifetimeDiscard`. Rust drops fields in the order of their declaration,
  but locals and parameters in the reverse order. The fields of `DynamicCore`
  are arranged so that the library is unloaded before its memory file is
  closed; when `initialize` or `load_bundled` fails, the same two values are
  locals, and the memory file goes first. A concurrent load may then get the
  descriptor's number and open the old library under its path (`LibraryIsOwn`
  therefore excepts libraries of loads that have failed).

`AcknowledgedStands` is checked for commands that run one after the other. It
does not hold when password prompts overlap: `user add` reads the users, waits
for a password, and writes them back, so a `user remove` that reported success
in the meantime is undone. No document promises otherwise, so it is a hazard of
the list and no finding.

## 4. Proofs

Every safety property, action property and refinement that a passing run checks
is also a theorem; liveness is not (see the end of this section). `tlapm <module>.tla`
checks a proof module. The theorems hold for any finite or infinite sets of
processes, connections, pods, names or descriptors, from the named assumptions
of the modules: `None` and its like are none of the other values, sizes are
numbers, and the few that a section below names.

A proof has the same shape everywhere: an inductive invariant that holds
initially and in every step, one lemma per block of actions, and theorems that
follow from it.

**The proxy's types and wakes** (`IdleProxyProofs`).

* `TypeCorrect`: `Spec => []TypeOK`. `TypeOK` is not inductive: a step that
  talks to a worker takes the pod from the locals, and a late suspend or resume
  takes it from the request. `TypeInv` adds that whoever is at such an await
  holds a pod (`NeedsPod`), and that every late control request names one
  (`PodKnown`).
* `WakesFromNothing`: `Spec => WakeOnlyFromNothing`. `wake()` reads the
  Deployment, lists the pods in a later step, and sends the PATCH in a third.
  `WakeInv` says: while the version it read is current, the Deployment is
  asleep, and once it has listed no pod there is none (pods are created only
  for a Deployment that is awake, and waking it needs a new version); and so
  does every late PATCH to one. A step that gives the Deployment a new version
  makes all of them outdated, because a new version is one that nobody
  remembers.

**Counting connections** (`ConnectionProofs`). `CountsConnections` and
`ClockAfterConnections` follow from `ConnInv`: every lock holder is at an await
of its operation and works for one of its own connections in state `wake`
(`HolderInv`), the counter is the cardinality of the counted tasks (`CountInv`),
every task belongs to a process that is up or drains (`TaskHome`), and an idle
tick past its fence, or with its clock set, has no connection (`ClockInv`).
This holds with overlapping proxies as well. `IntervalOfWorker` adds that the
interval which authorises a sleep has run out for the very pod and boot that is
suspended: `IntervalFits` keeps the clock at what `status` reported from there
to the suspend, and a permit of any other boot is not followed by a scale.

**The fence** (`ConnectionProofs`). `ActsBehindFence`: while an operation is
under way, `needs_fence` is set exactly at the awaits of its fence and of a
scale (`FenceFlag`). A scale sets it before it is sent, success clears it, and
every other way out of a scale leaves it set for the next operation.

**Sleeping** (`SleepProofs`). The theorems assume `InTime`: proxies do not
overlap, or no request outlasts the idle interval. Without it
`SleepKillsNoSession` is false (see `SlowRequests` in section 2). With an
overlap it is no longer true that only one process acts (`OneAlive`), and two
things replace it: a fence protects a proxy against the late *writes* of the
other one, the idle interval against its late *reads*. The invariant has three
parts.

* `FenceInv`: whose fence is still to come. `LateFence`: a late PATCH that
  could still be applied has an owner that is off or has its own fence before
  it; for if another proxy had fenced, the PATCH would name an old version.
  `ClockFence`: a proxy whose idle clock runs needs no fence until it asks for
  the sleep itself, because whatever sets the flag also stops the clock or is
  the tick's own scale. `IdleServes`: the idle task is aborted when a proxy
  begins to drain.
* `OwnerInv`: who still talks to a worker. `ClockSettled`: when the interval
  of the Deployment's owner has elapsed, no other proxy waits for an answer
  about a worker or for a connect (`Settled`); it stays so, because those who
  come later meet the owner check of `current()` (286) or have a fence to
  make, which takes the ownership away. `Owns`: an idle tick that holds the
  current version is the owner's.
* `WorkerInv`: what that proxy has learnt of the workers. `SleepsQuietly`: at
  the status request every *other* worker is untouched (`Apart`: nobody has
  ever had it for a backend, since `ready_backend()` gives one only when it is
  the only pod); before the suspend the gate is open or nothing late opens it;
  and when it scales all workers are quiet. `Quiet` is: no session, no
  detached work, and none can begin, because nobody queues or the gate is
  closed and no late resume has its permit. `LateSleepInv`: as long as a late
  scale to zero could still be applied, its sender owns the Deployment, nobody
  resumes a worker or connects to one, and all workers are quiet.

From these follow `FencesBeforeContact`, `SleepsSafely` and
`ImplementsSleepWake`. `FencesBeforeReuse` adds the connections that are
already copied, and needs `~Overlap`: a draining proxy may hold one in the
queue of a worker that its replacement has suspended. It is refused or cut off
before it is a session.

`ImplementsSleepWake` shows that every step maps to a step of `SleepWake` or a
stutter, also under `NobodyElseScales` (no Helm upgrade, no reinstall: those
set the replica count themselves). `AsleepInv` says what is needed for it:
while the Deployment is asleep, all workers are quiet and no proxy is at an
await that talks to one.

`FindsOpenGate` says what `ForwardedFindsOpenGate` depends on, and so what
`IdleProxyLateSuspend` comes down to. Unless a core closes its gate for a
suspend request nobody waits for any more (`LateSuspend`), every forwarded
connection finds its gate open, through crashes, SIGTERM, timeouts and late
scales. `ForwardInv`: whoever was given a backend has an open one, because the
only one who closes a gate is an idle tick beyond its fence, which is alone and
serves no connection. It needs that no proxy drains beside its successor
(`OneAtATime`), whose idle tick knows nothing of the old one's connections.
`FindsOpenGateWhenAnswered` draws the conclusion for the faults of
`IdleProxySessions`, which leave no request behind.

**The launcher** (`LauncherProofs`). `Sealed` and `FailureReported`, for startup files
and pipes of any length. `WriterInv` says what the launcher has written at its
position of the script, `QueueInv` that wherever a listener command is, in the
pipe, running or done, the load and the boundary are ahead of it; `PlaceInv` and
`FailureInv` tie the two processes together. `QueueInv` alone would not be
inductive: a signal may make the launcher skip the boundary, or its one write
may fail, and then `WriterInv` keeps the launcher from writing a listener
command.

**The core** (`CoreLifetimeProofs`). `LoadInv` says what a load owns in each of
its states, `ThreadInv` that a query is in a registered function, hence the
count is positive, `SharingInv` which libraries are open under which
descriptor. From these `CallsBacked`, `LibraryOwn`, `NothingIsLeft`.

**The configuration file** (`AuthConfigProofs`). What is renamed into place is
synced and uniform (`FileInv`, `TempInv`), which gives `WholeFile` and
`NoLitterLeft` however commands overlap. `ExclusionInv` and `HeldInv` compare
what a process is going to write with the file it will replace
(`KeepsSections`); `StaleInv` says that what a power loss would bring back
differs from the file only in entries of commands that have not reported
success (`AcknowledgedStays`).

**The table functions** (`ServerFunctionsProofs`, `RegistryProofs`).
`TablesAreReadWithinTheirSize`, `PagesDoNotOverflow` and the lemma
`ProtocolsRoundTrip` are about `CoreAbi` alone. `TypeInv` adds to `TypeOK` that a query in a call
has the command of that call; `TableInv` that a core in use was examined;
`DiagnosticInv` that every error is whole. `PagesInv` says that the rows of a
list are its first `offset` snapshots; its premise is that a vector fits behind
the list in a usize (`Len + VectorSize <= MaxUsize`), else `fetch_add` could
wrap before the list ends. For `ImplementsRegistry` that
exception is not available: `RegistryInv` says that the rows are either those,
or already name every listener, or the list never ends; and that what a visitor
has seen and has yet to see is the table, which the Mutex keeps still.

Only model-checked: the liveness properties (`WaitingIsAnswered`,
`SuspensionEnds`, `QuietWorkerSleeps`, `StopEnds`, `CliEndEnds`,
`QueriesAreAnswered`), because fairness and ENABLED are out of the prover's
reach; and the violations.

## 5. Plan

No safety property of a passing run is left without a theorem. What could be
added is `ImplementsSleepWake` against an abstract specification with an
administrator, so that Helm upgrades and reinstalls need not be excluded.

## 6. Not modelled

* TLS and authentication of the control endpoint, configuration parsing, the
  health endpoint (it answers always and keeps no state), `worker_ready` (a
  probe without state; its effect is `PodReady`), the head of line of the
  acceptor channel, the content of sessions.
* The core itself, whose source is not in this repository. The models of it
  (admission gate and permits, a provider's table) take what the proxy, the
  ABI, the tests and the mock core rely on.
* ClickBench harness: a tool a developer runs by hand to measure the product.
  It starts, stops and loads one server process one step after the other.
* Release, bundle and test-host scripts, `build.rs`: sequential build steps
  that end before the product exists.
* The other chart templates, CI, tests and fixtures keep no state that runs
  concurrently; they were read as evidence of what the code is meant to do.

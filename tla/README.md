# Supernova: specifications, model checks and proofs

Supernova generates OPC UA servers. This directory holds TLA+ specifications of
the framework such a server runs on: the OPC UA FX connection engine, the
Pub/Sub engine under it, the worker pool that runs device logic, calculated
variables, the life of `main()`, and everything the server reads: datagrams,
JSON arguments, `ServerConfig.xml`, its own configuration sections and formulas.
`PROJECT.json` maps every definition to the source lines it models.

## The system

| Component | State | Operations | Talks to |
|---|---|---|---|
| Fx engine (`Fx/src/FxEngine.cpp`) | `m_endpoints`, `m_poisonedNames`, endpoint nodes, `m_started` | establish, close, start, shutdown, first-data callback | Pub/Sub engine (posts and waits), address space |
| Pub/Sub engine (`PubSub/src/PubSubEngine.cpp`) | writer groups with timers, readers, shared receivers, `m_running` | stage, start, add/remove by owner tag, query, shutdown, timer and datagram handlers | sockets, address space, Fx callback |
| UDP sockets (`PubSub/src/PubSubUdp.cpp`) | socket, outstanding receive | open, arm, stop | Pub/Sub engine |
| Thread pool (`Common/src/QuasarThreadPool.cpp`) | queue, counters, workers, `m_quit` | addJob, work, destroy | source variables, asynchronous methods |
| Source variables (`AddressSpace/.../ASSourceVariable.h`) | none of its own | dispatch inline or to the pool, under a configured mutex | thread pool, device logic |
| Server (`Server/src/BaseQuasarServer.cpp`, `main.cpp`, `shutdown.cpp`, `opcserver*.cpp`) | start-up progress, `g_RunningFlag`, `m_configurationHandlerFailed` | start everything in order, stop it in order, on every failure path | all engines, the SDK |
| Calculated variables (`CalculatedVariables/`) | formula graph, synchronizers, values | instantiate, optimize, recalculate | address space, muParser |
| muParser (vendored under `CalculatedVariables/ext_components`) | token stack, byte code | compile, evaluate | calculated variables |
| Wire codec (`PubSub/src/PubSubWire.cpp`), value conversion | none | encode, decode | Pub/Sub engine |
| FX arguments (`Fx/src/FxJson.cpp`) | none | parse, serialize | Fx engine |
| Server configuration (`Server/src/serverconfigxml.cpp`) | the files of the certificate stores | load, create certificates | the SDK |
| `<Fx>` and `<PubSub>` sections (`FxConfiguration.cpp`, `*XsdBinding.cpp`, `PubSubConfiguration.cpp`) | none | bind, default, validate | the engines |
| Generators (`FrameworkInternals/`) | none at run time | generate C++ from a Design | - |

What is hard here:

- **Two threads that need each other.** An FX call holds `m_mutex` and waits for
  the io thread; the io thread calls back into the Fx engine. Only a `try_lock`
  keeps them apart, so a callback can be missed and has to be made up.
- **Effects in a fixed order with failures between them.** Establish wires the
  data plane, then makes permanent nodes, then stores the endpoint, then
  reports. Each step can fail.
- **Completions that are already queued.** A cancelled timer or a closed socket
  may still deliver a success.
- **Shared resources by count and by tag.** Receivers are shared through a use
  count, dynamic entities are removed by owner tag.
- **Setters that run other setters.** A calculated variable is recalculated
  inside the setter of an operand, by whatever thread that is, under a lock that
  depends on the shape of the formula graph.
- **A queue with per-job mutexes** that other threads lock as well, and a
  destructor that runs while jobs come in.
- **A start that may fail anywhere,** half of it inside a callback of the SDK
  whose status one of the two backends ignores, and a teardown that runs while
  clients still read and write.
- **Two sides of one format.** An encoder and a decoder, a parser and a
  serializer, a validation and the assumptions of the engine behind it, an
  optimizer and the formula it rewrites: each is tested with examples, and wrong
  only for combinations.

## Modules

`FxEngine` - the control plane. One variable per member of `Fx::Engine` (plus
`view`, the number of an endpoint's nodes that exist) and `pc`, `target`,
`draft`, `found` for the call that holds `m_mutex`: since every call holds it
from its first to its last line, one call record serves any number of callers.
Each step of a call that waits for the io thread is an action guarded by
`io = Idle`. The Pub/Sub engine appears as two maps, writer groups by coordinate
and readers by peer key, that only change as `PubSubEngine` allows.

`FxConnections` - what a client may rely on, per connection name: the order of
statuses, a data plane behind a status, no cut of one connection by another.
`FxEngine` refines it (`ConnectionsRefined`).

`DataPlane` - the contract between the two engines: a set of entities with
owner tags, added on free coordinates and removed by tag. `PubSubEngine`
implements it (`DataPlaneRefined`) and `FxEngine` uses it within its terms
(`DataPlaneContract`), which is what composes the two.

`PubSubEngine` - the io thread: tasks posted by the holder of
`m_lifecycleMutex`, timer and receive completions, runtime objects that live
until their last completion. A task that adds an entity goes through the steps
of the code, each an action and each able to fail where the code can: the
coordinates or the key are checked, the socket is made (the transmitter's, or
the receiver's unless it is shared), and then the entity is stored. No handler
runs in between (`IoIdle`), while timers expire and datagrams come in. `before`
in the call's record is history: what the containers held when the task began.

`QuasarThreadPool` - the workers' loop, `addJob`, the destructor, and other
threads that lock the jobs' mutexes. A `std::mutex` is a Boolean, as in the
code: `unlock` does not ask who locked it.

`CalculatedVariables` - start-up (registration, `optimize`,
`setupSynchronization`) by one thread, one step for each element of the loops
(`it` is their iterator), then setters by any number of threads. A thread's nested `ParserVariable::setValue` calls are a stack; a recursive mutex
is owned by the thread that has a call under it on its stack. A calculation
reads the states, evaluates and publishes in three steps. Formulas are
parameters; configurations (order, operands, initial values) are records in the
constant `Configurations`.

`ServerLifecycle` - `main()` on both backends. `pc` is the point `main()` has
reached between two steps that another thread can see; every step of the start
can fail, the developer's `mainLoop()` may throw, a signal may come at any time,
and requests for source variables are served from the moment the SDK serves until its threads end. The engines and the
pool are represented by whether they run; what their start, shutdown and
destructor do is `FxEngine`'s, `PubSubEngine`'s and `QuasarThreadPool`'s part.

`Documents` - what the server reads, one document per behaviour: an action takes
an input, applies the operators of the module that translates the code, and
keeps input and outcome. Next to each stands a definition of its own of what the
input means (the layout of OPC 10000-14 for foreign headers, a grammar for JSON,
the tree of a formula), and the property compares the two. The operators are in

- `PubSubWire`: the UADP encoder and decoder, byte by byte; 64-bit integers as
  tuples of bytes, so that casts and sign extension are visible. `PubSubValues`:
  from the address space to the wire and back, with what a reader does with a
  datagram.
- `FxJson`: parser and serializer over tokens, with strings as pieces (raw byte,
  escape, code point) and numbers as characters.
- `ServerConfigXml`: `loadConfiguration` and `setXmlConfig` as functions of the
  document and of the files on the disk, which may be sound, broken, or neither
  readable nor writable.
- `Configurations`: binding, defaults and validation of the `<Fx>` and
  `<PubSub>` sections. Intervals are the classes of doubles the code's
  comparisons and casts tell apart, NaN, infinity and what a `long long` cannot
  hold among them; network addresses are sequences of character codes.
- `FormulaElaboration`: the meta functions, generic formulas and escaping, over
  addresses as characters. `MuParser`: syntax flags, the shunting of operators,
  the optimizer, the jumps, and the evaluation of the byte code.

`FxEngineProofs`, `FxPlaneProofs`, `FxRefinementProofs`, `PubSubEngineProofs`,
`QuasarThreadPoolProofs`, `CalculatedVariablesProofs`, `ServerLifecycleProofs`,
`ConfigurationsProofs` - theorems, each about the module it is named after.
`FxPlaneProofs` is about the Fx engine's data plane, `FxRefinementProofs` about
its two contracts.

`MC...` - instances for TLC. Definitions marked "Faulty variant of" are the
bugs each property is known to catch; `PROJECT.json` lists them as mutants.

## Runs

| Run | Shows |
|---|---|
| `fx_engine` | All safety of the control plane, two entities with an output and an input each, three names of which two are automatic, two peers, a static group that occupies one output's coordinates, one view failure. Ceiling 2, so that both the ceiling and reuse are met. |
| `fx_liveness` | Calls return; data makes a subscriber Operational; the auto-namer finds a name exactly when one can exist, with names flooded and poisoned. |
| `fx_no_trace` | Violation: a refused establish leaves nodes and a poisoned name. |
| `fx_tag_collision` | Violation: two endpoints with one owner tag. |
| `pubsub_writers` | Groups on one coordinate, static or added by one of two owners, with at most two objects of it alive at once: a removed group waiting for its last completion next to its successor. Sequence numbers wrap at `SeqModulus`. |
| `pubsub_readers` | Two readers, two addresses, two owners: shared and separate receivers, adds that fail at each of their steps, queued datagrams. Owners are interchangeable, so tags are a symmetry set. |
| `thread_pool` | Two workers, one other user of the mutex, jobs with and without a mutex, a queue shorter than the number of jobs. |
| `thread_pool_exclusion` | Violation: the second unlock. |
| `calculated_variables` | Each connected part of the formulas gets one synchronizer of its own, and what follows: exclusion, nothing stale, setters return. Two threads, four configurations: operands joined by an intermediate result with a constant in it, a status formula, manual updates with an initial value and an unused variable, and an operand used before it is registered (the server does not start: the only stop, so deadlock is not checked; `SettersReturn` is). |
| `calculated_domains` | Violation: the documentation's first example. |
| `server` | Two independent parts. The life of `main()` on both backends: every start step failing, signals and three requests (one synchronous) at any moment; nothing outlives `main()`, a failed start is reported, late requests are refused, and the process ends once it is asked to. One document per behaviour: each is read as it was written, or refused. A process ends and a document is handled once, so deadlock is not checked; `EndsOnceAsked` is. |
| `server_endpoints` | Violation: a refused endpoint before a good one. |

Bounds: `MaxPoisoned` (failed views), `MaxObjects` (runtime objects per
coordinate or address alive at once), `SeqModulus` (2^16 in the code) and the
sizes of the sets; for documents `MaxDepth` and `MaxInputBytes` (limits of the
JSON parser, small so that both are met), `MaxRounds` (substitutions in a formula
after which it counts as endless), and the inputs `MCServer` lists: every type at
an edge of its range, every optional header alone, missing alone and all
together, every truncation of every datagram, every JSON text one edit away from
one that was written, endpoints that share, lack or have broken certificates, or files they have no
access to, every interval class, every address of up to four characters and
ports around the edges of their range, and formulas of two operators in every combination. Numbers in formulas are
taken modulo the prime 7: what the optimizer rewrites are identities of a field,
which hold or fail there as they do for real numbers, and rounding is not the
subject. Interactions in this code are between pairs (a connection and
the one closed under it, a removed object and its successor, a worker and the
holder of its mutex), which two of each kind exhibit.

Fairness: `FxEngine` - the thread inside a call is scheduled and its posted task
is not overtaken for ever (strong fairness: the io_context serves its queue in
order), callbacks end. Datagrams are fair only inside `DataMakesOperational`,
which is about a peer that keeps publishing. `PubSubEngine` - the io thread
serves its queue and timers expire; nobody has to call and no datagram has to
arrive. A handler that is queued waits while a task is between two of its steps,
again and again if calls keep coming, and is still served in its turn: the
fairness of `TimerHandler` and `ReceiveHandler` is strong for that reason, and
the io_context's queue justifies it. `QuasarThreadPool` - workers are scheduled and jobs end; nobody has to
offer a job, and a user may keep a mutex for ever. `CalculatedVariables` - a
thread inside a setter is scheduled; mutexes need not be fair, so the property
speaks of setters that hold their synchronizer, not of those that wait for it.
`ServerLifecycle` - `main()`, open62541's run thread, and the thread of a request
that was taken up are scheduled; no signal and no request has to come.

## What the violations show

- **A refused establish can leave a trace.** The architecture document says the
  only step that can fail comes before any permanent node. A node can be refused
  too (its id exists, since a connection name may contain `.`); the code knows
  this and poisons the name, the documents do not say so.
- **Owner tags can collide.** Entity, and connection names are joined with `/`
  and may contain it. Closing one connection then takes another one's data plane.
- **A job's mutex is unlocked twice**, by `work()` and by the `unique_lock` that
  the `Duty` still owns; in between it may belong to somebody else.
- **Operands of one formula can have different locks.** `optimize` removes the
  `ParserVariable` of a result nothing uses, and `setupSynchronization` looks for
  a formula's operands through it. The operands of such a formula share a lock
  only if something else joins them, so in the simplest case, `CV = PV1 + PV2`,
  two threads may calculate `CV` at once, and the older result may stay.
- **A refused endpoint takes a good one with it.** `loadConfiguration` stores an
  endpoint at the position of its element and then cuts the array to the number
  accepted: behind a refused one, a good one is cut off and a null entry stays,
  with a good status. The file is built for UA toolkits before 1.4.

More that the models show, without a run of its own:

- `<PubSub>` accepts intervals that are none. The documentation asks for a
  positive `publishingIntervalMs` (`PubSub.rst:224`); the code refuses what is
  `<= 0` (`PubSubXsdBinding.cpp:74`), which NaN is not, and sets no upper bound
  (`WriterGroupAccepted`). `scheduleGroup` casts the product with 1000 to a
  `long long`, which is undefined for NaN, infinity and anything too large.
  `<Fx>` bounds its intervals for that reason (`OutputValid`), and
  `AcceptedFxSound` says so for `<Fx>` only.
- A request that fetched the pool's address, or its device, before the teardown
  deletes it uses what is deleted (`stale` in `ServerLifecycle`).
- When `mainLoop()` throws, `serverRun` tears down without clearing the running
  flag: under open62541 `stop()` then waits for the next signal
  (`MainLoopThrows`).
- A generic formula that applies itself is expanded for ever (`endless` in
  `FormulaElaboration`).
- `DiscoveryUrls` of `ServerConfig.xml` are all stored at index 0, since the
  index is never incremented (`ReadDiscoveryUrls`).

## What is proved

The theorems hold for every value of the constants that the named `ASSUME`s of
each module admit; TLC evaluates these on every run. They say what the code
builds on and no more: what `FxConfiguration` accepts and that automatic names
differ from each other (`FxEngine`), that a configuration's items are groups and
readers and that `None` is not a call (`PubSubEngine`), that a pool has finitely
many workers (`QuasarThreadPool`), that variables have node ids of their own and
that formulas belong to registered variables and read variables, and that a
variable that is not calculated starts with a value (`CalculatedVariables`). Where a theorem needs more, it is a hypothesis
of the theorem and is explained below.

### Fx engine

`FxEngineProofs`. The invariants are not inductive on their own: that a dataset
has one active connection when the endpoint is stored follows from a check made
several steps earlier, so the induction needs to know what a call under way has
already established. `Inv` is the conjunction of

- `TypeOK`: kinds, and who holds `m_mutex`;
- `LifeInv`: which phases of the two engines go together;
- `SessionInv`: what `target` and `draft` still satisfy at each `pc` of an
  establish (the endpoint may be reused, the dataset is not connected), and that
  the stored endpoint is the draft's afterwards;
- `ViewInv`: how many nodes each name has, by its endpoint, its poisoning and
  the progress of the call that is making it;
- `DatasetConnectedOnce` itself.

`InvHolds` gives `TypeCorrect`, `PoisonedStaysOut` and `ConnectedOnce`; the
action property of `BindingHolds` follows from one step under `Inv`.
`CeilingHolds` adds `CeilingInv`: until a new endpoint is stored its entity is
still below the ceiling. Storing it adds one, by the cardinality theorems of
`FiniteSetTheorems`.

`AutoNamesNeverRunOut` is the pigeonhole behind the bound of
`firstFreeAutoName`: one candidate more than there are endpoints and poisoned
names cannot all be taken. Its hypothesis `NamesLeft` is about the model and not
about the code: the code makes a name for every number, the constant `AutoNames`
is a finite sequence of them, and has to reach as far as the code looks. It
holds throughout the run `fx_liveness`.

`FxPlaneProofs` proves that both planes agree. `Wired` is the set of names that
have a data plane at each step: an active endpoint whose removal has not run, or the
draft after its dynamic add. `PlaneInv` says that writers and readers are
exactly those of the wired names (`WriterInv`, `ReaderInv`), `CallbackInv` whom
a callback under way is about, and `StatusInv` that a status Operational,
or the answer of `readerDataSeen` that is about to be turned into one, has data
behind it. From these, `PlanesAgree` and `OperationalHasData`. Both assume
`DistinctTags`, that no two names have one owner tag; the run `fx_tag_collision`
shows that the code does not ensure it and that the theorem fails without it.

`FxRefinementProofs` places the engine between its neighbours.
`UsesDataPlane`, for every configuration and with colliding tags too: the engine
calls the Pub/Sub engine within the contract of `DataPlane`. What has to be added
to `Inv` is the order of start and shutdown of the two engines (`UpInv`); without
it a removal could reach a stopped engine. `ImplementsConnections`, with distinct
tags: what clients see is a behaviour of `FxConnections`. The state of that
module is computed (`Shown`, `Link`, `Fed`), and the proof turns every step into
one of its steps or a stutter. It rests on `PlaneInv`, `CallbackInv` and
`StatusInv`, on static readers belonging to no connection (`NameInv`), on an
active endpoint showing Initial only between its storing and its report
(`ShowInv`), and on a lemma that reads each connection's link off the wired
names (`LinksKnown`).

### Pub/Sub engine

`PubSubEngineProofs`. The hard part is completions that were queued before the
task that should have made them void. The invariant says which runtime objects
may still act: a group that is not stopped is listed and no shutdown ran
(`GroupInv`); an open socket belongs to a receiver, and until shutdown every
receiver's socket is open and listening (`SocketInv`); use counts are the number
of listeners and no receiver is without one (`CountInv`). `CallInv` and
`PhaseInv` say what a posted task may assume and when containers are empty.
`TaskInv` is about a task between two of its steps: what it checked still holds,
there is room for what it will store, and until its socket is made the
containers hold what it found when it began. A receiver that was acquired for a
reader not stored yet is counted with that reader (`Acquired`). From it follow `TypeCorrect`, `CoordinatesStayUnique`, `ReceiversAccounted`, and the
action properties `RemovedSilent`, `NothingStaleDelivered` and
`FailuresChangeNothing`. The last says that whichever step of a task throws,
groups, sockets, receivers with their use counts, and readers are those of its
beginning. It rests on the order of the steps and on no handler running between
them: storing the reader before its receiver is acquired, as `buildRuntimes`
does, breaks it (`CheckReaderStores`).

The last part of the module proves `ImplementsDataPlane`, for groups and readers
together; the run `pubsub_readers` checks it on the instance with readers. Each
posted task that succeeds is, in its last step, an add or a removal of the contract, start and
shutdown are its start and stop, and everything else stutters. With `UsesDataPlane` both sides of the contract are
proved, which is what makes it sound to check the engines apart.

### Thread pool

`QuasarThreadPoolProofs`, for any number of workers, users and mutexes and any set of
jobs. The counters alone are not inductive: a job that a worker finishes must
have been taken once, and one that is taken must have been in the queue once.
`QueueExact` (the queue holds each pending job exactly once), `DutiesExact` (each
running job has exactly one worker) and `CountingAccepted` (an uncounted addJob
has put its job in) carry `Balance`, the equation of `JobsConserved`;
`DestroyedEmpty` is what the destructor leaves. Theorems: `TypeCorrect`,
`PoolConserves`, `DestroyedForGood`. Mutual exclusion is not among them: the run
`thread_pool_exclusion` violates it.

### Calculated variables

`CalculatedVariablesProofs`, in six steps.

*Synchronizers.* `SynchronizersMatch`: after start-up the variables of one
connected part of the formulas share a synchronizer and those of different parts
do not, for every configuration. The invariant follows the loops: what is
registered and erased so far (`PvsInv`), what notifies what (`FormulaInv`), and
that each synchronizer given so far covers one part, whole (`SyncInv`). What one
search visits (`Reached`) is the least set that contains its start and that it
cannot leave; what "connected" means (`Joined`) is that no whole set separates
the two. So the lemma `Search` needs no induction over the graph. All of a
part is visited, since the visited set is whole; nothing else is, since a whole
set around the start is closed under the search. Earlier searches do
not disturb this, since what they visited is whole, and so is its complement.

*Exclusion.* `CalculationsExclude`: a calculation has its formula and its operands
to itself. A thread calculates only under the setter of an operand, or because
somebody triggered it (`WorkInv`, resting on `NotifiedInv`), and no two threads
are inside setters under one synchronizer (`ExclusiveInv`). The hypothesis
`OperandsJoined` is about the configuration file alone: the changing operands of a
formula are in one connected part. It cannot be dropped: the documentation's own
example does not satisfy it, since `optimize` removes the result that would join
them, and `calculated_domains` violates the conclusion there. An operand that is
a constant by its formula but is updated manually has a setter that runs under
no synchronizer; that case came up in the proof, and is in `OperandsJoined`.

*Nothing stale.* `NothingStale`: under the same hypothesis, when all setters have
returned, every result is what its formulas give for its operands. The invariant
(`DataInv`) is about one formula at a time, so that cascades need no induction.
`FreshInv`: a result differs from what its formulas give only while some thread
inside an operand's setter has it still to notify, or is calculating it.
`CalcInv`: the states a calculation under way has read, and its outcome, are
still those of the operands, which is where exclusion is needed. `SeenInv` and
`ListenInv`: what other formulas see of a result is what is published, or the
thread that published it is about to store it. `AutoInv` and `ShapeInv` are about
the switch to manual updates and the kinds of the state.

*No deadlock, no endless cascade.* `OwnersProceed`: a thread that owns a
synchronizer never waits for one that another thread owns, whether operands are
joined or not. `CascadesEnd`: the setters nested in one thread are on distinct
ParserVariables, so that no cascade is deeper than the number of variables. Both
rest on `NestInv`: the setters of a stack come in the order of registration, each
is on an operand of the formula whose result is the next, and so they share a
synchronizer. They are the safety half of `SettersReturn`, through which the run
checks them.

*The address space.* The published value is stored before the synchronizer is
taken, so the results of two setters of one variable may end up in one order in
the address space and in the other in the formulas. `OneWriterFollows`: if no two
threads are between the store and the synchronizer with the same variable
(`OneWriter`), formulas see what is published once the setters have returned.
The code does not enforce the hypothesis; a device with one thread for each
variable satisfies it.

*Kinds.* `TypeCorrect`: operands are numbers, published values are results, and
the setters nested in one thread are distinct (`ValuesInv`, `OnceInv`, `Phases`). Its hypothesis `FormulasCompute` says that a formula gives a number
when its operands are numbers. TLC could not evaluate that for an infinite set of
operands, so it is a hypothesis of the theorem and no `ASSUME` of the module.

### Configuration

`ConfigurationsProofs`: `AcceptedSectionsSound`, for every `<Fx>` section, with any
number of entities, datasets and fields and any contents. If binding and
`finalizeAndValidate` accept it, the names of entities, datasets and fields differ
where a connection manager has to tell them apart, each field has the address and
the name that were written or the default of the name, and no two output
datasets share a writer group. The last is what the Fx engine takes for granted
when it activates an output. The names of fields are compared after the defaults are
in, and the argument carries that through binding and finalizing at the three
levels. `AcceptedFxSound`, which the run `server` checks, says the same of its
documents (both use `FxSound`) and also that the publisher id arrives on the wire
and that the intervals can be scheduled.

### Server

`ServerLifecycleProofs` proves, for any number of requests, what `main()` leaves
behind (`NothingLeft`), that a failed start is reported (`FailureReported`) and
that late requests are refused (`LateRefused`). The end state follows from what
may exist at each `pc`: `EnginesInv` (each engine runs between its start and its
shutdown), `PoolInv` (pool and pointer end together but for the one step between
the delete and the null), `IoInv` (a request in progress has an SDK thread under
it, one in the queue a pool) and `FailureInv`. That main() does end
(`EndsOnceAsked`) is left to TLC.

### Only model-checked

- Liveness (`CallsReturn`, `DataMakesOperational`, `KeepsPublishing`,
  `RemovedIsDestroyed`, `DestructorReturns`, `NoHeadOfLineBlocking`,
  `MutexJobServed`, `SettersReturn`, `EndsOnceAsked`): it needs fairness and
  `ENABLED`, which are beyond the prover.
- The documents (`WireFaithful`, `JsonOneMeaning`, `LoadedAsWritten`,
  `NetworkAddressesRead`, `FormulaMeansWhatItSays`, and the id on the wire in
  `AcceptedFxSound`): what recursive operators and folds compute for every input,
  an induction over data.

## What is not modelled

- muParser's strings, postfix and user-defined operators, bulk mode, rounding,
  its own tests and its DLL interface. Its reader also accepts some malformed
  formulas (`x, -` or `a, ? b : c`); the run has only well-formed ones.
- White space, and the conversion between digits and numbers, in JSON.
- Exceptions of the developer's code that `serverRun` does not catch: one of
  `mainLoop()` that is no `std::exception`, and any of `shutdown()`. They reach
  the handlers of `startApplication` (`BaseQuasarServer.cpp:107-117`), which
  report 1 without the rest of the teardown, so that `NothingOutlivesMain` does
  not speak of them: it takes a `shutdown()` that returns for granted.
- Published strings with a NUL inside: `PubSubValues` cuts them as `c_str()`
  does, and the run's values have none, so nothing is claimed of them.
- The branch of `serverconfigxml.cpp:1962-1966` for an insecure default: the
  repository defines `CONFIG_DEFAULT_SECURE` as 1.
- Windows certificate stores, the process owner, the environment and logging.
- The transactions of the UA toolkit's IOManager
  (`ASSourceVariableIoManager.cpp`), whose callback object the toolkit owns.
- Free variables; Meta information and log levels: no invariant ties them to
  anything.
- The type of `<PubSub>`'s publisher id against its value: the code does not
  check it, so there is nothing that could hold.
- The generators: they run at build time.
- Data races as such. Where threads are not excluded from each other the model
  shows the interleaving that reaches the race and does not continue into torn
  values.

## Plan

1. A run with two writers of one variable in `CalculatedVariables`, which shows
   what `OneWriterFollows` excludes.
2. The binding of the `<PubSub>` section, its addresses aside, in
   `ConfigurationsProofs`.

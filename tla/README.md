# Verification of the Level Zero loader

TLA+ specifications of the Level Zero loader and its layers, TLC models that
check them on small instances, and TLAPS proofs of the theorems that hold for
every instance. `PROJECT.json` lists the components, the runs, the mutants that
show each property can fail, the source lines each definition stands for, the
hazards of the code and the findings.

    tlc -workers 2 -config MCTracerArrays.cfg MCTracerArrays.tla     # a run
    tlapm TracerArrays_proofs.tla                                    # the proofs

## 1. Inventory

The repository is a library (`source/lib`, `source/loader`) that applications
link, two layers it can put between an application and the drivers
(`source/layers/tracing`, `source/layers/validation`) and a null driver for
tests. Some 200,000 of its 220,000 lines are generated from
`scripts/templates/*.mako`, one function per API entry point, and hold no logic
that the templates do not.

| component | state | operations | what is hard | what makes it correct |
|---|---|---|---|---|
| tracer arrays (`tracing_imp.cpp`) | tracers and their `tracingState`; the active array; the retiring list; one hazard pointer per thread; two mutexes | create, register, enable, disable, destroy; a traced call; a thread's first call and its exit | lock-free readers against a writer that frees; memory order; destroy waits for readers; callbacks that call the API again | no array freed under a reader, none lost; a drained tracer is in no call; callbacks do not change under a call; destroy ends |
| extension functions (`tracing_imp.cpp`, `ze_tracing.cpp`) | per (driver, function): two counts, the hint `epilogueInstalled`; in the driver: the installed wrappers; per call: a frame | register, clear, reset, destroy; the prologue and epilogue wrappers | counted under a mutex, applied after it; three reads at three moments in one call | wrappers agree with the counts; prologue and epilogue come in pairs; frames come back |
| tracing toggle (`ze_lib.cpp`, `zel_tracing_libapi.cpp`) | a counter, two table pointers, one gate per driver, the latch `anyExtensionCallbackRegistered` | enable, disable, first registration, driver initialisation, init | one atomic step on the counter, several on what follows from it | tables and gates agree with the counter when nothing is on its way |
| initialisation (`ze_lib.cpp`, `ze_loader.cpp`, `ze_ldrddi.cpp`) | three `once_flag`s, flags without synchronisation, the vector of drivers, per-driver status | zeInit, zeInitDrivers, zesInit, zeDriverGet, init_driver | the same work under different once flags; a sort while others iterate | each driver once; sorted before it is reported; a failed driver is retried or hidden, never half used |
| driver ordering (`ze_loader.cpp`, `ze_loader_utils.h`) | none | the comparator, the parser of `ZEL_DRIVERS_ORDER`, the reordering | strict weak order; bad and repeated specifications | a permutation; the order asked for |
| handle translation (`ze_singleton.h`) | per factory, a map from driver handles to loader objects | getInstance, hasInstance, release | a handle destroyed and reused by the driver between two calls | one live object per live handle |
| teardown (`ze_lib.cpp`) | the registered callbacks, `destruction` | register, unregister, driver teardown, context destruction | callbacks that unregister while the map is iterated | each callback once, none after it unregistered |
| events checker (`zel_events_checker.cpp`, `graphcycles.cc`) | events to graph nodes, nodes to actions, an acyclic graph with ranks | create, reset and destroy of events; every call with signal and wait events | long sequences of reuse; incremental topological order | a cycle is reported when and only when the new edge closes one |
| handle lifetime, basic leak (`handle_lifetime.h`, `zel_basic_leak_checker.cpp`) | sets of handles, dependents, open lists; counters | every create and destroy | maps shared by threads without a lock | a live handle is accepted, a dead one refused |
| system resource tracker, parameter and certification checks, error texts, logger, API entry points, Python bindings, samples, generator | little or none | forwarding, argument tests, formatting, I/O | - | - |

How they interact: an API call goes through the table the library's context
points to at that moment; it is the loader's own table or, when tracing is on,
the tracing layer's. The tracing layer's wrapper pins the tracer array, runs
prologues, calls the loader's or the driver's function and runs epilogues. An
extension function is called without any table: the driver calls the tracing
layer's wrappers around its body, if they are installed and its gate is open.
The gate is set by the tracing toggle, the wrappers by registrations. The
validation layer sits in the same chain of tables and calls its checkers before
and after each function.

## 2. Plan

The modules, in the order of importance they were written in:

1. `TracerRegistry`, `TracerArrays`, `TracerArrays_proofs` - the tracer arrays:
   the abstract promise, the lock-free algorithm, safety, liveness, refinement,
   and the proofs.
2. `ExtensionTracing`, `ExtensionTracingGaps`, `ExtensionTracing_proofs` -
   counts, wrappers, hint and frames, on top of `TracerRegistry`.
3. `TracingToggle`, `TracingToggle_proofs` - counter, tables and gates under
   concurrent enable, disable, first registration and driver initialisation.
4. `LoaderInit`, `LoaderInit_proofs` - the once flags, discovery, lazy initialisation of drivers, the
   sort on first use with its comparator and `ZEL_DRIVERS_ORDER`.
5. `HandleFactory`, `HandleFactoryGaps`, `HandleFactory_proofs` - translation of handles with drivers and
   a heap that use addresses again.
6. `DriverObjects`, `HandleLifetime`, `HandleLifetimeGaps`,
   `HandleLifetime_proofs` - the validation layer's record of the driver's objects.
7. `AcyclicGraph`, `GraphCycles`, `EventWaits`, `EventsChecker`,
   `GraphCycles_proofs`, `EventsChecker_proofs` - the graph with its ranks against
   reachability, the events checker on top of it, both against what they promise.

What would come next: sysman's copy of the drivers, in `LoaderInit` and
`TracingToggle` at once.

Modules that theorems are proved about declare no RECURSIVE operator.

## 3. The modules

### TracerRegistry (abstract)

What the layer promises: tracers exist, some are enabled, and a traced call
works from its start to its end on the tracers enabled at one instant of it,
with the callbacks they had then; a tracer is changed or destroyed only when no
call uses it. `TracerArrays` implements it, and `ExtensionTracing` stands on it
instead of the arrays.

### TracerArrays

| in the module | in the code |
|---|---|
| `tracingState`, `tracerFunctions` | `APITracerImp`; "absent" is a handle not created, or deleted |
| `activeTracerArray`, `retiringTracerArrayList`, `enabledTracerImpList`, `tracerArrayEntries`, `allocated` | `APITracerContextImp` and the heap |
| `tracerArrayPointer`, `isInitialized`, `threadTracerDataList` | `ThreadPrivateTracerData`; `onList` is membership of the list |
| `storeBuffer` | a relaxed store of the pointer not yet visible to others |
| `RegisterThread`, `BeginCall` | the recursion macro and `testAndSetThreadTracerDataInitializedAndOnList` |
| `LoadActive`, `PublishPointer`, `RecheckActive` | the loop of `getActiveTracersList`, one memory access each |
| `GatherCallbacks`, `ReleaseActive` | `ZE_GEN_PER_API_CALLBACK_STATE`, `APITracerWrapperImp` |
| `Request`, then `EnableTracer` ... `SetEnabledInUse` | `enableTracingImp`, by the state it finds |
| `Request`, then `DestroyDisabled` ... `FinishDestroyWait`, `DeleteTracer` | `finalizeDisableImpTracingWait`, `destroyTracer` |
| `TestArray`, `TestThread`, `FreeArray` | `testAndFreeRetiredTracers` and `testForTracerArrayReferences`, one read of one thread's pointer per step |

What is decided, and why:

- Threads read each other's pointers one at a time, in any order: the list order
  is the order of registration, which any order of the threads can be.
- A call's prologues, the driver's function and the epilogues are one step that
  ends the call, `ReleaseActive`; what matters of them is that between
  `GatherCallbacks` and `ReleaseActive` the thread may do anything a callback
  may do, other tracers' control operations included (`ControlInCallbacks`).
- A handle and an array's address may be reused as soon as they are freed, so a
  pointer compared equal may be to a newer array: the walk and the loop meet the
  ABA case.
- With `StoreBuffer` a thread's store of its pointer may be delayed past its own
  later loads, once, until it stores again or locks a mutex: what x86-TSO allows.
  Weaker orders (other relaxed accesses) are not modelled.
- Setters read `tracingState` without the mutex. The documents forbid calls on
  one tracer from two threads at once, and `CanControl` keeps to that.
- Once a thread has left the list it makes no traced call again
  (`getActiveTracersList` returns null and the call is not traced).
- Allocation failure, the invalid handles the code does not check for, and the
  per-API tables inside a `Callback` are left out.

### ExtensionTracing

One (driver, function) key: `refCount` and `epilogueInstalled` are its
registry entry, `driverWrappers` what the driver has installed, `copied` what it
read when a call began (`zeSampleExtFunc` of the null driver shows a driver's
side), `frame` the handle that the driver carries from the prologue wrapper to
the epilogue wrapper. A registration is the count under the mutex
(`updateLoaderExtensionInstall`) and then, unprotected, hint off, `SetDriver`, hint on
(`applyLoaderExtensionInstall`). Destroy notes the registrations, waits,
deletes the tracer and then releases the counts.

- `hookAvailable` is a driver with or without
  `zelDriverSetLoaderCallbackForExtension`, for good. A driver that has it may
  still fail to install or remove a wrapper (`ze_tracing.cpp:51-56`); that is in
  `ExtensionTracingGaps`, where the registration goes on as in the code.
- The driver's gate is taken to be open; `TracingToggle` has the gate.
- `tracingInProgress` is not modelled: an extension function called from inside
  a callback runs no wrappers of its own.
- `MaxRefCount` bounds a count that `resetAllCallbacks` lets grow.
- A tracer that stays in `disabledWaitingState` for lack of a destroy is as good
  as a disabled one here: `TracerRegistry` does not tell them apart.

Two constants describe the application. `Serialised`: it registers and destroys
one tracer at a time. `InstallDuringCalls`: it registers callbacks also while
the extension function runs.

### TracingToggle

The state is `ze_lib::context_t` (counter, tables), `loader::context_t` (the
environment's `tracingLayerEnabled`, the latch, the drivers) and one gate per
driver. A call is `op`, how far it has come is `step`, and every access to
something shared is a step: the counter (`fetch_add`, the successful
`compare_exchange`), each `ExchangeTable`, `ReadLatch`, `ReadCounter`, and, for
each driver visited, the one-shot guard, the claim, the probe, the caching of
the hook and the call of it.

| in the module | in the code |
|---|---|
| `zelEnableTracingLayer`, `zelDisableTracingLayer`, then `ExchangeTable`, `ReadLatch` | `ze_lib.cpp:638-739` |
| `ContextInit` | the first zeInit, zeInitDrivers or zesInit after another of them: `Init` puts back the initial tables and opens the gates for the environment variable |
| `RegisterExtensionCallback`, `ReadCounter` | `zelLoaderTracingLayerRegisterExtensionCallback` |
| `BeginInitDriver`, `LoadDriver`, then `CheckResolved` ... `ReadLatch`, `ReadCounter` | `init_driver` of a driver no earlier initialisation matched |
| `VisitDriver`, `CheckResolved`, `ClaimResolve`, `ProbeHook`, `CacheHook`, `CallHook` | `enableDriverExtensionTracing` and `resolveDriverExtensionTracingHook` |

- `Init` is the state after the first initialisation: before it the tracing
  tables do not exist. A single driver is called directly, and its hook is
  resolved by the first toggle; of several, those initialised are resolved.
- `capable` are the drivers that implement the hook and answer zeDriverGet at
  the time of the probe. A driver that answers it only after its own zeInit is
  not `capable`: `init_driver` probes before that call.
- A call visits the drivers in any order; the vector has some order.
- Tables of functions are filled in one step, and `ClaimResolve` looks at the
  table in the step in which it sets the flag: a driver filled between the two
  would only be resolved after all. Handle and hook are cached together.
- The data race on the plain fields of `driver_t` is modelled as interleaving.
- `MaxCounter` bounds the enables outstanding; the code's counter has 32 bits.
- zelGetTracingLayerState only reads, and drivers whose initialisation fails,
  the copies of the drivers kept for sysman and the static build's forwarding
  are left out.

Three constants describe the application. `DisableAlone`: nothing else of this
module runs during a disable. `InitAnytime`: another kind of initialisation may
come when tracing is enabled, or beside other calls. `RegisterEarly`: extension
callbacks are registered also before every driver is initialised.

### LoaderInit

zeInit, zeInitDrivers and zeDriverGet of a loader with several drivers. A call
is at one of the stages query (reads the plain flag), discover, init (the loop
that loads drivers), tables, pfnInit, sort and get (the loop that asks drivers);
a loop looks at one driver per step, at its own place in the vector.

| in the module | in the code |
|---|---|
| `zeDrivers`, `driverEnvironmentQueried` | the vector and the flag of `loader::context_t` |
| `initOnce`, `initOnceDrivers`, `coreDriverSortOnce` | the `once_flag`s |
| `Query`, `Discover` | `context_t::init`, with its early return |
| `NothingToDo` ... `Initialised` | the loops of the generated zeInit and zeInitDrivers, and `init_driver` |
| `Sort`, `driverSorting`, `driverSortComparator`, `driverOrdering` | `ze_loader.cpp:43-470` and `std::sort` |
| `Ask`, `Return` | the loop over pfnInitDrivers or pfnGet; `given` remembers the first answer to each request |

- The sort is one step. In the code it moves one driver at a time, and a loop of
  another thread may see a driver twice or half moved: where calls overlap a
  sort, the model has fewer outcomes than the code. `std::sort` is what
  libstdc++ does with up to 16 drivers, an insertion sort.
- `driverOrdering` builds its list in two passes, drivers that a specification
  names and then the rest. Either pass takes the drivers in the order of the
  first entry that asks for them, and of one entry in the order they had: the
  module says so (`OrderedBy`), with one more entry that asks for every driver.
- Drivers that are loaded late, after the sort, stay where discovery put them,
  as in the code; `DocumentedOrder` claims nothing for such a vector.
- `Together` says whether calls may overlap before the drivers are sorted.
- Result codes are left out, and with them the ones that the lambda in zeInit
  returns to `call_once`, which drops them.
- Left out: a single driver, failing functions of a loaded driver, program
  instrumentation (which disables sorting), a `pCount` below the number of
  drivers, sysman's vector, and reading the text of `ZEL_DRIVERS_ORDER`, whose
  parsed entries are the input.

### HandleFactory

Two drivers, their objects and the loader objects that stand for them. `map` is
a factory per type (`singleton_factory_t`), `wrapper` the heap of loader
objects, `argument_map` the loader's `image_handle_map` and its like for
samplers, `held` what the application holds. A create is the driver's step,
`Wrap` (`getInstance`) and, for images and samplers, `InsertArgument`; a destroy
erases the argument entry, calls the driver and then does `Release`. A driver
may refuse a destroy. Contexts, images, image views and samplers stand for all
types: the generator writes the same code for each.

`Recycle` tells whether a driver may give an address out again while the
loader's release of it is pending. `HandleFactoryGaps` adds the operations that
leave something behind: external semaphores and image views through the
extension.

### HandleLifetime

The validation layer's maps: `handleStateMap` (the handles of each type),
`is_open`, `dependentMap`. Every call is a prologue (one action per API
function), the driver's step and, for a create, `Register`. The application
passes any handle, stale ones and ones of another type included; a refused call
is no step. The driver reuses addresses at once. `Undisturbed` is what ze_api.h
asks of threads: no destroy of, or change to, what another thread is using.
`DriverObjects` is the abstract driver: a set of objects made from one another,
none destroyed before its children. `HandleLifetimeGaps` adds what loses track
of objects: zePhysicalMemDestroy, a destroy that the driver refuses, and a build
that fails and leaves a build log.

- zeCommandListAppendSignalEvent stands for the appends; the others check more
  handles by the same three tests.
- `addDependent` with a null parent, which the code ignores, is `None`.
- Devices and drivers are not destroyed by any call, and are left out.

### The events checker

`GraphCycles` is `graphcycles.cc`: nodes with ranks, two edge lists, and for an
edge against the ranks a forward search, a backward search and `Reorder`, a node
per step. `AcyclicGraph` is its promise: an edge is refused just when it closes
a cycle. `EventsChecker` keeps `eventToDagID` and `dagIDToAction` and looks at
the wait events of an append one at a time; it contains `GraphCycles` (EXTENDS). `EventWaits` is what it promises to an application: uses of
events that wait for one another, a warning for the wait that completes a
circle, a warning for a use that is signalled twice; a reset or destroyed event
is a new use. `use` and `useOf` are history variables for that mapping only.

- Every append prologue is one call of `checkForDeadlock`; its wait events
  are looked at in any order. A search takes nodes from its stack in any order;
  the new ranks do not depend on it, since the code sorts what was found.
- One thread, events from zeEventCreate, no null wait events: the checker has no
  lock, does not look at counter-based events, and indexes its map with a null
  event as with any.
- `MaxNodes` and `MaxUses` bound a graph that in the code only grows.

## 4. The runs

| run | bounds | shows |
|---|---|---|
| `arrays` | 2 threads, 2 tracers, 4 addresses, 2 callback tables, callbacks may control tracers; no store buffer | `TypeOK`, `PinnedArrayLive`, `InHandTracersHeld`, `InHandCallbacksCurrent`, `ArraysAccounted`, `ActiveArrayCurrent`, and that the module implements `TracerRegistry` |
| `arrays_live` | 2 threads, 1 tracer, 4 addresses, store buffers, callbacks do not control tracers; fair | `DestroyReturns`, `DisabledFallsSilent`, `CallsReturnWhenQuiet` |
| `arrays_store_buffer` | as `arrays`, with store buffers | `InHandTracersHeld` fails |
| `extension` | 2 threads, 2 tracers, counts up to 3; serialised, no installation during calls | `TypeOK`, `CountsCoverTracers`, `InstalledAsCounted`, `PrologueThenEpilogue`, `FramesHandedBack` |
| `extension_destroy` | as `extension` | `EpiloguesOfLiveTracers` fails |
| `toggle` | 3 threads, up to 2 drivers of which any may be capable, counter up to 2; disables and late initialisations alone, no early registration | `TypeOK`, `TablesFollowCounter`, `GatesFollowCounter`, `GateNeedsCallback`, `InterceptsStay` |
| `loader_init` | 2 threads; 4 libraries of which one may not load, or 2 drivers of ZE_ENABLE_ALT_DRIVERS, or 2 GPU drivers with ZE_ENABLE_PCI_ID_DEVICE_ORDER; 3 settings of ZEL_DRIVERS_ORDER; calls alone until the drivers are sorted | `TypeOK`, `DriversKept`, `RequestedDriversReturned`, `IdenticalHandles`, `DocumentedOrder` |
| `loader_race` | 2 threads, 2 drivers, either order, calls overlap | `RequestedDriversReturned` fails |
| `factory` | 2 threads, 2 drivers, 3 driver addresses, 4 heap addresses, contexts, images, views, samplers; no early reuse | `TypeOK`, `HandlesResolve`, `NothingLeftBehind`, `ArgumentsTranslated`, `NoStaleArguments` |
| `factory_race` | 2 threads, contexts, early reuse | `HandlesResolve` fails |
| `handles` | 2 threads, 4 handles, all 15 kinds | `TypeOK`, `ValidWhileLive`, `DependentsAreChildren`, `DestroysAreLegal`, `ListCallsAreLegal`, and that the driver sees `DriverObjects` |
| `events` | 3 events, one of them used anew, 4 nodes | `TypeOK`, `CheckInvariants`, and that graph and checker implement `AcyclicGraph` and `EventWaits` |

Besides these there are instances to run by hand. One more that passes:

| instance | bounds | shows |
|---|---|---|
| `MCTracerArraysLiveTwo.cfg` | as `arrays_live`, with 2 tracers, 3 addresses, no store buffers | `DestroyReturns`, in a minute and a half |

The others each give up one assumption of a passing run, or add an operation it
leaves out. They show what the passing run excludes: TLC stops at the violation
named, and section 5 says what it is.

| instance | what is different | what fails |
|---|---|---|
| `MCExtensionTracingRace.cfg` | tracers are changed at once (not `Serialised`) | `InstalledAsCounted` |
| `MCExtensionTracingLeak.cfg` | installation during calls | `FramesHandedBack` |
| `MCExtensionTracingRefused.cfg` | a driver that may refuse a wrapper | `FramesHandedBack` |
| `MCExtensionTracingUnpaired.cfg` | nothing: a stronger property | `EpilogueOnlyAfterPrologue` |
| `MCTracingToggleRace.cfg` | disables beside other calls | `TablesFollowCounter` |
| `MCTracingToggleInit.cfg` | one thread, initialisation also while tracing is on | `InterceptsStay` |
| `MCTracingToggleLate.cfg` | one thread, registration before a driver is initialised | `GatesFollowCounter` |
| `MCLoaderInitTwice.cfg` | a first zeInit beside a first zeInitDrivers | `DriversKept` |
| `MCLoaderInitOrder.cfg` | ZE_ENABLE_PCI_ID_DEVICE_ORDER and an NPU | `DocumentedOrder` |
| `MCHandleFactorySemaphore.cfg` | external semaphores | `HandlesResolve` |
| `MCHandleFactoryView.cfg` | zeImageViewCreateExt | `ArgumentsTranslated` |
| `MCHandleLifetimeBuildLog.cfg` | builds that fail and leave a log | `ValidWhileLive` |
| `MCHandleLifetimePhysicalMem.cfg` | zePhysicalMemDestroy | `PhysicalMemReleasable` |
| `MCHandleLifetimeImmediate.cfg` | nothing: another property | `LegalAppendsAccepted` |
| `MCHandleLifetimeRetry.cfg` | destroys the driver refuses | `ValidWhileLive` |

Why the bounds are enough. Two threads are one reader and one writer, each of
which can be both in turn or, with callbacks, at once; the readers share nothing
but the arrays, and the writers exclude each other. Two tracers let a destroy
wait for arrays that another tracer's changes retired. A thread pins one array,
so with one array active, one pinned by each thread and one being built, four
addresses never run out before an old one can be freed and reused; `Array` is a
heap, and an update for which no address is left waits in the model for one.
Threads, tracers and addresses are symmetric; the liveness instances use no
symmetry. In `MCTracerArraysLiveTwo` a destroy waits, with the table mutex held,
for arrays that changes of the other tracer retired. The destroyer pins none, so
three addresses are the active array, the one the other thread pins and the one
being built. Delayed stores are left to `arrays_live`: with both there are four
million states, too many for liveness in minutes.

In `toggle` three threads let an enable, a registration and a driver's
initialisation meet at one driver, each of which may find it unresolved; a
counter of 2 has a first, a last and a middle user; two drivers let one be
visited while the other is initialised, and one alone may be the driver that is
called directly.

In `loader_init` the four libraries have three types after discovery and sort
differently than they are found; three requests, one for a type the other call
does not load, let a driver be loaded after the sort. In `factory` three driver
addresses over two drivers are one object of each and one address to use again,
for another type or by the other driver; four heap addresses let a loader object
die and its address come back as another type's. In `handles` a chain of context,
pool and event, or context, module and kernel, uses three of four addresses and
leaves one to use again; only clones of clones go deeper. In `events` three
nodes are enough for an accepted edge against the ranks that moves a node which
is neither of its ends, and for a circle of three; the fourth is the node of an
event used anew. That is one new use over all events, for the graph only grows;
for uses without bound there is the theorem `CirclesAreWarnedOf` (section 6).

What the application is assumed to do. `loader_init`: it asks zeInit for all
classes, and calls zeDriverGet only after zeInit; mixing zeInit and
zeInitDrivers for different classes is undefined by ze_api.h:1328-1331; the type
discovery gives a library fits its devices. `factory`: no driver uses an address
again while the call that destroyed it is on its way. `handles`: the thread
rules of ze_api.h (`Undisturbed`), nothing else. `events`: one thread.

Fairness (`arrays_live` and `MCTracerArraysLiveTwo`). Each thread is weakly fair
in going on with the call or the operation it has begun, and in making its store visible: the
scheduler runs every thread, drivers and callbacks return, store buffers drain.
Nothing obliges an application to begin a call or an operation.
`CallsReturnWhenQuiet` says no more than lock-freedom gives: calls get through
once the active array stops changing. Callbacks that call `zelTracerDestroy` or
`zelTracerSetEnabled` are excluded from `DestroyReturns` because it does not
hold for them: destroy waits with `traceTableMutex` locked, the callback blocks
on that mutex, and destroy waits for the callback.

## 5. What the runs found

Tracing:

- `arrays_store_buffer`: the hazard pointer is stored, and the active array
  looked at again, with relaxed order and no fence between
  (`tracing_imp.cpp:550-554`). With the store delayed, a walk misses the
  pointer, the array is freed and its tracer declared drained under a call.
  Section 6 proves this cannot happen once the store is visible before the
  second load, which a sequentially consistent store and load, or a fence
  between them, would give.
- `extension_destroy`: the epilogues in a frame run with no array pinned, so
  destroy does not wait for them (layers/tracing/README.md:187 says it does).
- `MCExtensionTracingRace`: the state computed under the mutex reaches the driver
  after it (`ze_tracing.cpp:190-192`), so of two registrations the older may win;
  layers/tracing/README.md:156 has the wrapper "installed when the first tracer
  registers a prologue and cleared when the last tracer stops registering one".
- `MCExtensionTracingLeak`: a call that began before the epilogue wrapper was
  installed and reads the hint after builds a frame that nobody takes back;
  tracing_imp.h:66-67 says "a concurrent call never builds a frame the driver
  won't hand back to an epilogue".
- `MCExtensionTracingRefused`: when the driver fails to install the epilogue wrapper, the
  hint goes up all the same (`ze_tracing.cpp:51-54`), and every later call builds a
  frame that nobody takes back; tracing_imp.h:64 has the hint "True while the
  driver has the epilogue trampoline".
- `MCExtensionTracingUnpaired`: a tracer enabled while the extension function runs
  has its epilogue called though its prologue was not (`tracing_imp.cpp:768-779`);
  layers/tracing/README.md:185 says "if the __prologue__ function was not called
  then the __epilogue__ function is guaranteed not to be called".
- `MCTracingToggleLate`: a registration or toggle that visits a driver before it
  is initialised marks it resolved without a hook (`ze_loader.cpp:494`);
  initialised later, it never gets its gate opened, though ze_loader.cpp:672-673
  says "so env-enabled and late-loaded drivers participate".
- `MCTracingToggleInit`: zeInit, zelEnableTracingLayer, zesInit leaves the initial
  tables with the counter at 1 (`ze_lib.cpp:228-231`); doc/loader_api.md:71 says
  the intercepts "will not be removed until the reference count has reached 0".
- `MCTracingToggleRace`: enable and disable change the counter and then the two tables
  (`ze_lib.cpp:652-656`, 716-725), and the last exchange of each wins.

Initialisation:

- `loader_race`: two first zeInitDrivers overlap, one sorts the vector under the
  other's loop, and the other's answer lacks a driver (`ze_ldrddi.cpp:364-385`).
- `MCLoaderInitTwice`: zeInit and zeInitDrivers are guarded by different
  `once_flag`s and the loader's context by a plain flag (`ze_loader.cpp:687`):
  both find it unset and every driver is discovered twice.
- `MCLoaderInitOrder`: with ZE_ENABLE_PCI_ID_DEVICE_ORDER drivers sort by
  descending type except MIXED and OTHER (`ze_loader.cpp:60-69`); NPU is the
  greatest type and comes first, where README.md:162-168 has non-GPU devices
  last. Nor are MIXED and OTHER always last: neither MIXED nor any GPU type is less
  than the other, while the GPU types are ordered, so the comparator is no strict
  weak order once MIXED, DISCRETE and INTEGRATED meet.
- Read only: "Drivers with Mixed Devices Types (ie GPU + NPU)" (README.md:160) is
  MIXED in the code only for integrated and discrete GPUs together with
  something else; a driver for a discrete GPU and an NPU counts as DISCRETE.
  `DocumentedOrder` has no such driver.
- Read only: after zeInit for one class, zeInitDrivers for another adds drivers to
  what a later zeDriverGet reports. ze_api.h:1328-1331 leaves it undefined.

Handles:

- `factory_race`: the release of a loader object comes after the driver's
  destroy; a create that gets the address in between is handed the old loader
  object (`ze_ldrddi.cpp:1471-1477`), where the run stops; the release then
  deletes it.
- `MCHandleFactorySemaphore`: zeDeviceReleaseExternalSemaphoreExt never releases
  the loader object (`ze_ldrddi.cpp:7678-7697`): the next semaphore at that
  address gets it, with the driver table of the old one.
- `MCHandleFactoryView`: zeImageViewCreateExp enters the view as a kernel argument
  (`ze_ldrddi.cpp:6254-6303`), zeImageViewCreateExt (6206-6249) does not: such a
  view reaches the driver untranslated.
- Read only: zeImageDestroy erases the argument entry before the driver may
  refuse the destroy (4068-4072); `kept` excludes such images from
  `ArgumentsTranslated`. zeModuleCreate asks the factory for the module's handle
  before it looks at the driver's result (4531-4545).

Validation layer:

- `MCHandleLifetimePhysicalMem`: zePhysicalMemDestroyPrologue treats the context
  as destroyed (`ze_handle_lifetime.cpp:2873-2898`), and since the memory is
  itself a dependent of the context, refuses every destroy of physical memory;
  ze_api.h:10448-10449 releases the memory only.
- `MCHandleLifetimeImmediate`: immediate lists are registered as closed
  (`ze_valddi.cpp:10866`), so every append to one is refused
  (`ze_handle_lifetime.cpp:1525`); ze_api.h:4001-4002 has them open always. An
  execute accepts them, against ze_api.h:3997-3998.
- `MCHandleLifetimeBuildLog`: the build log of a module that failed to build is not
  registered (`ze_valddi.cpp:14577-14587`), so it can neither be read nor destroyed,
  which ze_api.h:212 and 8375-8376 ask of the application.
- `MCHandleLifetimeRetry`: the destroy's prologue forgets the handle before the
  driver refuses; the object stays and its handle is refused from then on.
- Read only: handles opened by IPC are never registered; clones are
  registered as open although their source is closed (ze_api.h:14324).
- Read only, events checker: an action is recorded before the driver accepts it;
  the reset of an event that is only waited for forgets the wait; counter-based
  events are not registered; the order an in-order list gives its commands is
  not seen.

Teardown, read only: the callbacks are walked without `teardownCallbacksMutex`
(`ze_lib.cpp:491-495`, 89-93) while `applicationTeardownCallback` (51-60) erases
from the same map, also from within a callback.

## 6. The proofs

`TracerArrays_proofs` proves, for any sets of threads, tracers, addresses and
callbacks, from `ConstantsAssumption` alone (distinct special values):

- `ArraysCorrect`: `Spec => [](TypeOK /\ ArraysAccounted /\ ActiveArrayCurrent)`,
  with or without store buffers.
- `CallsAreSafe`: `Spec => [](PinnedArrayLive /\ InHandTracersHeld /\
  InHandCallbacksCurrent)`, without store buffers.
- `LayerImplementsRegistry`: `Spec => ImplementsRegistry`, without store
  buffers: every step is a step of `TracerRegistry` or leaves it unchanged.

None of these properties is inductive. The invariant is in two parts.
`ArraysInv` holds under either memory model: who holds which mutex is told by
the walk (`MutexInv`), the walk meets only retired arrays and each once
(`WalkInv`), a pending operation finds its tracer in the state in which nobody
else may have changed it (`OpInv`), and every allocated array holds only tracers
that are enabled or not yet drained, with the callbacks they have now
(`ContentInv`). The last is why a disable or destroy may declare its tracer
drained only when no retired array is left: then no array mentions it.
`PinInv` is the hazard pointer's argument: from the second look at the active
array to the release the thread is on the list, its pointer is visible, the
array it points to is allocated, and if the walk has passed the thread by, it is
not the array being tested. The step that needs it most is `RecheckActive`: the
array found still active is not retired, so no walk that has passed this thread
can be testing it; and `FreeArray`, where every listed thread has been passed
by. A store in a buffer breaks `PinInv` and nothing else.

The steps of the proofs follow the actions of `Next`. The pieces of state an
action leaves alone are dealt with together, once per group of actions.

`ExtensionTracing_proofs` proves, for any finite sets of threads and tracers and
any bound on the counts:

- `TypeCorrect`: `Spec => []TypeOK`.
- `TracersAreCounted`: `Spec => []CountsCoverTracers`, serialised or not.
- `DriverMatchesCounts`: `Spec => []InstalledAsCounted`, if `Serialised`.
- `EveryFrameComesBack`, `EpiloguesFollowPrologues`:
  `Spec => []FramesHandedBack` and `Spec => []PrologueThenEpilogue`, if
  `Serialised` and not `InstallDuringCalls`.

The counts are inductive alone: each step moves the two cardinalities and the
count of a phase by the same one (`RegisterCounts`, `DestroyCounts`,
`ReleaseCounts`), and `resetAllCallbacks` only lowers what has to be covered.
The rest is not. `InstallStage` says how far an installation has come: what is
wanted is what the counts say, and what changes is where that differs from what
the driver has; with nothing on its way, driver and counts agree (`Settled`).
One operation at a time (`OneOp`) is what keeps a stage's facts true until its
thread takes the next step: `MCExtensionTracingRace`, which gives up
`Serialised`, fails just there.
`CallInv` is about a running call: nothing is being installed, so the driver's
wrappers are among those the call read, and a frame built by the hint finds its
epilogue wrapper. A prologue that finds the hint down and builds no frame must
not meet a tracer with an epilogue (`NoHintNoEpilogue`): this is where the counts
are needed, for a tracer with an epilogue is counted, and what is counted is
installed, or about to be, which a running call excludes. `FrameInv`, the whole
invariant, was first checked with TLC on the instance of `MCExtensionTracing.cfg`.

`TracingToggle_proofs` proves, for any sets of threads and drivers and any bound
on the counter:

- `GatesNeedCallbacks`: `Spec => [](TypeOK /\ GateNeedsCallback)`, whatever calls
  overlap. `GateInv` adds that whoever visits drivers has seen the latch, and
  that a hook is cached only where the probe found one.
- `TablesCorrect`: `Spec => []TablesFollowCounter /\ InterceptsStay` if disables
  and late initialisations are alone. `TableInv` adds that one call at most has
  tables left to exchange, that the counter is still on the side of zero on which
  that call found it, and that the tables nobody will exchange are right. That is
  what concurrent enables do not disturb, and what an overlapping disable does.

- `GatesCorrect`: `Spec => []GatesFollowCounter` if moreover no callback is
  registered before every driver is initialised (`~RegisterEarly`; the instance
  `MCTracingToggleLate` shows the need). A gate is wrong only for a time, and
  the invariant says who will put it right: by `OpenInv`, while the latch is set
  and the counter is not 0, the gate of a capable, initialised driver is open or
  some call is still to open it (`Opening`), and while the counter is 0 an open
  gate has a disable still to close it (`Closing`). `CallInv` keeps what such a
  call saw true: an enable on its way finds the counter above 0, a disable finds
  0, and what is visiting drivers is a disable exactly when the counter is 0.
  `HookInv` has the call reach the driver: a capable driver that is marked
  resolved has its hook cached, or whoever marked it is about to cache it.

`LoaderInit_proofs` proves, for any threads, drivers, devices, environments and
requests:

- `TypeCorrect`: `Spec => []TypeOK`, however calls overlap.
- `DriversAreKept`: `Spec => []DriversKept`, if `~Together`.
- `RequestsAreAnswered`: `Spec => []RequestedDriversReturned`, if `~Together` and
  `NamesFit`.
- `SameAnswers`: `Spec => []IdenticalHandles`, if `~Together`, `NamesFit` and
  zeInit is asked for all classes (`InitFlags \subseteq {Class}`).
- `OrderIsDocumented`: `Spec => []DocumentedOrder`, if `~Together`, `GpusApart`
  and `PciForGpus`.

The run `loader_init` meets all hypotheses, and each excludes something the code does.
`~Together`: calls are alone until the drivers are sorted; else a driver is
skipped (`loader_race`) or found twice (`MCLoaderInitTwice`). `NamesFit`: the
type discovery gives a library selects it for the classes of its devices; else a
driver is not loaded for a request it would answer. A zeInit for one
class only makes zeDriverGet's answer depend on later calls (section 5).
`PciForGpus`: ZE_ENABLE_PCI_ID_DEVICE_ORDER is used with drivers of GPUs only
(`MCLoaderInitOrder`). `GpusApart`: a driver of GPUs and other devices has
both kinds of GPUs; else the code does not take it for a mixed one (section 5).

What a sort or a loop computes is a function on numbers, and is reasoned about
by induction over them: `SetInduction` follows from the well-foundedness of the
natural numbers, without the induction theorems that take an operator.

- The sort is a permutation (`SortedRearranges`: `Holds` is the induction's
  statement, one insertion per step), and ascends when the comparison is one of
  keys (`SortedAscends`): by the type without PCI ordering, against it among the
  three types of GPUs with it; not in general, since then the comparison is no
  order. `driverOrdering` is a permutation because the places taken from are
  ranked by a total order (`Ranking`), whatever the specifications ask for.
- `KeptInv`: every driver discovered is in the vector once. `Alone` and `Queried`
  say that discovery comes once and the sort after it.
- `LoadInv`: what a loading loop has gone past is loaded, if its library loads
  and the classes asked for, or its type, select it (`Passed`). This needs that
  the type a driver has while it is not loaded is its library's (`SoundDriver`),
  so that the sort, which types anew only what answers, changes nothing in it.
- `Answers`: at each turn of the last loop the answer is the names, among those
  passed, of the drivers due (`Chosen`), and what was answered before is what the
  whole vector gives. The vector's names are fixed once it is sorted, which is
  why answers agree though drivers are loaded between them.
- `Legacies`: at most one call of zeInit runs, the drivers behind it have their
  result (`Told`), and nothing changes a result but zeInit.
- `OrderInv`: the types of the sorted vector are in order (`InOrder`), and an
  answer's drivers have places in it that ascend (`Along`).

`HandleFactory_proofs` proves, for any threads, drivers and addresses, if drivers
do not reuse an address too early (`~Recycle`; `factory_race` shows the need):

- `HandlesAreTranslated`: `Spec => [](TypeOK /\ HandlesResolve /\
  NothingLeftBehind /\ ArgumentsTranslated /\ NoStaleArguments)`.

Each address is then the business of one call at most (`OneCall`), an entry of a
factory belongs to the object that is there or to the call about to release it
(`MapInv`), so that no two entries share a loader object (`EntriesDiffer`); and
while the driver destroys an image or a sampler its argument entry is already
gone (`StageInv`).

`HandleLifetime_proofs` proves, for any threads, addresses and kinds:

- `HandlesTracked`: `Spec => [](TypeOK /\ ValidWhileLive /\
  DependentsAreChildren /\ DestroysAreLegal)`.
- `DriverIsProtected`: `Spec => ImplementsDriverObjects`.
- `ListsTracked`: `Spec => []ListCallsAreLegal`.

That a valid handle is a live object does not follow from itself: a call in the
driver might be destroying what another is making from. `CallsInv` says what the
calls on their way hold: the handle a create is made from stays while it runs,
what a destroy is about to end is live and has no children, what a create has
made is its own; `Apart` says it for every two calls, and rests on the thread
rules (`Undisturbed`). `ParentsInv` says that parents are never half made.
For lists the layer and the driver agree only while no close or reset is on its
way (`OpenIsRecording`), and `Ahead` says that the layer then is the one ahead;
what an append or an execution found open or closed stays so until it reaches the
driver, because a close or a reset excludes it (`Exclusive`).

`GraphCycles_proofs` proves, for any number of nodes:

- `RanksAreTopological`: `GraphSpec => [](GraphTypeOK /\ CheckInvariants)`.
- `CyclesAreRefused`: `GraphSpec => ImplementsAcyclicGraph`.

The invariant is about what the searches leave out. `Forwards`: what has been
found forward, with what has rank above the source, is closed under the edges;
so when the source is not met it cannot be reached, and the edge is right to be
accepted. `Backwards`: the same against the edges, down to the target's rank;
the nodes found backward were then not found forward, so that one set of marks
serves both searches. `Reorder` gives the found nodes the ranks they had, those
found backward first: a node found backward moves down, one found forward moves
up (`ReorderMoves`, by counting the ranks below a node's), and an edge that
leaves the found nodes keeps its order. `Reaches` is
stated with sets closed under the edges, so that no induction over paths is
needed.

`EventsChecker_proofs` carries both over to the checker:

- `CheckerUsesGraph`: `Spec => [](GraphTypeOK /\ CheckInvariants) /\
  ImplementsAcyclicGraph`. `Maps` says that the checker's numbers are nodes.
- `CheckerTypes`: `Spec => []TypeOK`.
- `CirclesAreWarnedOf`: `Spec => ImplementsEventWaits`.

The circles an application is warned of are over uses of events, the graph's over
nodes. `UseInv` makes the two correspond: a use has one node at most, and an
event without a node is at a use that nothing waits for yet. Nodes of actions
that signal no event have no edge out (`EdgeInv`), and so are on no circle; then
a node reaches another in the graph just when its use waits for the other's
(`UsesReach`). `AskInv` and `SignalInv` tie the insertion under way to the event
looked at and to the signal event's present use, so that `CyclesAreRefused`
answers the abstract question.

Every safety invariant, action property and refinement of a passing run is
proved. Only model-checked: the liveness properties `DestroyReturns`,
`DisabledFallsSilent` and `CallsReturnWhenQuiet` (liveness under fairness needs
ENABLED, which the prover's backends do not handle), and that the violations are
there, which a run shows. With store buffers only `ArraysCorrect` holds
(`arrays_store_buffer`).

## 7. Not modelled

See `PROJECT.json`, "components", for every part and the reason. In short: the
generated entry points and argument checks hold no state; printing, logging,
resource sampling, the bindings and the samples are I/O; teardown is a walk
through a map, and undefined behaviour where calls overlap it; memory orders
weaker than x86-TSO are left out.

About nine lines in ten of the implementation are generated: the API headers
(declarations and comments), the entry points of `source/lib`, the intercepts of
`source/loader/*_ldrddi.cpp`, the tracing wrappers and the validation layer's
functions and their argument checks. They are copies of a handful of shapes, one
per API function; each shape that has control is modelled once (the traced call
in `TracerArrays`, create and destroy with translation in `HandleFactory`,
prologue, driver and registration in `HandleLifetime`) and mapped to the copies
whose names it bears. The share of lines that the map covers is therefore small,
and modelling more copies would say nothing more of the code.

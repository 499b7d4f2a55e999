----------------------------- MODULE LoaderInit -----------------------------
(***************************************************************************)
(* Initialisation in the loader, with several drivers (interception).      *)
(* zeInit runs once per process; zeInitDrivers initialises the loader once *)
(* and then, on every call and with no lock, loads the drivers of the      *)
(* types wanted, sorts the vector of drivers if no call has done so, and   *)
(* asks every loaded driver for its handles; zeDriverGet does the last two *)
(* only.  The loops hold references into the vector that the sort moves.   *)
(*                                                                         *)
(* The sort is one step here.  In the code it moves one driver at a time,  *)
(* and a loop of another thread may see a driver twice or half moved: the  *)
(* model has fewer outcomes than the code wherever calls overlap a sort.   *)
(* Functions of a loaded driver succeed; program instrumentation, which    *)
(* turns sorting off, and sysman's copy of the vector are left out.        *)
(***************************************************************************)
EXTENDS Integers, Sequences, FiniteSets, SequencesExt

CONSTANTS
  Thread, Driver, None,
  Devices,         \* the kinds of devices of a driver
  Advertised,      \* the type discovery gives a driver, by the name of its library
  Environments,    \* bound: the drivers found, those that do not load, and the settings
  InitFlags, Descs,\* bounds: the classes asked for, of zeInit and zeInitDrivers
  Together         \* calls may overlap the one that sorts

Class == {"GPU", "NPU"}

\* zel_driver_type_t
DISCRETE_GPU   == 0
GPU            == 1
INTEGRATED_GPU == 2
MIXED          == 3
OTHER_TYPE     == 4
NPU            == 5
FORCE_UINT32   == 2147483647

DriverType == (DISCRETE_GPU .. NPU) \cup {FORCE_UINT32}

\* An entry of ZEL_DRIVERS_ORDER: all drivers of some types, or the one at an index among them.
DriverOrderSpec == [types : SUBSET DriverType, index : Nat \cup {None}]

ASSUME DevicesAssumption == Devices \in [Driver -> SUBSET {"discrete", "integrated", "npu", "other"}]
ASSUME AdvertisedAssumption == Advertised \in [Driver -> DriverType]
ASSUME EnvironmentAssumption ==
  \A e \in Environments :
    /\ e.discovered \in Seq(Driver) /\ IsInjective(e.discovered) /\ Len(e.discovered) > 1
    /\ e.broken \subseteq Driver
    /\ e.pciOrderingRequested \in BOOLEAN
    /\ e.order \in Seq(DriverOrderSpec)
ASSUME RequestAssumption == InitFlags \cup Descs \subseteq (SUBSET Class) \ {{}}
ASSUME TogetherAssumption == Together \in BOOLEAN

VARIABLES
  env,
  zeDrivers,               \* the vector of drivers
  driverEnvironmentQueried,
  initOnce, initOnceDrivers, coreDriverSortOnce,
  pc, call,
  given                    \* the first answer to each request

onceVars == <<initOnce, initOnceDrivers, coreDriverSortOnce>>
vars == <<env, zeDrivers, driverEnvironmentQueried, onceVars, pc, call, given>>

driver_t == [name : Driver, driverType : DriverType, handle : BOOLEAN, ddiInitialized : BOOLEAN,
             initStatus : BOOLEAN, legacyInitAttempted : BOOLEAN]

Api == {"zeInit", "zeInitDrivers", "zeDriverGet"}

\* i: the loop's place in the vector; end: where it ends.
Call == [api : Api, want : SUBSET Class, i : Nat, end : Nat, answer : Seq(Driver)]

NoCall == [api |-> "zeInit", want |-> {}, i |-> 0, end |-> 0, answer |-> <<>>]

Request == Api \X SUBSET Class

Stage == {"idle", "query", "discover", "init", "tables", "pfnInit", "sort", "get"}

TypeOK ==
  /\ env \in Environments
  /\ zeDrivers \in Seq(driver_t)
  /\ driverEnvironmentQueried \in BOOLEAN
  /\ initOnce \in {"no", "running", "done"} /\ initOnceDrivers \in {"no", "running", "done"}
  /\ coreDriverSortOnce \in BOOLEAN
  /\ pc \in [Thread -> Stage]
  /\ call \in [Thread -> Call]
  /\ given \in [Request -> Seq(Driver) \cup {None}]

Init ==
  /\ env \in Environments
  /\ zeDrivers = <<>>
  /\ driverEnvironmentQueried = FALSE
  /\ initOnce = "no" /\ initOnceDrivers = "no" /\ coreDriverSortOnce = FALSE
  /\ pc = [t \in Thread |-> "idle"]
  /\ call = [t \in Thread |-> NoCall]
  /\ given = [r \in Request |-> None]

-----------------------------------------------------------------------------
(* Which drivers a call is about *)

\* The class of flag that a driver answers to, by its devices.
Matches(d, want) ==
  \/ "GPU" \in want /\ Devices[d] \cap {"discrete", "integrated"} # {}
  \/ "NPU" \in want /\ Devices[d] \cap {"npu", "other"} # {}

Custom(drv) == Advertised[drv.name] = FORCE_UINT32

\* Mutant: flags for both classes select the drivers of one.
SelectedByFirstFlag(drv, want) ==
  IF "GPU" \in want THEN drv.driverType \in {GPU, DISCRETE_GPU, INTEGRATED_GPU}
                    ELSE drv.driverType \in {NPU, OTHER_TYPE}

\* init_driver: the driver is to be loaded.
Selected(drv, want) ==
  \/ Custom(drv)
  \/ "GPU" \in want /\ drv.driverType \in {GPU, DISCRETE_GPU, INTEGRATED_GPU}
  \/ "NPU" \in want /\ drv.driverType \in {NPU, OTHER_TYPE}

Usable(drv) == drv.handle /\ drv.ddiInitialized

-----------------------------------------------------------------------------
(* Sorting *)

\* The type of a driver with these devices.
TypeOfDevices(kinds) ==
  CASE {"integrated", "discrete"} \subseteq kinds /\ kinds \cap {"other", "npu"} # {} -> MIXED
    [] {"integrated", "discrete"} = kinds -> GPU
    [] "integrated" \in kinds /\ "discrete" \notin kinds -> INTEGRATED_GPU
    [] "discrete" \in kinds /\ "integrated" \notin kinds -> DISCRETE_GPU
    [] kinds \cap {"integrated", "discrete"} = {} /\ "npu" \in kinds -> NPU
    [] kinds = {"other"} -> OTHER_TYPE

\* The type of a driver that answers is set anew; desc: through zeInitDrivers.
Typed(drv, desc) ==
  LET kinds == Devices[drv.name]
      answers == drv.ddiInitialized /\ (desc \/ (drv.initStatus /\ drv.legacyInitAttempted))
  IN
  IF ~answers \/ kinds = {} \/ (drv.driverType = NPU /\ "npu" \notin kinds) THEN drv
  ELSE [drv EXCEPT !.driverType = TypeOfDevices(kinds)]

\* Mutant: the order of ZE_ENABLE_PCI_ID_DEVICE_ORDER, always.
sortDescending(a, b) == a.driverType > b.driverType

driverSortComparator(a, b) ==
  IF env.pciOrderingRequested
  THEN CASE a.driverType = OTHER_TYPE -> FALSE
         [] a.driverType = MIXED -> b.driverType = OTHER_TYPE
         [] OTHER -> a.driverType > b.driverType
  ELSE a.driverType < b.driverType

\* std::sort of up to 16 drivers, with libstdc++.
Inserted(sorted, drv) ==
  LET notAfter == {k \in DOMAIN sorted : ~driverSortComparator(drv, sorted[k])} IN
  IF sorted # <<>> /\ 1 \notin notAfter THEN <<drv>> \o sorted
  ELSE InsertAt(sorted, 1 + Max({0} \cup notAfter), drv)

Sorted(drivers) ==
  LET sorted[n \in 0..Len(drivers)] == IF n = 0 THEN <<>> ELSE Inserted(sorted[n - 1], drivers[n])
  IN sorted[Len(drivers)]

\* An entry asks for the driver at place k.
Asks(drivers, spec, k) ==
  /\ drivers[k].driverType \in spec.types
  /\ spec.index \in {None, Cardinality({j \in 1..(k - 1) : drivers[j].driverType \in spec.types})}

\* The drivers that entries ask for, each at its first entry, and of one entry as they were.
OrderedBy(entries, drivers) ==
  LET entriesOf(k) == {e \in DOMAIN entries : Asks(drivers, entries[e], k)}
      places == {k \in DOMAIN drivers : entriesOf(k) # {}}
      before(k) == {j \in places : \/ Min(entriesOf(j)) < Min(entriesOf(k))
                                   \/ Min(entriesOf(j)) = Min(entriesOf(k)) /\ j < k}
  IN [n \in 1..Cardinality(places) |-> drivers[CHOOSE k \in places : Cardinality(before(k)) = n - 1]]

\* Mutant: drivers not named in ZEL_DRIVERS_ORDER are lost.
orderNamedOnly(drivers) == OrderedBy(env.order, drivers)

\* Every driver once, those that ZEL_DRIVERS_ORDER names first.
driverOrdering(drivers) ==
  OrderedBy(Append(env.order, [types |-> DriverType, index |-> None]), drivers)

driverSorting(desc) ==
  driverOrdering(Sorted([k \in DOMAIN zeDrivers |-> Typed(zeDrivers[k], desc)]))

-----------------------------------------------------------------------------
(* Calls *)

\* Until the drivers are sorted a call is alone, unless calls may overlap.
MayBegin(t) ==
  /\ pc[t] = "idle"
  /\ Together \/ coreDriverSortOnce \/ \A u \in Thread : pc[u] = "idle"

Go(t, stage, c) ==
  /\ pc' = [pc EXCEPT ![t] = stage]
  /\ call' = [call EXCEPT ![t] = c]

\* A loop over the vector begins.
Loop(t, stage, c) == Go(t, stage, [c EXCEPT !.i = 1, !.end = Len(zeDrivers')])

In(t, stage) == pc[t] = stage /\ call[t].i <= call[t].end

Ended(t, stage) == pc[t] = stage /\ call[t].i > call[t].end

Forward(c) == [c EXCEPT !.i = @ + 1]

\* A later zeInit returns the first one's result at once.
zeInit(t, want) ==
  /\ MayBegin(t)
  /\ initOnce = "no"
  /\ initOnce' = "running"
  /\ Go(t, "query", [NoCall EXCEPT !.api = "zeInit", !.want = want])
  /\ UNCHANGED <<env, zeDrivers, driverEnvironmentQueried, initOnceDrivers, coreDriverSortOnce, given>>

zeInitDrivers(t, want) ==
  LET c == [NoCall EXCEPT !.api = "zeInitDrivers", !.want = want] IN
  /\ MayBegin(t)
  /\ \/ /\ initOnceDrivers = "no"
        /\ initOnceDrivers' = "running"
        /\ Go(t, "query", c)
        /\ UNCHANGED zeDrivers
     \/ /\ initOnceDrivers = "done"
        /\ UNCHANGED <<zeDrivers, initOnceDrivers>>
        /\ Loop(t, "init", c)
  /\ UNCHANGED <<env, driverEnvironmentQueried, initOnce, coreDriverSortOnce, given>>

\* Of an application that has called zeInit.
zeDriverGet(t) ==
  /\ MayBegin(t)
  /\ initOnce = "done"
  /\ Go(t, "sort", [NoCall EXCEPT !.api = "zeDriverGet"])
  /\ UNCHANGED <<env, zeDrivers, driverEnvironmentQueried, onceVars, given>>

-----------------------------------------------------------------------------
(* The loader's context is initialised *)

ContextReady(t) ==
  /\ initOnceDrivers' = IF call[t].api = "zeInitDrivers" THEN "done" ELSE initOnceDrivers
  /\ Loop(t, "init", call[t])
  /\ UNCHANGED <<env, initOnce, coreDriverSortOnce, given>>

\* The plain flag is read.
Query(t) ==
  /\ pc[t] = "query"
  /\ UNCHANGED <<zeDrivers, driverEnvironmentQueried>>
  /\ IF driverEnvironmentQueried THEN ContextReady(t)
     ELSE Go(t, "discover", call[t]) /\ UNCHANGED <<env, onceVars, given>>

Discover(t) ==
  /\ pc[t] = "discover"
  /\ zeDrivers' = zeDrivers \o
       [k \in DOMAIN env.discovered |->
          [name |-> env.discovered[k], driverType |-> Advertised[env.discovered[k]],
           handle |-> FALSE, ddiInitialized |-> FALSE, initStatus |-> TRUE, legacyInitAttempted |-> FALSE]]
  /\ driverEnvironmentQueried' = TRUE
  /\ ContextReady(t)

-----------------------------------------------------------------------------
(* The loop that initialises drivers *)

Drv(t) == zeDrivers[call[t].i]

Proceed(t, stage, drv, c) ==
  /\ zeDrivers' = [zeDrivers EXCEPT ![call[t].i] = drv]
  /\ Go(t, stage, c)
  /\ UNCHANGED <<env, driverEnvironmentQueried, onceVars, given>>

Legacy(t) == call[t].api = "zeInit"

\* A driver that failed zeInit is not tried again; zeInitDrivers passes by what is loaded.
NothingToDo(t) ==
  /\ In(t, "init")
  /\ IF Legacy(t) THEN ~Drv(t).initStatus ELSE Usable(Drv(t))
  /\ Proceed(t, "init", Drv(t), Forward(call[t]))

AlreadyLoaded(t) ==
  /\ In(t, "init") /\ Legacy(t) /\ Drv(t).initStatus /\ Usable(Drv(t))
  /\ Proceed(t, "pfnInit", Drv(t), call[t])

\* init_driver, first half: the library.
LoadLibrary(t) ==
  LET drv == Drv(t)
      loaded == drv.handle \/ (Selected(drv, call[t].want) /\ drv.name \notin env.broken)
  IN
  /\ In(t, "init") /\ (Legacy(t) => drv.initStatus) /\ ~Usable(drv)
  /\ IF loaded THEN Proceed(t, "tables", [drv EXCEPT !.handle = TRUE], call[t])
               ELSE Proceed(t, "init", [drv EXCEPT !.ddiInitialized = FALSE], Forward(call[t]))

\* Second half: the tables.
InitTables(t) ==
  LET drv == [Drv(t) EXCEPT !.ddiInitialized = Drv(t).handle] IN
  /\ pc[t] = "tables"
  /\ IF Legacy(t) /\ drv.handle THEN Proceed(t, "pfnInit", drv, call[t])
                                ELSE Proceed(t, "init", drv, Forward(call[t]))

\* The driver's zeInit, if it has one.
PfnInit(t) ==
  LET drv == Drv(t) IN
  /\ pc[t] = "pfnInit"
  /\ Proceed(t, "init",
       [drv EXCEPT !.initStatus = Usable(drv) /\ Matches(drv.name, call[t].want),
                   !.legacyInitAttempted = @ \/ Usable(drv)],
       Forward(call[t]))

Initialised(t) ==
  /\ Ended(t, "init")
  /\ IF Legacy(t) THEN initOnce' = "done" /\ Go(t, "idle", NoCall)
                  ELSE UNCHANGED initOnce /\ Go(t, "sort", call[t])
  /\ UNCHANGED <<env, zeDrivers, driverEnvironmentQueried, initOnceDrivers, coreDriverSortOnce, given>>

-----------------------------------------------------------------------------
(* Sorting, once, with a lock, and the loop that asks for handles *)

\* Mutant: sorted by every call.
SortAgain(t) ==
  /\ pc[t] = "sort"
  /\ zeDrivers' = driverSorting(call[t].api = "zeInitDrivers")
  /\ coreDriverSortOnce' = TRUE
  /\ Loop(t, "get", call[t])
  /\ UNCHANGED <<env, driverEnvironmentQueried, initOnce, initOnceDrivers, given>>

Sort(t) ==
  /\ pc[t] = "sort"
  /\ zeDrivers' = IF coreDriverSortOnce THEN zeDrivers ELSE driverSorting(call[t].api = "zeInitDrivers")
  /\ coreDriverSortOnce' = TRUE
  /\ Loop(t, "get", call[t])
  /\ UNCHANGED <<env, driverEnvironmentQueried, initOnce, initOnceDrivers, given>>

Reports(drv, c) ==
  /\ drv.ddiInitialized
  /\ IF c.api = "zeInitDrivers" THEN Matches(drv.name, c.want) ELSE drv.initStatus

\* Mutant: a driver with nothing to report still takes a place.
AskAndKeepPlace(t) ==
  LET drv == Drv(t)
      c == call[t]
      handles == IF Reports(drv, c) THEN <<drv.name>> ELSE <<None>>
  IN
  /\ In(t, "get")
  /\ Proceed(t, "get", drv, [Forward(c) EXCEPT !.answer = @ \o handles])

Ask(t) ==
  LET drv == Drv(t)
      c == call[t]
      handles == IF Reports(drv, c) THEN <<drv.name>> ELSE <<>>
  IN
  /\ In(t, "get")
  /\ Proceed(t, "get", drv, [Forward(c) EXCEPT !.answer = @ \o handles])

RequestOf(c) == <<c.api, c.want>>

Return(t) ==
  LET c == call[t] IN
  /\ Ended(t, "get")
  /\ given' = [given EXCEPT ![RequestOf(c)] = IF @ = None THEN c.answer ELSE @]
  /\ Go(t, "idle", NoCall)
  /\ UNCHANGED <<env, zeDrivers, driverEnvironmentQueried, onceVars>>

-----------------------------------------------------------------------------

Next ==
  \E t \in Thread :
    \/ \E want \in InitFlags : zeInit(t, want)
    \/ \E want \in Descs : zeInitDrivers(t, want)
    \/ zeDriverGet(t)
    \/ Query(t) \/ Discover(t)
    \/ NothingToDo(t) \/ AlreadyLoaded(t) \/ LoadLibrary(t) \/ InitTables(t) \/ PfnInit(t) \/ Initialised(t)
    \/ Sort(t) \/ Ask(t) \/ Return(t)

Spec == Init /\ [][Next]_vars

-----------------------------------------------------------------------------
(* Properties *)

Answered(t) == Ended(t, "get")

(* Discovery, sorting and ZEL_DRIVERS_ORDER lose no driver and double none. *)
DriversKept ==
  driverEnvironmentQueried =>
    \A d \in ToSet(env.discovered) : Cardinality({k \in DOMAIN zeDrivers : zeDrivers[k].name = d}) = 1

(* zeInitDrivers returns the drivers of the classes asked for, each once,   *)
(* whatever other calls loaded before or load meanwhile.                    *)
RequestedDriversReturned ==
  \A t \in Thread : Answered(t) /\ call[t].api = "zeInitDrivers" =>
    /\ ToSet(call[t].answer) = {d \in ToSet(env.discovered) \ env.broken : Matches(d, call[t].want)}
    /\ IsInjective(call[t].answer)

(* "Multiple calls to this function will return identical driver handles,   *)
(* in the same order", whatever is loaded in between.                       *)
IdenticalHandles ==
  \A t \in Thread : Answered(t) =>
    given[RequestOf(call[t])] \in {None, call[t].answer}

\* README.md: discrete, discrete and integrated, integrated GPUs, mixed devices, other devices.
DocumentedRank(d) ==
  LET kinds == Devices[d] IN
  CASE kinds = {"discrete"} -> IF env.pciOrderingRequested THEN 3 ELSE 1
    [] kinds = {"discrete", "integrated"} -> 2
    [] kinds = {"integrated"} -> IF env.pciOrderingRequested THEN 1 ELSE 3
    [] kinds \cap {"discrete", "integrated"} = {} -> 5
    [] OTHER -> 4

(* Drivers come in the documented order, unless the user asks for another   *)
(* or some of them were not loaded yet when the drivers were sorted.        *)
DocumentedOrder ==
  \A t \in Thread :
    LET answer == call[t].answer IN
    /\ Answered(t) /\ env.order = <<>>
    /\ \A k \in DOMAIN zeDrivers :
         LET kinds == Devices[zeDrivers[k].name] IN
         kinds # {} /\ zeDrivers[k].driverType = TypeOfDevices(kinds)
    => \A j, k \in DOMAIN answer : j < k => DocumentedRank(answer[j]) <= DocumentedRank(answer[k])

=============================================================================

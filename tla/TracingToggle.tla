---------------------------- MODULE TracingToggle ----------------------------
(***************************************************************************)
(* Tracing switched on and off while the program runs                      *)
(* (zelEnableTracingLayer, zelDisableTracingLayer).  A counter says how    *)
(* many users want it.  Two pointers follow the counter, the tables through*)
(* which core and runtime API calls go, and so does one gate inside each   *)
(* driver, behind which the driver calls the wrappers of ExtensionTracing. *)
(* The gates stay closed until an extension callback is registered for the *)
(* first time, whoever comes first opens them, and a driver that is        *)
(* initialised later opens its own.  Only the counter, the latch and each  *)
(* pointer are atomic: nothing protects an operation as a whole.           *)
(***************************************************************************)
EXTENDS Integers, FiniteSets

CONSTANTS
  Thread, Driver,
  MaxCounter,      \* bound: how many enables may be outstanding
  DisableAlone,    \* TRUE: the application makes no other call of this module during a disable
  InitAnytime,     \* TRUE: zeInit, zeInitDrivers or zesInit may be the first of its kind at any time
  RegisterEarly    \* TRUE: callbacks are registered also while drivers are not yet initialised

ASSUME ToggleAssumption ==
  /\ MaxCounter \in Nat \ {0}
  /\ DisableAlone \in BOOLEAN /\ InitAnytime \in BOOLEAN /\ RegisterEarly \in BOOLEAN

Table == {"ze", "zer"}

VARIABLES
  (* ze_lib::context *)
  tracingLayerEnableCounter,
  ddiTable,                \* whose functions each of the two tables holds
  (* loader::context *)
  tracingLayerEnabled,     \* ZE_ENABLE_TRACING_LAYER, for the life of the process
  anyExtensionCallbackRegistered,  \* the latch
  zeDrivers,               \* the drivers discovered
  ddiInitialized,          \* those whose table of functions is filled
  driverEnableTracingResolved,
  pfnDriverEnableTracing,  \* those whose hook is cached
  initsLeft,               \* the once_flags of zeInit, zeInitDrivers and zesInit still unused
  (* the drivers *)
  capable,                 \* those that implement zelDriverEnableTracing
  gateOpen,
  (* the calls on their way *)
  op, step,
  todo,                    \* the drivers left to visit
  at                       \* the driver being resolved or initialised

tableVars  == <<tracingLayerEnableCounter, ddiTable>>
hookVars   == <<driverEnableTracingResolved, pfnDriverEnableTracing>>
fixedVars  == <<tracingLayerEnabled, zeDrivers, capable>>
opVars     == <<op, step, todo, at>>
vars == <<tableVars, hookVars, fixedVars, anyExtensionCallbackRegistered, ddiInitialized,
          initsLeft, gateOpen, opVars>>

Op == {"none", "enable", "disable", "register", "initDriver", "init"}

TypeOK ==
  /\ tracingLayerEnableCounter \in 0..MaxCounter
  /\ ddiTable \in [Table -> {"initial", "tracing"}]
  /\ tracingLayerEnabled \in BOOLEAN
  /\ anyExtensionCallbackRegistered \in BOOLEAN
  /\ zeDrivers \subseteq Driver /\ capable \subseteq Driver
  /\ ddiInitialized \subseteq zeDrivers
  /\ driverEnableTracingResolved \subseteq zeDrivers
  /\ pfnDriverEnableTracing \subseteq capable
  /\ initsLeft \in 0..2
  /\ gateOpen \subseteq capable
  /\ op \in [Thread -> Op]
  /\ step \in [Thread -> {"idle", "load", "resolve", "claim", "probe", "cache", "call",
                          "ze", "zer", "latch", "count", "visit"}]
  /\ todo \in [Thread -> SUBSET zeDrivers]
  /\ at \in [Thread -> SUBSET zeDrivers]

(* After the first initialisation.  A single driver is called without the   *)
(* loader in between: its table is filled from the start and init_driver    *)
(* never sees it.  Of several, those that match the first initialisation    *)
(* have been through init_driver, which resolved their hook.                *)
Init ==
  /\ tracingLayerEnableCounter = 0
  /\ ddiTable = [x \in Table |-> "initial"]
  /\ tracingLayerEnabled \in BOOLEAN
  /\ anyExtensionCallbackRegistered = FALSE
  /\ zeDrivers \in (SUBSET Driver) \ {{}}
  /\ initsLeft = 2
  /\ capable \in SUBSET zeDrivers
  /\ ddiInitialized \in (SUBSET zeDrivers) \ {{}}
  /\ \/ driverEnableTracingResolved = ddiInitialized
     \/ Cardinality(zeDrivers) = 1 /\ driverEnableTracingResolved = {}
  /\ pfnDriverEnableTracing = driverEnableTracingResolved \cap capable
  /\ gateOpen = {}
  /\ op = [t \in Thread |-> "none"]
  /\ step = [t \in Thread |-> "idle"]
  /\ todo = [t \in Thread |-> {}]
  /\ at = [t \in Thread |-> {}]

-----------------------------------------------------------------------------
(* Beginning and ending a call *)

None(kinds) == \A u \in Thread : op[u] \notin kinds

\* What the application does at the same time.
MayBegin(t, kind) ==
  /\ op[t] = "none"
  /\ DisableAlone =>
       /\ None({"disable"})
       /\ kind = "disable" => None(Op \ {"none"})
  /\ ~InitAnytime =>
       /\ None({"init"})
       /\ kind = "init" => None(Op \ {"none"}) /\ tracingLayerEnableCounter = 0

Begin(t, kind, first) ==
  /\ op' = [op EXCEPT ![t] = kind]
  /\ step' = [step EXCEPT ![t] = first]
  /\ UNCHANGED <<todo, at>>

Go(t, next) == step' = [step EXCEPT ![t] = next] /\ UNCHANGED <<op, todo, at>>

End(t) ==
  /\ op' = [op EXCEPT ![t] = "none"]
  /\ step' = [step EXCEPT ![t] = "idle"]
  /\ todo' = [todo EXCEPT ![t] = {}]
  /\ at' = [at EXCEPT ![t] = {}]

\* Go through the drivers of a set, or end if there is none.
Visit(t, drivers) ==
  IF drivers = {} THEN End(t)
  ELSE /\ step' = [step EXCEPT ![t] = "visit"]
       /\ todo' = [todo EXCEPT ![t] = drivers]
       /\ at' = [at EXCEPT ![t] = {}]
       /\ UNCHANGED op

-----------------------------------------------------------------------------
(* The counter and the tables *)

\* Mutant: tracing starts with the second user.
SecondUser == tracingLayerEnableCounter = 1

FirstUser == tracingLayerEnableCounter = 0

zelEnableTracingLayer(t) ==
  /\ MayBegin(t, "enable")
  /\ tracingLayerEnableCounter < MaxCounter
  /\ tracingLayerEnableCounter' = tracingLayerEnableCounter + 1
  /\ IF FirstUser THEN Begin(t, "enable", "ze") ELSE UNCHANGED opVars
  /\ UNCHANGED <<ddiTable, hookVars, fixedVars, anyExtensionCallbackRegistered,
                 ddiInitialized, initsLeft, gateOpen>>

\* Mutant: every disable tears tracing down.
AnyUser == tracingLayerEnableCounter > 0

LastUser == tracingLayerEnableCounter = 1

\* Mutant: no guard against a disable without an enable.
Underflow == tracingLayerEnableCounter - 1

\* The loop of compare_exchange_weak.
Decremented ==
  IF tracingLayerEnableCounter > 0 THEN tracingLayerEnableCounter - 1 ELSE 0

zelDisableTracingLayer(t) ==
  /\ MayBegin(t, "disable")
  /\ tracingLayerEnableCounter' = Decremented
  /\ IF LastUser THEN Begin(t, "disable", "ze") ELSE UNCHANGED opVars
  /\ UNCHANGED <<ddiTable, hookVars, fixedVars, anyExtensionCallbackRegistered,
                 ddiInitialized, initsLeft, gateOpen>>

\* context_t::Init under a once_flag that is used for the first time, after
\* another of the three: it puts the initial tables back.
ContextInit(t) ==
  /\ MayBegin(t, "init")
  /\ initsLeft > 0
  /\ initsLeft' = initsLeft - 1
  /\ Begin(t, "init", "ze")
  /\ UNCHANGED <<tableVars, hookVars, fixedVars, anyExtensionCallbackRegistered,
                 ddiInitialized, gateOpen>>

NewTable(kind) == IF kind = "enable" THEN "tracing" ELSE "initial"

ExchangeTable(t) ==
  /\ step[t] \in Table
  /\ ddiTable' = [ddiTable EXCEPT ![step[t]] = NewTable(op[t])]
  /\ Go(t, IF step[t] = "ze" THEN "zer" ELSE "latch")
  /\ UNCHANGED <<tracingLayerEnableCounter, hookVars, fixedVars, anyExtensionCallbackRegistered,
                 ddiInitialized, initsLeft, gateOpen>>

-----------------------------------------------------------------------------
(* Who goes on to the gates *)

\* Mutant: enabling opens the gates whether or not anybody has a callback.
MovesAnyway(kind) == kind \in {"enable", "initDriver"}

\* A disable leaves the gates to the environment variable; an initialisation
\* opens them for it.
MovesGates(kind) ==
  /\ anyExtensionCallbackRegistered
  /\ CASE kind = "disable" -> ~tracingLayerEnabled
       [] kind = "init"    -> tracingLayerEnabled
       [] OTHER            -> TRUE

ReadLatch(t) ==
  /\ step[t] = "latch"
  /\ IF MovesGates(op[t])
     THEN IF op[t] = "initDriver" THEN Go(t, "count") ELSE Visit(t, zeDrivers)
     ELSE End(t)
  /\ UNCHANGED <<tableVars, hookVars, fixedVars, anyExtensionCallbackRegistered,
                 ddiInitialized, initsLeft, gateOpen>>

\* zelLoaderTracingLayerRegisterExtensionCallback: only the first one goes on.
RegisterExtensionCallback(t) ==
  /\ MayBegin(t, "register")
  /\ ~RegisterEarly => ddiInitialized = zeDrivers
  /\ anyExtensionCallbackRegistered' = TRUE
  /\ IF anyExtensionCallbackRegistered THEN UNCHANGED opVars ELSE Begin(t, "register", "count")
  /\ UNCHANGED <<tableVars, hookVars, fixedVars, ddiInitialized, initsLeft, gateOpen>>

\* Mutant: the counter is forgotten.
ByEnvironment == tracingLayerEnabled

Active == tracingLayerEnabled \/ tracingLayerEnableCounter > 0

ReadCounter(t) ==
  /\ step[t] = "count"
  /\ IF Active THEN Visit(t, IF op[t] = "register" THEN zeDrivers ELSE at[t]) ELSE End(t)
  /\ UNCHANGED <<tableVars, hookVars, fixedVars, anyExtensionCallbackRegistered,
                 ddiInitialized, initsLeft, gateOpen>>

-----------------------------------------------------------------------------
(* init_driver, for a driver that an earlier initialisation did not match *)

BeginInitDriver(t) ==
  /\ MayBegin(t, "initDriver")
  /\ \E d \in zeDrivers \ ddiInitialized :
       /\ op' = [op EXCEPT ![t] = "initDriver"]
       /\ step' = [step EXCEPT ![t] = "load"]
       /\ at' = [at EXCEPT ![t] = {d}]
  /\ UNCHANGED <<tableVars, hookVars, fixedVars, anyExtensionCallbackRegistered,
                 ddiInitialized, initsLeft, gateOpen, todo>>

LoadDriver(t) ==
  /\ step[t] = "load"
  /\ ddiInitialized' = ddiInitialized \cup at[t]
  /\ Go(t, "resolve")
  /\ UNCHANGED <<tableVars, hookVars, fixedVars, anyExtensionCallbackRegistered, initsLeft,
                 gateOpen>>

-----------------------------------------------------------------------------
(* enableDriverExtensionTracing for the drivers left to visit *)

VisitDriver(t) ==
  /\ step[t] = "visit"
  /\ \E d \in todo[t] : at' = [at EXCEPT ![t] = {d}]
  /\ step' = [step EXCEPT ![t] = "resolve"]
  /\ UNCHANGED <<tableVars, hookVars, fixedVars, anyExtensionCallbackRegistered,
                 ddiInitialized, initsLeft, gateOpen, op, todo>>

\* What comes after resolveDriverExtensionTracingHook: init_driver asks whether
\* to open the gate, all others set it.
AfterResolve(t) == IF todo[t] = {} THEN "latch" ELSE "call"

CheckResolved(t) ==
  /\ step[t] = "resolve"
  /\ Go(t, IF at[t] \subseteq driverEnableTracingResolved THEN AfterResolve(t) ELSE "claim")
  /\ UNCHANGED <<tableVars, hookVars, fixedVars, anyExtensionCallbackRegistered,
                 ddiInitialized, initsLeft, gateOpen>>

\* A driver without a table of functions, or without the hook, keeps none.
ClaimResolve(t) ==
  /\ step[t] = "claim"
  /\ driverEnableTracingResolved' = driverEnableTracingResolved \cup at[t]
  /\ pfnDriverEnableTracing' = pfnDriverEnableTracing \ at[t]
  /\ Go(t, IF at[t] \subseteq ddiInitialized \cap capable THEN "probe" ELSE AfterResolve(t))
  /\ UNCHANGED <<tableVars, fixedVars, anyExtensionCallbackRegistered, ddiInitialized,
                 initsLeft, gateOpen>>

\* The hook is called once to see whether it works, and closes the gate.
ProbeHook(t) ==
  /\ step[t] = "probe"
  /\ gateOpen' = gateOpen \ at[t]
  /\ Go(t, "cache")
  /\ UNCHANGED <<tableVars, hookVars, fixedVars, anyExtensionCallbackRegistered,
                 ddiInitialized, initsLeft>>

CacheHook(t) ==
  /\ step[t] = "cache"
  /\ pfnDriverEnableTracing' = pfnDriverEnableTracing \cup at[t]
  /\ Go(t, AfterResolve(t))
  /\ UNCHANGED <<tableVars, driverEnableTracingResolved, fixedVars,
                 anyExtensionCallbackRegistered, ddiInitialized, initsLeft, gateOpen>>

CallHook(t) ==
  /\ step[t] = "call"
  /\ LET hooked == at[t] \cap pfnDriverEnableTracing
     IN  gateOpen' = IF op[t] = "disable" THEN gateOpen \ hooked ELSE gateOpen \cup hooked
  /\ Visit(t, todo[t] \ at[t])
  /\ UNCHANGED <<tableVars, hookVars, fixedVars, anyExtensionCallbackRegistered,
                 ddiInitialized, initsLeft>>

-----------------------------------------------------------------------------
Call(t) ==
  \/ zelEnableTracingLayer(t) \/ zelDisableTracingLayer(t) \/ ContextInit(t)
  \/ RegisterExtensionCallback(t) \/ BeginInitDriver(t)

Step(t) ==
  \/ ExchangeTable(t) \/ ReadLatch(t) \/ ReadCounter(t) \/ LoadDriver(t) \/ VisitDriver(t)
  \/ CheckResolved(t) \/ ClaimResolve(t) \/ ProbeHook(t) \/ CacheHook(t) \/ CallHook(t)

Next == \E t \in Thread : Call(t) \/ Step(t)

Spec == Init /\ [][Next]_vars

-----------------------------------------------------------------------------
(* Properties *)

Quiet == None(Op \ {"none"})

(* With nothing on its way, API calls go through the tracing layer exactly if
   some enable is without its disable. *)
TablesFollowCounter ==
  Quiet => \A x \in Table :
    ddiTable[x] = IF tracingLayerEnableCounter > 0 THEN "tracing" ELSE "initial"

(* With nothing on its way, the gate of every usable driver that has one is
   open exactly if tracing is on and a callback was ever registered, whichever
   came first: "enabling the layer before or after registering a callback
   produces the same result", and "env-enabled and late-loaded drivers
   participate". *)
GatesFollowCounter ==
  Quiet => \A d \in ddiInitialized \cap capable :
    d \in gateOpen <=> /\ anyExtensionCallbackRegistered
                       /\ tracingLayerEnabled \/ tracingLayerEnableCounter > 0

(* No gate is open before the first callback is registered, at any moment:
   "enabling the tracing layer with no extension callbacks costs nothing". *)
GateNeedsCallback == gateOpen # {} => anyExtensionCallbackRegistered

(* "The Tracing Layer intercepts will not be removed until the reference count
   has reached 0." *)
InterceptsStay ==
  [][\A x \in Table :
       ddiTable[x] = "tracing" /\ ddiTable'[x] = "initial" => tracingLayerEnableCounter' = 0]_vars

-----------------------------------------------------------------------------
(* The inductive invariants.  The first holds whatever the application does; *)
(* the second needs its disables and late initialisations to be alone, the   *)
(* last two also that callbacks are registered only once every driver is     *)
(* initialised.                                                              *)

\* Whoever is about to open a gate has seen the latch, and whoever is about to
\* cache a hook has found a driver that has one.
GateInv ==
  /\ GateNeedsCallback
  /\ \A t \in Thread :
       /\ op[t] = "none" <=> step[t] = "idle"
       /\ step[t] \in {"count", "visit", "call"} \/ todo[t] # {} => anyExtensionCallbackRegistered
       /\ step[t] \in {"probe", "cache"} => at[t] \subseteq capable

\* The tables a call has yet to exchange.
Pending(t) == CASE step[t] = "ze"  -> Table
                [] step[t] = "zer" -> {"zer"}
                [] OTHER           -> {}

\* One call at a time is exchanging tables, the counter still says what it did
\* when that call began, and the tables nobody will exchange agree with it.
TableInv ==
  /\ \A t \in Thread : step[t] \in Table =>
       /\ op[t] \in {"enable", "disable", "init"}
       /\ op[t] = "enable" <=> tracingLayerEnableCounter > 0
       /\ \A u \in Thread : step[u] \in Table => u = t
  /\ \A t \in Thread : op[t] \in {"disable", "init"} =>
       \A u \in Thread : op[u] # "none" => u = t
  /\ \A x \in Table : (\A t \in Thread : x \notin Pending(t)) =>
       ddiTable[x] = IF tracingLayerEnableCounter > 0 THEN "tracing" ELSE "initial"

\* A driver that has the hook and is marked resolved has it cached, or whoever
\* marked it is about to cache it.
HookInv ==
  /\ capable \subseteq zeDrivers
  /\ anyExtensionCallbackRegistered => ddiInitialized = zeDrivers
  /\ driverEnableTracingResolved \subseteq ddiInitialized
  /\ \A t \in Thread :
       /\ \A d, e \in at[t] : d = e
       /\ step[t] # "load" => at[t] \subseteq ddiInitialized
       /\ step[t] \in {"probe", "cache", "call"} => at[t] \subseteq driverEnableTracingResolved
  /\ \A d \in driverEnableTracingResolved \cap capable :
       \/ d \in pfnDriverEnableTracing
       \/ \E t \in Thread : step[t] \in {"probe", "cache"} /\ d \in at[t]

\* What the calls on their way have done and seen.
CallInv ==
  \A t \in Thread :
    /\ step[t] = "idle" => todo[t] = {} /\ at[t] = {}
    /\ step[t] = "load" => op[t] = "initDriver" /\ todo[t] = {}
    /\ step[t] = "count" => op[t] \in {"register", "initDriver"}
    /\ step[t] = "latch" => op[t] # "register"
    /\ step[t] \in {"visit", "call"} => todo[t] # {}
    /\ todo[t] = {} /\ step[t] \in {"resolve", "claim", "probe", "cache"} => op[t] = "initDriver"
    /\ todo[t] # {} =>
         /\ at[t] \subseteq todo[t]
         /\ step[t] \in {"visit", "resolve", "claim", "probe", "cache", "call"}
         /\ op[t] = "disable" <=> ~Active
    /\ op[t] = "enable" => tracingLayerEnableCounter > 0
    /\ op[t] \in {"disable", "init"} => tracingLayerEnableCounter = 0

\* A call on its way that is still to open the gate of a driver, or to close it.
Opening(t, d) ==
  /\ op[t] # "disable"
  /\ \/ d \in todo[t]
     \/ op[t] = "enable" /\ step[t] \in Table \cup {"latch"}
     \/ op[t] = "register" /\ step[t] = "count"
     \/ op[t] = "initDriver" /\ d \in at[t]

Closing(t, d) == op[t] = "disable" /\ (step[t] \in Table \cup {"latch"} \/ d \in todo[t])

\* Every gate agrees with the counter and the latch, or some call is still to see to it.
OpenInv ==
  /\ \A d \in ddiInitialized \cap capable :
       anyExtensionCallbackRegistered /\ Active /\ d \notin gateOpen => \E t \in Thread : Opening(t, d)
  /\ \A d \in gateOpen : ~Active => \E t \in Thread : Closing(t, d)

=============================================================================

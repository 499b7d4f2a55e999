------------------------ MODULE TracingToggle_proofs ------------------------
(* Proofs about TracingToggle, for any sets of threads and drivers.        *)
EXTENDS TracingToggle, TLAPS

-----------------------------------------------------------------------------
(* Types and the latch *)

LEMMA GateInit == Init => TypeOK /\ GateInv
<1> SUFFICES ASSUME Init PROVE TypeOK /\ GateInv
  OBVIOUS
<1>1. TypeOK
  <2>1. tracingLayerEnableCounter \in 0..MaxCounter /\ initsLeft \in 0..2
    BY ToggleAssumption DEF Init
  <2>2. /\ zeDrivers \subseteq Driver /\ capable \subseteq Driver
        /\ ddiInitialized \subseteq zeDrivers
        /\ driverEnableTracingResolved \subseteq zeDrivers
        /\ pfnDriverEnableTracing \subseteq capable /\ gateOpen \subseteq capable
    BY DEF Init
  <2>3. QED BY <2>1, <2>2 DEF Init, TypeOK, Op
<1>2. GateInv
  BY DEF Init, GateInv, GateNeedsCallback
<1>3. QED BY <1>1, <1>2

LEMMA GateStep == TypeOK /\ GateInv /\ [Next]_vars => TypeOK' /\ GateInv'
<1> SUFFICES ASSUME TypeOK, GateInv, [Next]_vars
             PROVE  TypeOK' /\ GateInv'
  OBVIOUS
<1> USE ToggleAssumption DEF TypeOK, GateInv, GateNeedsCallback
<1>1. ASSUME NEW t \in Thread, zelEnableTracingLayer(t)
      PROVE  TypeOK' /\ GateInv'
  BY <1>1 DEF zelEnableTracingLayer, FirstUser, Begin, MayBegin, Op, hookVars, fixedVars, opVars
<1>2. ASSUME NEW t \in Thread, zelDisableTracingLayer(t)
      PROVE  TypeOK' /\ GateInv'
  BY <1>2 DEF zelDisableTracingLayer, LastUser, Decremented, Begin, MayBegin, Op, hookVars,
              fixedVars, opVars
<1>3. ASSUME NEW t \in Thread, ContextInit(t)
      PROVE  TypeOK' /\ GateInv'
  BY <1>3 DEF ContextInit, Begin, MayBegin, Op, tableVars, hookVars, fixedVars
<1>4. ASSUME NEW t \in Thread, RegisterExtensionCallback(t)
      PROVE  TypeOK' /\ GateInv'
  BY <1>4 DEF RegisterExtensionCallback, Begin, MayBegin, Op, tableVars, hookVars, fixedVars, opVars
<1>5. ASSUME NEW t \in Thread, BeginInitDriver(t)
      PROVE  TypeOK' /\ GateInv'
  BY <1>5 DEF BeginInitDriver, MayBegin, Op, tableVars, hookVars, fixedVars
<1>6. ASSUME NEW t \in Thread, ExchangeTable(t)
      PROVE  TypeOK' /\ GateInv'
  BY <1>6 DEF ExchangeTable, NewTable, Go, Table, hookVars, fixedVars
<1>7. ASSUME NEW t \in Thread, ReadLatch(t)
      PROVE  TypeOK' /\ GateInv'
  BY <1>7 DEF ReadLatch, MovesGates, Go, Visit, End, Op, tableVars, hookVars, fixedVars
<1>8. ASSUME NEW t \in Thread, ReadCounter(t)
      PROVE  TypeOK' /\ GateInv'
  BY <1>8 DEF ReadCounter, Visit, End, Op, tableVars, hookVars, fixedVars
<1>9. ASSUME NEW t \in Thread, LoadDriver(t)
      PROVE  TypeOK' /\ GateInv'
  BY <1>9 DEF LoadDriver, Go, tableVars, hookVars, fixedVars
<1>10. ASSUME NEW t \in Thread, VisitDriver(t)
       PROVE  TypeOK' /\ GateInv'
  BY <1>10 DEF VisitDriver, tableVars, hookVars, fixedVars
<1>11. ASSUME NEW t \in Thread, CheckResolved(t)
       PROVE  TypeOK' /\ GateInv'
  BY <1>11 DEF CheckResolved, AfterResolve, Go, tableVars, hookVars, fixedVars
<1>12. ASSUME NEW t \in Thread, ClaimResolve(t)
       PROVE  TypeOK' /\ GateInv'
  BY <1>12 DEF ClaimResolve, AfterResolve, Go, tableVars, fixedVars
<1>13. ASSUME NEW t \in Thread, ProbeHook(t)
       PROVE  TypeOK' /\ GateInv'
  BY <1>13 DEF ProbeHook, Go, tableVars, hookVars, fixedVars
<1>14. ASSUME NEW t \in Thread, CacheHook(t)
       PROVE  TypeOK' /\ GateInv'
  BY <1>14 DEF CacheHook, AfterResolve, Go, tableVars, fixedVars
<1>15. ASSUME NEW t \in Thread, CallHook(t)
       PROVE  TypeOK' /\ GateInv'
  BY <1>15 DEF CallHook, Visit, End, Op, tableVars, hookVars, fixedVars
<1>16. CASE UNCHANGED vars
  BY <1>16 DEF vars, tableVars, hookVars, fixedVars, opVars
<1>17. QED
  BY <1>1, <1>2, <1>3, <1>4, <1>5, <1>6, <1>7, <1>8, <1>9, <1>10, <1>11, <1>12, <1>13, <1>14,
     <1>15, <1>16 DEF Next, Call, Step

(* Whatever the application does at the same time, the counter keeps its bounds
   (a disable without an enable does not wrap it), only drivers that implement
   the hook have it cached or their gate opened, and no gate is open before the
   first callback is registered. *)
THEOREM GatesNeedCallbacks == Spec => [](TypeOK /\ GateNeedsCallback)
<1>1. TypeOK /\ GateInv => TypeOK /\ GateNeedsCallback
  BY DEF GateInv
<1>2. QED BY <1>1, GateInit, GateStep, PTL DEF Spec

-----------------------------------------------------------------------------
(* The tables *)

LEMMA TableInit == Init => TableInv
BY DEF Init, TableInv, Table, Pending

LEMMA TableStep ==
  ASSUME DisableAlone, ~InitAnytime
  PROVE  TypeOK /\ GateInv /\ TableInv /\ [Next]_vars => TableInv'
<1> SUFFICES ASSUME TypeOK, GateInv, TableInv, [Next]_vars
             PROVE  TableInv'
  OBVIOUS
<1> USE DEF TypeOK, TableInv, Pending, Table
<1>0. \A u \in Thread : op[u] = "none" <=> step[u] = "idle"
  BY DEF GateInv
<1>1. ASSUME NEW t \in Thread, zelEnableTracingLayer(t)
      PROVE  TableInv'
  BY <1>0, <1>1 DEF zelEnableTracingLayer, FirstUser, Begin, MayBegin, None, Op, opVars
<1>2. ASSUME NEW t \in Thread, zelDisableTracingLayer(t)
      PROVE  TableInv'
  BY <1>0, <1>2 DEF zelDisableTracingLayer, LastUser, Decremented, Begin, MayBegin, None, Op, opVars
<1>3. ASSUME NEW t \in Thread, ContextInit(t)
      PROVE  TableInv'
  BY <1>0, <1>3 DEF ContextInit, Begin, MayBegin, None, Op, tableVars
<1>4. ASSUME NEW t \in Thread, RegisterExtensionCallback(t) \/ BeginInitDriver(t)
      PROVE  TableInv'
  BY <1>0, <1>4
  DEF RegisterExtensionCallback, BeginInitDriver, Begin, MayBegin, None, Op, tableVars, opVars
<1>5. ASSUME NEW t \in Thread, ExchangeTable(t)
      PROVE  TableInv'
  BY <1>0, <1>5 DEF ExchangeTable, NewTable, Go
<1>6. ASSUME NEW t \in Thread, ReadLatch(t)
      PROVE  TableInv'
  BY <1>0, <1>6 DEF ReadLatch, Go, Visit, End, tableVars
<1>7. ASSUME NEW t \in Thread, ReadCounter(t)
      PROVE  TableInv'
  BY <1>0, <1>7 DEF ReadCounter, Visit, End, tableVars
<1>8. ASSUME NEW t \in Thread, CallHook(t)
      PROVE  TableInv'
  BY <1>0, <1>8 DEF CallHook, Visit, End, tableVars
<1>9. ASSUME NEW t \in Thread,
             \/ LoadDriver(t) \/ VisitDriver(t) \/ CheckResolved(t)
             \/ ClaimResolve(t) \/ ProbeHook(t) \/ CacheHook(t)
      PROVE  TableInv'
  <2>1. step[t] \notin Table /\ step'[t] \notin Table /\ UNCHANGED op /\ UNCHANGED tableVars
    BY <1>9
    DEF LoadDriver, VisitDriver, CheckResolved, ClaimResolve, ProbeHook, CacheHook, AfterResolve,
        Go, tableVars
  <2>2. \A u \in Thread \ {t} : step'[u] = step[u]
    BY <1>9
    DEF LoadDriver, VisitDriver, CheckResolved, ClaimResolve, ProbeHook, CacheHook, AfterResolve,
        Go
  <2>3. QED BY <2>1, <2>2 DEF tableVars
<1>10. CASE UNCHANGED vars
  BY <1>10 DEF vars, tableVars, opVars
<1>11. QED
  BY <1>1, <1>2, <1>3, <1>4, <1>5, <1>6, <1>7, <1>8, <1>9, <1>10 DEF Next, Call, Step

\* Only a disable or an initialisation takes the tracing table away, and the
\* counter is zero as long as it is at it.
LEMMA TableKept ==
  TypeOK /\ TableInv /\ [Next]_vars =>
    \A x \in Table : ddiTable[x] = "tracing" /\ ddiTable'[x] = "initial"
                       => tracingLayerEnableCounter' = 0
<1> SUFFICES ASSUME TypeOK, TableInv, [Next]_vars, NEW x \in Table,
                    ddiTable[x] = "tracing", ddiTable'[x] = "initial"
             PROVE  tracingLayerEnableCounter' = 0
  OBVIOUS
<1>1. ASSUME NEW t \in Thread, ExchangeTable(t)
      PROVE  tracingLayerEnableCounter' = 0
  BY <1>1 DEF ExchangeTable, NewTable, TypeOK, TableInv, Table
<1>2. ASSUME NEW t \in Thread, Call(t) \/ Step(t), ~ExchangeTable(t)
      PROVE  FALSE
  BY <1>2
  DEF Call, Step, zelEnableTracingLayer, zelDisableTracingLayer, ContextInit,
      RegisterExtensionCallback, BeginInitDriver, ReadLatch, ReadCounter, LoadDriver, VisitDriver,
      CheckResolved, ClaimResolve, ProbeHook, CacheHook, CallHook, tableVars
<1>3. QED BY <1>1, <1>2 DEF Next, vars, tableVars

(* For an application whose disables, and whose first calls of zeInit,
   zeInitDrivers and zesInit after the first of all, are alone, however its
   enables, registrations and driver initialisations interleave: at rest both
   tables are the tracing layer's exactly if some enable is without its
   disable, and no table is ever taken away while one is. *)
THEOREM TablesCorrect ==
  ASSUME DisableAlone, ~InitAnytime
  PROVE  Spec => []TablesFollowCounter /\ InterceptsStay
<1> DEFINE Inv == TypeOK /\ GateInv /\ TableInv
           Kept == \A x \in Table :
             ddiTable[x] = "tracing" /\ ddiTable'[x] = "initial" => tracingLayerEnableCounter' = 0
<1>1. Init => Inv
  BY GateInit, TableInit
<1>2. Inv /\ [Next]_vars => Inv'
  BY GateStep, TableStep
<1>3. Inv => TablesFollowCounter
  <2> SUFFICES ASSUME Inv, Quiet PROVE \A x \in Table : \A t \in Thread : x \notin Pending(t)
    BY DEF TablesFollowCounter, TableInv
  <2>1. \A t \in Thread : op[t] = "none"
    BY DEF Quiet, None, TypeOK
  <2>2. \A t \in Thread : step[t] = "idle"
    BY <2>1 DEF GateInv
  <2>3. QED BY <2>2 DEF Pending
<1>4. Inv /\ [Next]_vars => [Kept]_vars
  BY TableKept
<1>5. QED
  BY <1>1, <1>2, <1>3, <1>4, PTL DEF Spec, InterceptsStay

-----------------------------------------------------------------------------
(* The gates *)

LEMMA HookInit == Init => HookInv
BY DEF Init, HookInv

\* A driver's hook is found or about to be found once it is marked resolved.
LEMMA HookStep ==
  ASSUME ~RegisterEarly
  PROVE  TypeOK /\ GateInv /\ HookInv /\ [Next]_vars => HookInv'
<1> SUFFICES ASSUME TypeOK, GateInv, HookInv, [Next]_vars
             PROVE  HookInv'
  OBVIOUS
<1> USE DEF TypeOK, GateInv, HookInv
<1>1. ASSUME NEW t \in Thread, zelEnableTracingLayer(t)
      PROVE  HookInv'
  BY <1>1 DEF zelEnableTracingLayer, FirstUser, Begin, MayBegin, hookVars, fixedVars, opVars
<1>2. ASSUME NEW t \in Thread, zelDisableTracingLayer(t)
      PROVE  HookInv'
  BY <1>2 DEF zelDisableTracingLayer, LastUser, Decremented, Begin, MayBegin, hookVars, fixedVars, opVars
<1>3. ASSUME NEW t \in Thread, ContextInit(t)
      PROVE  HookInv'
  BY <1>3 DEF ContextInit, Begin, MayBegin, tableVars, hookVars, fixedVars
<1>4. ASSUME NEW t \in Thread, RegisterExtensionCallback(t)
      PROVE  HookInv'
  BY <1>4 DEF RegisterExtensionCallback, Begin, MayBegin, tableVars, hookVars, fixedVars, opVars
<1>5. ASSUME NEW t \in Thread, BeginInitDriver(t)
      PROVE  HookInv'
  BY <1>5 DEF BeginInitDriver, MayBegin, tableVars, hookVars, fixedVars
<1>6. ASSUME NEW t \in Thread, ExchangeTable(t)
      PROVE  HookInv'
  BY <1>6 DEF ExchangeTable, Table, Go, hookVars, fixedVars
<1>7. ASSUME NEW t \in Thread, ReadLatch(t)
      PROVE  HookInv'
  BY <1>7 DEF ReadLatch, MovesGates, Go, Visit, End, tableVars, hookVars, fixedVars
<1>8. ASSUME NEW t \in Thread, ReadCounter(t)
      PROVE  HookInv'
  BY <1>8 DEF ReadCounter, Visit, End, tableVars, hookVars, fixedVars
<1>9. ASSUME NEW t \in Thread, LoadDriver(t)
      PROVE  HookInv'
  BY <1>9 DEF LoadDriver, Go, tableVars, hookVars, fixedVars
<1>10. ASSUME NEW t \in Thread, VisitDriver(t)
      PROVE  HookInv'
  BY <1>10 DEF VisitDriver, tableVars, hookVars, fixedVars
<1>11. ASSUME NEW t \in Thread, CheckResolved(t)
      PROVE  HookInv'
  BY <1>11 DEF CheckResolved, AfterResolve, Go, tableVars, hookVars, fixedVars
<1>12. ASSUME NEW t \in Thread, ClaimResolve(t)
      PROVE  HookInv'
  BY <1>12 DEF ClaimResolve, AfterResolve, Go, tableVars, fixedVars
<1>13. ASSUME NEW t \in Thread, ProbeHook(t)
      PROVE  HookInv'
  BY <1>13 DEF ProbeHook, Go, tableVars, hookVars, fixedVars
<1>14. ASSUME NEW t \in Thread, CacheHook(t)
      PROVE  HookInv'
  BY <1>14 DEF CacheHook, AfterResolve, Go, tableVars, fixedVars
<1>15. ASSUME NEW t \in Thread, CallHook(t)
      PROVE  HookInv'
  BY <1>15 DEF CallHook, Visit, End, tableVars, hookVars, fixedVars
<1>16. CASE UNCHANGED vars
  BY <1>16 DEF vars, tableVars, hookVars, fixedVars, opVars
<1>17. QED
  BY <1>1, <1>2, <1>3, <1>4, <1>5, <1>6, <1>7, <1>8, <1>9, <1>10, <1>11, <1>12, <1>13, <1>14, <1>15, <1>16 DEF Next, Call, Step

LEMMA CallInit == Init => CallInv /\ OpenInv
BY ToggleAssumption DEF Init, CallInv, OpenInv, Active

LEMMA CallsStep ==
  ASSUME DisableAlone, ~InitAnytime
  PROVE  TypeOK /\ GateInv /\ TableInv /\ CallInv /\ [Next]_vars => CallInv'
<1> SUFFICES ASSUME TypeOK, GateInv, TableInv, CallInv, [Next]_vars
             PROVE  CallInv'
  OBVIOUS
<1> USE ToggleAssumption DEF TypeOK, GateInv, CallInv, Active, Table
<1>0. /\ \A u \in Thread : step[u] \in Table => op[u] \in {"enable", "disable", "init"}
      /\ \A u, v \in Thread : op[u] \in {"disable", "init"} /\ op[v] # "none" => u = v
  BY DEF TableInv
<1>1. ASSUME NEW t \in Thread, zelEnableTracingLayer(t)
      PROVE  CallInv'
  BY <1>0, <1>1 DEF zelEnableTracingLayer, FirstUser, Begin, MayBegin, hookVars, fixedVars, opVars, None, Op
<1>2. ASSUME NEW t \in Thread, zelDisableTracingLayer(t)
      PROVE  CallInv'
  BY <1>0, <1>2 DEF zelDisableTracingLayer, LastUser, Decremented, Begin, MayBegin, hookVars, fixedVars, opVars, None, Op
<1>3. ASSUME NEW t \in Thread, ContextInit(t)
      PROVE  CallInv'
  BY <1>0, <1>3 DEF ContextInit, Begin, MayBegin, tableVars, hookVars, fixedVars, None, Op
<1>4. ASSUME NEW t \in Thread, RegisterExtensionCallback(t)
      PROVE  CallInv'
  BY <1>0, <1>4 DEF RegisterExtensionCallback, Begin, MayBegin, tableVars, hookVars, fixedVars, opVars, None, Op
<1>5. ASSUME NEW t \in Thread, BeginInitDriver(t)
      PROVE  CallInv'
  BY <1>0, <1>5 DEF BeginInitDriver, MayBegin, tableVars, hookVars, fixedVars, None, Op
<1>6. ASSUME NEW t \in Thread, ExchangeTable(t)
      PROVE  CallInv'
  BY <1>0, <1>6 DEF ExchangeTable, Go, hookVars, fixedVars
<1>7. ASSUME NEW t \in Thread, ReadLatch(t)
      PROVE  CallInv'
  <2>1. /\ step[t] = "latch" /\ op[t] # "none" /\ todo[t] = {}
        /\ op[t] # "register" /\ (Active' <=> Active)
    BY <1>7 DEF ReadLatch, tableVars, fixedVars
  <2>2. \A u \in Thread \ {t} : op'[u] = op[u] /\ step'[u] = step[u] /\ todo'[u] = todo[u] /\ at'[u] = at[u]
    BY <1>7 DEF ReadLatch, Go, Visit, End
  <2>3. CASE ~MovesGates(op[t]) \/ zeDrivers = {}
    BY <1>7, <2>1, <2>2, <2>3 DEF ReadLatch, Go, Visit, End, tableVars
  <2>4. CASE MovesGates(op[t]) /\ zeDrivers # {} /\ op[t] = "initDriver"
    BY <1>7, <2>1, <2>2, <2>4 DEF ReadLatch, Go, tableVars
  <2>5. CASE MovesGates(op[t]) /\ zeDrivers # {} /\ op[t] # "initDriver"
    <3>1. op[t] = "disable" <=> ~Active
      BY <2>1, <2>5 DEF MovesGates, Op
    <3>2. step'[t] = "visit" /\ op'[t] = op[t] /\ todo'[t] = zeDrivers /\ at'[t] = {}
      BY <1>7, <2>5 DEF ReadLatch, Visit
    <3>3. tracingLayerEnableCounter' = tracingLayerEnableCounter
      BY <1>7 DEF ReadLatch, tableVars
    <3>4. op[t] = "disable" <=> ~Active'
      BY <2>1, <3>1
    <3>. QED  BY <2>1, <2>2, <2>5, <3>2, <3>3, <3>4
  <2>. QED  BY <2>3, <2>4, <2>5
<1>8. ASSUME NEW t \in Thread, ReadCounter(t)
      PROVE  CallInv'
  BY <1>0, <1>8 DEF ReadCounter, Visit, End, tableVars, hookVars, fixedVars
<1>9. ASSUME NEW t \in Thread, LoadDriver(t)
      PROVE  CallInv'
  BY <1>0, <1>9 DEF LoadDriver, Go, tableVars, hookVars, fixedVars
<1>10. ASSUME NEW t \in Thread, VisitDriver(t)
      PROVE  CallInv'
  BY <1>0, <1>10 DEF VisitDriver, tableVars, hookVars, fixedVars
<1>11. ASSUME NEW t \in Thread, CheckResolved(t)
      PROVE  CallInv'
  BY <1>0, <1>11 DEF CheckResolved, AfterResolve, Go, tableVars, hookVars, fixedVars
<1>12. ASSUME NEW t \in Thread, ClaimResolve(t)
      PROVE  CallInv'
  BY <1>0, <1>12 DEF ClaimResolve, AfterResolve, Go, tableVars, fixedVars
<1>13. ASSUME NEW t \in Thread, ProbeHook(t)
      PROVE  CallInv'
  BY <1>0, <1>13 DEF ProbeHook, Go, tableVars, hookVars, fixedVars
<1>14. ASSUME NEW t \in Thread, CacheHook(t)
      PROVE  CallInv'
  BY <1>0, <1>14 DEF CacheHook, AfterResolve, Go, tableVars, fixedVars
<1>15. ASSUME NEW t \in Thread, CallHook(t)
      PROVE  CallInv'
  BY <1>0, <1>15 DEF CallHook, Visit, End, tableVars, hookVars, fixedVars
<1>16. CASE UNCHANGED vars
  BY <1>16 DEF vars, tableVars, hookVars, fixedVars, opVars
<1>17. QED
  BY <1>1, <1>2, <1>3, <1>4, <1>5, <1>6, <1>7, <1>8, <1>9, <1>10, <1>11, <1>12, <1>13, <1>14, <1>15, <1>16 DEF Next, Call, Step

LEMMA OpenStep ==
  ASSUME DisableAlone, ~InitAnytime, ~RegisterEarly
  PROVE  TypeOK /\ GateInv /\ TableInv /\ HookInv /\ CallInv /\ OpenInv /\ [Next]_vars => OpenInv'
<1> SUFFICES ASSUME TypeOK, GateInv, TableInv, HookInv, CallInv, OpenInv, [Next]_vars
             PROVE  OpenInv'
  OBVIOUS
<1> USE ToggleAssumption DEF TypeOK, GateInv, GateNeedsCallback, CallInv, OpenInv, Opening, Closing, Active, Table
<1>0. /\ \A u \in Thread : step[u] \in Table => op[u] \in {"enable", "disable", "init"}
      /\ \A u, v \in Thread : op[u] \in {"disable", "init"} /\ op[v] # "none" => u = v
  BY DEF TableInv
<1>1. ASSUME NEW t \in Thread, zelEnableTracingLayer(t)
      PROVE  OpenInv'
  BY <1>0, <1>1 DEF zelEnableTracingLayer, FirstUser, Begin, MayBegin, hookVars, fixedVars, opVars, None, Op
<1>2. ASSUME NEW t \in Thread, zelDisableTracingLayer(t)
      PROVE  OpenInv'
  BY <1>0, <1>2 DEF zelDisableTracingLayer, LastUser, Decremented, Begin, MayBegin, hookVars, fixedVars, opVars, None, Op
<1>3. ASSUME NEW t \in Thread, ContextInit(t)
      PROVE  OpenInv'
  BY <1>0, <1>3 DEF ContextInit, Begin, MayBegin, tableVars, hookVars, fixedVars, None, Op
<1>4. ASSUME NEW t \in Thread, RegisterExtensionCallback(t)
      PROVE  OpenInv'
  BY <1>0, <1>4 DEF RegisterExtensionCallback, Begin, MayBegin, tableVars, hookVars, fixedVars, opVars, None, Op
<1>5. ASSUME NEW t \in Thread, BeginInitDriver(t)
      PROVE  OpenInv'
  BY <1>0, <1>5 DEF BeginInitDriver, MayBegin, tableVars, hookVars, fixedVars, None, Op
<1>6. ASSUME NEW t \in Thread, ExchangeTable(t)
      PROVE  OpenInv'
  BY <1>0, <1>6 DEF ExchangeTable, Go, hookVars, fixedVars
<1>7. ASSUME NEW t \in Thread, ReadLatch(t)
      PROVE  OpenInv'
  <2>1. UNCHANGED <<tableVars, hookVars, fixedVars, anyExtensionCallbackRegistered, ddiInitialized, gateOpen>>
    BY <1>7 DEF ReadLatch
  <2>2. \A u \in Thread \ {t} : op'[u] = op[u] /\ step'[u] = step[u] /\ todo'[u] = todo[u] /\ at'[u] = at[u]
    BY <1>7 DEF ReadLatch, Go, Visit, End
  <2>3. ASSUME NEW d \in ddiInitialized \cap capable, anyExtensionCallbackRegistered, Active,
               d \notin gateOpen
        PROVE  \E u \in Thread : Opening(u, d)'
    <3>1. PICK u \in Thread : Opening(u, d)
      BY <2>3
    <3>2. CASE u # t
      BY <2>2, <3>1, <3>2
    <3>3. CASE u = t
      <4>1. CASE op[t] = "enable"
        BY <1>7, <2>3, <4>1 DEF ReadLatch, MovesGates, Visit
      <4>2. CASE op[t] = "initDriver"
        BY <1>7, <2>3, <3>1, <3>3, <4>2 DEF ReadLatch, MovesGates, Go
      <4>3. CASE op[t] \notin {"enable", "initDriver"}
        BY <1>7, <3>1, <3>3, <4>3 DEF ReadLatch
      <4>. QED  BY <4>1, <4>2, <4>3
    <3>. QED  BY <3>2, <3>3
  <2>4. ASSUME NEW d \in gateOpen, ~Active
        PROVE  \E u \in Thread : Closing(u, d)'
    <3>1. PICK u \in Thread : Closing(u, d)
      BY <2>4
    <3>2. CASE u # t
      BY <2>2, <3>1, <3>2
    <3>3. CASE u = t
      BY <1>7, <2>4, <3>1, <3>3 DEF ReadLatch, MovesGates, Visit, HookInv
    <3>. QED  BY <3>2, <3>3
  <2>. QED  BY <2>1, <2>3, <2>4 DEF tableVars, hookVars, fixedVars
<1>8. ASSUME NEW t \in Thread, ReadCounter(t)
      PROVE  OpenInv'
  BY <1>0, <1>8 DEF ReadCounter, Visit, End, tableVars, hookVars, fixedVars
<1>9. ASSUME NEW t \in Thread, LoadDriver(t)
      PROVE  OpenInv'
  BY <1>0, <1>9 DEF LoadDriver, Go, tableVars, hookVars, fixedVars
<1>10. ASSUME NEW t \in Thread, VisitDriver(t)
      PROVE  OpenInv'
  BY <1>0, <1>10 DEF VisitDriver, tableVars, hookVars, fixedVars
<1>11. ASSUME NEW t \in Thread, CheckResolved(t)
      PROVE  OpenInv'
  BY <1>0, <1>11 DEF CheckResolved, AfterResolve, Go, tableVars, hookVars, fixedVars
<1>12. ASSUME NEW t \in Thread, ClaimResolve(t)
      PROVE  OpenInv'
  BY <1>0, <1>12 DEF ClaimResolve, AfterResolve, Go, tableVars, fixedVars
<1>13. ASSUME NEW t \in Thread, ProbeHook(t)
      PROVE  OpenInv'
  BY <1>0, <1>13 DEF ProbeHook, Go, tableVars, hookVars, fixedVars
<1>14. ASSUME NEW t \in Thread, CacheHook(t)
      PROVE  OpenInv'
  BY <1>0, <1>14 DEF CacheHook, AfterResolve, Go, tableVars, fixedVars
<1>15. ASSUME NEW t \in Thread, CallHook(t)
      PROVE  OpenInv'
  <2>0. /\ step[t] = "call" /\ at[t] \subseteq todo[t] /\ todo[t] # {}
        /\ op[t] = "disable" <=> ~Active
    BY <1>15 DEF CallHook
  <2>1. /\ UNCHANGED <<tableVars, hookVars, fixedVars, anyExtensionCallbackRegistered, ddiInitialized>>
        /\ Active' <=> Active
    BY <1>15 DEF CallHook, tableVars, fixedVars
  <2>2. \A u \in Thread \ {t} : op'[u] = op[u] /\ step'[u] = step[u] /\ todo'[u] = todo[u] /\ at'[u] = at[u]
    BY <1>15 DEF CallHook, Visit, End
  <2>3. todo'[t] = todo[t] \ at[t] /\ (todo'[t] # {} => op'[t] = op[t])
    BY <1>15 DEF CallHook, Visit, End
  <2>4. \A d \in at[t] \cap capable :
          \/ d \in pfnDriverEnableTracing
          \/ \E u \in Thread \ {t} : step[u] \in {"probe", "cache"} /\ d \in at[u]
    BY <2>0 DEF HookInv
  <2>5. ASSUME NEW d \in ddiInitialized \cap capable, anyExtensionCallbackRegistered, Active,
               d \notin gateOpen'
        PROVE  \E u \in Thread : Opening(u, d)'
    <3>0. gateOpen' = gateOpen \cup (at[t] \cap pfnDriverEnableTracing)
      BY <1>15, <2>0, <2>5 DEF CallHook
    <3>1. CASE d \in at[t]
      <4>1. PICK u \in Thread \ {t} : step[u] \in {"probe", "cache"} /\ d \in at[u]
        BY <2>4, <2>5, <3>0, <3>1
      <4>2. op[u] # "disable"
        BY <1>0, <2>0, <4>1
      <4>3. op[u] = "initDriver" \/ d \in todo[u]
        BY <4>1
      <4>. QED  BY <2>2, <4>1, <4>2, <4>3
    <3>2. CASE d \notin at[t]
      <4>1. PICK u \in Thread : Opening(u, d)
        BY <2>5, <3>0
      <4>2. CASE u # t
        BY <2>2, <4>1, <4>2
      <4>3. CASE u = t
        BY <2>0, <2>3, <3>2, <4>1, <4>3
      <4>. QED  BY <4>2, <4>3
    <3>. QED  BY <3>1, <3>2
  <2>6. ASSUME NEW d \in gateOpen', ~Active
        PROVE  \E u \in Thread : Closing(u, d)'
    <3>0. gateOpen' = gateOpen \ (at[t] \cap pfnDriverEnableTracing)
      BY <1>15, <2>0, <2>6 DEF CallHook
    <3>1. d \notin at[t]
      <4>1. SUFFICES ASSUME d \in at[t] PROVE FALSE
        OBVIOUS
      <4>2. PICK u \in Thread \ {t} : step[u] \in {"probe", "cache"} /\ d \in at[u]
        BY <2>4, <2>6, <3>0, <4>1
      <4>3. op[t] = "disable" /\ op[u] # "none"
        BY <2>0, <2>6, <4>2
      <4>. QED  BY <1>0, <4>2, <4>3
    <3>2. PICK u \in Thread : Closing(u, d)
      BY <2>6, <3>0
    <3>3. u = t
      BY <1>0, <2>0, <2>6, <3>2
    <3>. QED  BY <2>0, <2>3, <3>1, <3>2, <3>3
  <2>7. /\ ddiInitialized' = ddiInitialized /\ capable' = capable
        /\ anyExtensionCallbackRegistered' <=> anyExtensionCallbackRegistered
    BY <2>1 DEF fixedVars
  <2>8. OpenInv!1'
    BY <2>1, <2>5, <2>7
  <2>9. OpenInv!2'
    BY <2>1, <2>6
  <2>. QED  BY <2>8, <2>9
<1>16. CASE UNCHANGED vars
  BY <1>16 DEF vars, tableVars, hookVars, fixedVars, opVars
<1>17. QED
  BY <1>1, <1>2, <1>3, <1>4, <1>5, <1>6, <1>7, <1>8, <1>9, <1>10, <1>11, <1>12, <1>13, <1>14, <1>15, <1>16 DEF Next, Call, Step

(* Under the same conditions, and with callbacks registered only once every
   driver is initialised: at rest the gate of every usable driver that has the
   hook is open exactly if tracing is on and a callback was ever registered,
   however enables, registrations and driver initialisations raced, whichever
   of them found the driver's hook, and whichever closed its gate to probe it. *)
THEOREM GatesCorrect ==
  ASSUME DisableAlone, ~InitAnytime, ~RegisterEarly
  PROVE  Spec => []GatesFollowCounter
<1> DEFINE Inv == /\ TypeOK /\ GateInv /\ TableInv
                  /\ HookInv /\ CallInv /\ OpenInv
<1>1. Init => Inv
  BY GateInit, TableInit, HookInit, CallInit
<1>2. Inv /\ [Next]_vars => Inv'
  BY GateStep, TableStep, HookStep, CallsStep, OpenStep
<1>3. Inv => GatesFollowCounter
  <2> SUFFICES ASSUME Inv, Quiet, NEW d \in ddiInitialized \cap capable
               PROVE  d \in gateOpen <=> anyExtensionCallbackRegistered /\ Active
    BY DEF GatesFollowCounter, Active
  <2>1. \A t \in Thread : op[t] = "none" /\ step[t] = "idle" /\ todo[t] = {}
    BY DEF Quiet, None, TypeOK, GateInv, CallInv
  <2>2. \A t \in Thread : ~Opening(t, d) /\ ~Closing(t, d)
    BY <2>1 DEF Opening, Closing
  <2>. QED  BY <2>2 DEF OpenInv, GateInv, GateNeedsCallback
<1>. QED  BY <1>1, <1>2, <1>3, PTL DEF Spec

=============================================================================

------------------------- MODULE TracerArrays_proofs ------------------------
(***************************************************************************)
(* Proofs about TracerArrays for every set of threads, tracers, addresses  *)
(* and callback tables.  ArraysInv is inductive under either memory model. *)
(* PinInv is inductive when stores are not delayed; with it no array and   *)
(* no tracer a call works with is ever freed under it, and the layer       *)
(* implements TracerRegistry.                                              *)
(***************************************************************************)
EXTENDS TracerArrays, TLAPS

-----------------------------------------------------------------------------
(* Each part of ArraysInv depends on a few variables only. *)

LEMMA AccountedFrame == ArraysAccounted /\ UNCHANGED arrayVars => ArraysAccounted'
BY DEF ArraysAccounted, arrayVars

LEMMA MutexFrame ==
  MutexInv /\ UNCHANGED <<opStep, testing, mutexVars>> => MutexInv'
BY DEF MutexInv, Walking, mutexVars

LEMMA WalkFrame ==
  WalkInv /\ UNCHANGED <<untested, testing, retiringTracerArrayList>> => WalkInv'
BY DEF WalkInv

LEMMA OpFrame == OpInv /\ UNCHANGED <<opVars, tracingState>> => OpInv'
BY DEF OpInv, opVars, Walking

LEMMA ContentFrame == ContentInv /\ UNCHANGED <<tracerVars, arrayVars>> => ContentInv'
BY DEF ContentInv, ActiveArrayCurrent, EntriesAt, tracerVars, arrayVars

\* A step of a traced call, or of the thread's own memory, touches none of them.
Frame == <<tracerVars, arrayVars, opVars, walkVars, mutexVars>>

LEMMA CallFrame ==
  ASSUME ArraysInv, UNCHANGED Frame
  PROVE  ArraysAccounted' /\ MutexInv' /\ WalkInv' /\ OpInv' /\ ContentInv'
<1>1. UNCHANGED <<opStep, testing, mutexVars>>
  BY DEF Frame, opVars, walkVars
<1>2. UNCHANGED <<untested, testing, retiringTracerArrayList>>
  BY DEF Frame, walkVars, arrayVars
<1>3. UNCHANGED <<opVars, tracingState>> /\ UNCHANGED <<tracerVars, arrayVars>>
  BY DEF Frame, tracerVars
<1>4. QED
  BY <1>1, <1>2, <1>3, AccountedFrame, MutexFrame, WalkFrame, OpFrame, ContentFrame
  DEF ArraysInv, Frame

-----------------------------------------------------------------------------
(* Initial states *)

LEMMA ArraysInit == Init => ArraysInv
<1> SUFFICES ASSUME Init PROVE ArraysInv
  OBVIOUS
<1>1. TypeOK
  BY ConstantsAssumption
  DEF Init, TypeOK, Pointer, CallSteps, OpSteps
<1>2. ArraysAccounted /\ MutexInv /\ WalkInv
  BY ConstantsAssumption DEF Init, ArraysAccounted, MutexInv, WalkInv, Walking
<1>3. OpInv
  BY DEF Init, OpInv, Walking
<1>4. ContentInv
  BY ConstantsAssumption DEF Init, ContentInv, ActiveArrayCurrent, EntriesAt
<1>5. QED
  BY <1>1, <1>2, <1>3, <1>4 DEF ArraysInv

-----------------------------------------------------------------------------
(* Steps of traced calls *)

LEMMA CallSteps_ ==
  ASSUME ArraysInv, NEW t \in Thread,
         \/ CallProgress(t) \/ RegisterThread(t) \/ BeginCall(t) \/ ExitThread(t)
  PROVE  ArraysInv'
<1>1. UNCHANGED Frame
  BY DEF CallProgress, LoadActive, PublishPointer, RecheckActive, GatherCallbacks,
     ReleaseActive, FlushStore, RegisterThread, BeginCall, ExitThread, Frame
<1>2. TypeOK'
  <2> USE DEF ArraysInv, TypeOK, Pointer, CallSteps, threadVars, pointerVars, callVars, opVars,
          walkVars, tracerVars, arrayVars, mutexVars, Frame
  <2>1. CASE LoadActive(t)      BY <1>1, <2>1 DEF LoadActive
  <2>2. CASE PublishPointer(t)  BY <1>1, <2>2 DEF PublishPointer, StorePointer
  <2>3. CASE RecheckActive(t)   BY <1>1, <2>3 DEF RecheckActive, RetryFrom
  <2>4. CASE GatherCallbacks(t)
    <3>1. CopiedEntries(t) \in SUBSET Entry
      BY DEF CopiedEntries, EntriesAt
    <3>2. QED
      BY <1>1, <2>4, <3>1 DEF GatherCallbacks
  <2>5. CASE ReleaseActive(t)   BY <1>1, <2>5 DEF ReleaseActive, StorePointer
  <2>6. CASE FlushStore(t)      BY <1>1, <2>6 DEF FlushStore
  <2>7. CASE RegisterThread(t)  BY <1>1, <2>7 DEF RegisterThread
  <2>8. CASE BeginCall(t)       BY <1>1, <2>8 DEF BeginCall
  <2>9. CASE ExitThread(t)      BY <1>1, <2>9 DEF ExitThread
  <2>10. QED
    BY <2>1, <2>2, <2>3, <2>4, <2>5, <2>6, <2>7, <2>8, <2>9 DEF CallProgress
<1>3. QED
  BY <1>1, <1>2, CallFrame DEF ArraysInv

-----------------------------------------------------------------------------
(* Steps of control operations that leave the arrays alone *)

LEMMA ApplicationSteps ==
  ASSUME ArraysInv, NEW t \in Thread, NEW r \in Tracer,
         \/ createAPITracer(t, r)
         \/ \E f \in Callback : setCallbacks(t, r, f)
         \/ \E kind \in OpKinds : Request(t, kind, r)
  PROVE  ArraysInv'
<1> USE DEF ArraysInv
<1>1. CASE createAPITracer(t, r)
  <2> USE <1>1 DEF createAPITracer
  <2>1. TypeOK'
    BY DEF TypeOK, threadVars, pointerVars, callVars, opVars, walkVars, arrayVars, mutexVars
  <2>2. ArraysAccounted' /\ MutexInv' /\ WalkInv'
    BY AccountedFrame, MutexFrame, WalkFrame DEF opVars, walkVars, arrayVars
  <2>3. OpInv'
    BY DEF OpInv, TypeOK, opVars, Walking, CanControl
  <2>4. ContentInv'
    BY DEF ContentInv, ActiveArrayCurrent, EntriesAt, TypeOK, arrayVars, Entry
  <2>5. QED BY <2>1, <2>2, <2>3, <2>4
<1>2. CASE \E f \in Callback : setCallbacks(t, r, f)
  <2> PICK f \in Callback : setCallbacks(t, r, f)
    BY <1>2
  <2> USE DEF setCallbacks, MayRegister
  <2>1. TypeOK'
    BY DEF TypeOK, threadVars, pointerVars, callVars, opVars, walkVars, arrayVars, mutexVars
  <2>2. ArraysAccounted' /\ MutexInv' /\ WalkInv' /\ OpInv'
    BY AccountedFrame, MutexFrame, WalkFrame, OpFrame DEF opVars, walkVars, arrayVars
  <2>3. ContentInv'
    BY DEF ContentInv, ActiveArrayCurrent, EntriesAt, TypeOK, arrayVars, Entry
  <2>4. QED BY <2>1, <2>2, <2>3
<1>3. CASE \E kind \in OpKinds : Request(t, kind, r)
  <2> PICK kind \in OpKinds : Request(t, kind, r)
    BY <1>3
  <2> USE DEF Request
  <2>1. TypeOK'
    BY DEF TypeOK, OpSteps, threadVars, pointerVars, callVars, walkVars, arrayVars, mutexVars,
       tracerVars
  <2>2. ArraysAccounted' /\ WalkInv' /\ ContentInv'
    BY AccountedFrame, WalkFrame, ContentFrame DEF walkVars, arrayVars
  <2>3. MutexInv'
    BY DEF MutexInv, Walking, TypeOK, CanControl, walkVars, mutexVars
  <2>4. OpInv'
    BY ConstantsAssumption DEF OpInv, Walking, TypeOK, CanControl, tracerVars, OpKinds
  <2>5. QED BY <2>1, <2>2, <2>3, <2>4
<1>4. QED BY <1>1, <1>2, <1>3

LEMMA ReturningSteps ==
  ASSUME ArraysInv, NEW t \in Thread,
         \/ EnableEnabled(t) \/ DisableDisabled(t) \/ SetEnabledInUse(t) \/ DestroyInUse(t)
  PROVE  ArraysInv'
<1> USE DEF ArraysInv
<1>1. opStep[t] = "acquire" /\ ReturnAtOnce(t)
  BY DEF EnableEnabled, DisableDisabled, SetEnabledInUse, DestroyInUse, Lock
<1> USE DEF ReturnAtOnce, EndOperation
<1>2. TypeOK'
  BY <1>1 DEF TypeOK, OpSteps, threadVars, pointerVars, callVars, walkVars, arrayVars, mutexVars,
     tracerVars
<1>3. ArraysAccounted' /\ WalkInv' /\ ContentInv'
  BY <1>1, AccountedFrame, WalkFrame, ContentFrame DEF walkVars, arrayVars
<1>4. MutexInv'
  BY <1>1 DEF MutexInv, Walking, TypeOK, walkVars, mutexVars
<1>5. OpInv'
  BY <1>1, ConstantsAssumption DEF OpInv, Walking, TypeOK, tracerVars
<1>6. QED BY <1>2, <1>3, <1>4, <1>5

LEMMA DestroyDisabledStep ==
  ASSUME ArraysInv, NEW t \in Thread, DestroyDisabled(t)
  PROVE  ArraysInv'
<1> USE DEF ArraysInv, DestroyDisabled, GoOnToDelete, Lock
<1>1. TypeOK'
  BY DEF TypeOK, OpSteps, threadVars, pointerVars, callVars, walkVars, arrayVars, mutexVars,
     tracerVars
<1>2. ArraysAccounted' /\ WalkInv' /\ ContentInv'
  BY AccountedFrame, WalkFrame, ContentFrame DEF walkVars, arrayVars
<1>3. MutexInv'
  BY DEF MutexInv, Walking, TypeOK, walkVars, mutexVars
<1>4. OpInv'
  BY DEF OpInv, Walking, TypeOK, tracerVars
<1>5. QED BY <1>1, <1>2, <1>3, <1>4

LEMMA DestroyWaitingStep ==
  ASSUME ArraysInv, NEW t \in Thread, DestroyWaiting(t)
  PROVE  ArraysInv'
<1> USE DEF ArraysInv, DestroyWaiting, StartWalk, Lock
<1>1. TypeOK'
  BY DEF TypeOK, OpSteps, threadVars, pointerVars, callVars, walkVars, arrayVars, tracerVars
<1>2. ArraysAccounted' /\ ContentInv'
  BY AccountedFrame, ContentFrame
<1>3. MutexInv' /\ WalkInv'
  BY ConstantsAssumption DEF MutexInv, WalkInv, Walking, TypeOK, CanLock, arrayVars
<1>4. OpInv'
  BY DEF OpInv, Walking, TypeOK, tracerVars
<1>5. QED BY <1>1, <1>2, <1>3, <1>4

LEMMA DeleteStep ==
  ASSUME ArraysInv, NEW t \in Thread, DeleteTracer(t)
  PROVE  ArraysInv'
<1> USE DEF ArraysInv, DeleteTracer, EndOperation
<1>1. TypeOK'
  BY ConstantsAssumption DEF TypeOK, OpSteps, threadVars, pointerVars, callVars, walkVars,
     arrayVars, mutexVars
<1>2. ArraysAccounted' /\ WalkInv'
  BY AccountedFrame, WalkFrame DEF walkVars, arrayVars
<1>3. MutexInv'
  BY DEF MutexInv, Walking, TypeOK, walkVars, mutexVars
<1>4. OpInv'
  BY ConstantsAssumption DEF OpInv, Walking, TypeOK
<1>5. ContentInv'
  BY DEF ContentInv, OpInv, ActiveArrayCurrent, EntriesAt, TypeOK, Entry, arrayVars
<1>6. QED BY <1>1, <1>2, <1>3, <1>4, <1>5

-----------------------------------------------------------------------------
(* Enabling and disabling: a new array takes over *)

\* What updateTracerArrays leaves behind, whatever array it picked.
LEMMA UpdateArrays ==
  ASSUME ArraysInv, NEW t \in Thread, NEW S \in SUBSET Tracer, opStep[t] = "acquire",
         CanLock(t, traceTableMutex), updateTracerArrays(t, S)
  PROVE  /\ activeTracerArray' \in Array \cup {EmptyArray}
         /\ allocated' \subseteq Array /\ retiringTracerArrayList' \subseteq Array
         /\ tracerArrayEntries' \in [Array -> SUBSET Entry]
         /\ ArraysAccounted' /\ MutexInv' /\ WalkInv'
         /\ EntriesAt(activeTracerArray)' =
              {[tracer |-> r, functions |-> tracerFunctions[r]] : r \in S}
         /\ \A a \in allocated' \ {activeTracerArray'} :
              a \in allocated /\ tracerArrayEntries'[a] = tracerArrayEntries[a]
<1> USE DEF ArraysInv, updateTracerArrays, StartWalk, Replaced, TypeOK
<1> DEFINE E == {[tracer |-> r, functions |-> tracerFunctions[r]] : r \in S}
<1>1. E \in SUBSET Entry
  BY DEF Entry
<1>2. MutexInv'
  BY ConstantsAssumption DEF MutexInv, Walking, CanLock
<1>3. testing = Null
  BY DEF MutexInv, CanLock
<1>4. CASE S = {}
  <2>1. UNCHANGED <<allocated, tracerArrayEntries>> /\ activeTracerArray' = EmptyArray
    BY <1>4
  <2>2. EntriesAt(activeTracerArray)' = {}
    BY <2>1, ConstantsAssumption DEF EntriesAt
  <2>3. E = {}
    BY <1>4
  <2>4. QED
    BY <1>2, <1>3, <2>1, <2>2, <2>3, ConstantsAssumption DEF ArraysAccounted, WalkInv
<1>5. CASE S # {}
  <2> PICK a \in Array \ allocated :
          /\ activeTracerArray' = a
          /\ allocated' = allocated \cup {a}
          /\ tracerArrayEntries' = [tracerArrayEntries EXCEPT ![a] = E]
    BY <1>5
  <2>1. EntriesAt(activeTracerArray)' = E
    BY DEF EntriesAt
  <2>2. tracerArrayEntries' \in [Array -> SUBSET Entry]
    BY <1>1
  <2>3. ArraysAccounted'
    BY ConstantsAssumption DEF ArraysAccounted
  <2>4. WalkInv'
    BY <1>3 DEF WalkInv
  <2>5. \A x \in allocated' \ {activeTracerArray'} :
          x \in allocated /\ tracerArrayEntries'[x] = tracerArrayEntries[x]
    OBVIOUS
  <2>6. retiringTracerArrayList' \subseteq Array /\ allocated' \subseteq Array
    OBVIOUS
  <2>7. QED
    BY <1>2, <2>1, <2>2, <2>3, <2>4, <2>5, <2>6
<1>6. QED BY <1>4, <1>5

\* The content of the arrays after tracer r has gone to state s.
LEMMA UpdateContent ==
  ASSUME ArraysInv, TypeOK',
         NEW t \in Thread, NEW r \in Tracer, NEW s \in {"enabled", "disabledWaiting"},
         opStep[t] = "acquire", CanLock(t, traceTableMutex),
         tracingState' = [tracingState EXCEPT ![r] = s],
         enabledTracerImpList' = {x \in Tracer : tracingState'[x] = "enabled"},
         updateTracerArrays(t, enabledTracerImpList'),
         UNCHANGED tracerFunctions
  PROVE  ContentInv'
<1> DEFINE S == enabledTracerImpList'
<1>1. S \in SUBSET Tracer
  OBVIOUS
<1>2. EntriesAt(activeTracerArray)' =
        {[tracer |-> x, functions |-> tracerFunctions[x]] : x \in S}
  BY <1>1, UpdateArrays
<1>3. ActiveArrayCurrent'
  BY <1>2 DEF ActiveArrayCurrent
<1>4. ASSUME NEW a \in allocated', NEW e \in tracerArrayEntries'[a]
      PROVE  /\ tracingState'[e.tracer] \in {"enabled", "disabledWaiting"}
             /\ e.functions = tracerFunctions'[e.tracer]
  <2>1. CASE a = activeTracerArray'
    <3>1. tracerArrayEntries'[a] = EntriesAt(activeTracerArray)'
      BY <2>1 DEF EntriesAt, TypeOK
    <3>2. PICK x \in {y \in Tracer : tracingState'[y] = "enabled"} :
            e = [tracer |-> x, functions |-> tracerFunctions'[x]]
      BY <1>3, <3>1 DEF ActiveArrayCurrent
    <3>3. QED BY <3>2
  <2>2. CASE a # activeTracerArray'
    <3>1. a \in allocated /\ tracerArrayEntries'[a] = tracerArrayEntries[a]
      BY <1>1, <2>2, UpdateArrays
    <3>2. e \in Entry
      BY <3>1 DEF ArraysInv, TypeOK
    <3>3. QED
      BY <3>1, <3>2 DEF ArraysInv, ContentInv, TypeOK, Entry
  <2>3. QED BY <2>1, <2>2
<1>5. QED BY <1>3, <1>4 DEF ContentInv

LEMMA SetEnabledStep ==
  ASSUME ArraysInv, NEW t \in Thread, EnableTracer(t) \/ DisableTracer(t)
  PROVE  ArraysInv'
<1> DEFINE r == opTracer[t]
           s == IF opKind[t] = "enable" THEN "enabled" ELSE "disabledWaiting"
<1> USE DEF ArraysInv
<1>1. r \in Tracer
  BY DEF EnableTracer, DisableTracer, Lock, OpInv, TypeOK
<1>2. /\ opStep[t] = "acquire" /\ CanLock(t, traceTableMutex)
      /\ opKind[t] \in {"enable", "disable"}
      /\ tracingState' = [tracingState EXCEPT ![r] = s]
      /\ updateTracerArrays(t, enabledTracerImpList')
      /\ UNCHANGED <<tracerFunctions, threadVars, pointerVars, callVars>>
  BY DEF EnableTracer, DisableTracer, Lock, Remaining
<1>3. enabledTracerImpList' = {x \in Tracer : tracingState'[x] = "enabled"}
  BY <1>1 DEF EnableTracer, DisableTracer, Lock, ContentInv, TypeOK
<1>4. enabledTracerImpList' \in SUBSET Tracer
  BY <1>3
<1>5. TypeOK'
  BY <1>1, <1>2, <1>4, UpdateArrays
  DEF TypeOK, OpSteps, threadVars, pointerVars, callVars, updateTracerArrays, StartWalk
<1>6. ArraysAccounted' /\ MutexInv' /\ WalkInv'
  BY <1>2, <1>4, UpdateArrays
<1>7. OpInv'
  BY <1>1, <1>2 DEF OpInv, Walking, TypeOK, updateTracerArrays, StartWalk
<1>8. ContentInv'
  BY <1>1, <1>2, <1>3, <1>5, UpdateContent
<1>9. QED BY <1>5, <1>6, <1>7, <1>8

-----------------------------------------------------------------------------
(* The walk over the retired arrays *)

LEMMA TestArrayStep ==
  ASSUME ArraysInv, NEW t \in Thread, NEW a \in Array, TestArray(t, a)
  PROVE  ArraysInv'
<1> USE DEF ArraysInv, TestArray
<1>1. TypeOK'
  BY DEF TypeOK, threadVars, pointerVars, callVars, opVars, arrayVars, tracerVars
<1>2. ArraysAccounted' /\ OpInv' /\ ContentInv'
  BY AccountedFrame, OpFrame, ContentFrame DEF tracerVars
<1>3. MutexInv' /\ WalkInv'
  BY ConstantsAssumption DEF MutexInv, WalkInv, Walking, TypeOK, CanLock, opVars, arrayVars
<1>4. QED BY <1>1, <1>2, <1>3

LEMMA TestThreadStep ==
  ASSUME ArraysInv, NEW t \in Thread, NEW u \in Thread, TestThread(t, u)
  PROVE  ArraysInv'
<1> USE DEF ArraysInv, TestThread
<1>1. TypeOK'
  BY DEF TypeOK, threadVars, pointerVars, callVars, opVars, arrayVars, tracerVars
<1>2. ArraysAccounted' /\ OpInv' /\ ContentInv'
  BY AccountedFrame, OpFrame, ContentFrame DEF tracerVars
<1>3. MutexInv' /\ WalkInv'
  BY ConstantsAssumption DEF MutexInv, WalkInv, Walking, TypeOK, opVars, arrayVars
<1>4. QED BY <1>1, <1>2, <1>3

LEMMA FreeArrayStep ==
  ASSUME ArraysInv, NEW t \in Thread, FreeArray(t)
  PROVE  ArraysInv'
<1> USE DEF ArraysInv, FreeArray
<1>1. TypeOK'
  BY DEF TypeOK, threadVars, pointerVars, callVars, opVars, tracerVars
<1>2. MutexInv' /\ WalkInv' /\ ArraysAccounted'
  BY ConstantsAssumption
  DEF MutexInv, WalkInv, ArraysAccounted, Walking, TypeOK, opVars
<1>3. OpInv'
  BY OpFrame DEF tracerVars
<1>4. ContentInv'
  BY DEF ContentInv, ArraysAccounted, WalkInv, ActiveArrayCurrent, EntriesAt, TypeOK, tracerVars
<1>5. QED BY <1>1, <1>2, <1>3, <1>4

-----------------------------------------------------------------------------
(* The end of the walk *)

LEMMA RetryStep ==
  ASSUME ArraysInv, NEW t \in Thread, RetryDestroy(t)
  PROVE  ArraysInv'
<1> USE DEF ArraysInv, RetryDestroy, WalkAgain, WalkEnds
<1>1. TypeOK'
  BY DEF TypeOK, threadVars, pointerVars, callVars, opVars, arrayVars, mutexVars, tracerVars
<1>2. ArraysAccounted' /\ OpInv' /\ ContentInv' /\ MutexInv'
  BY AccountedFrame, OpFrame, ContentFrame, MutexFrame DEF tracerVars, opVars
<1>3. WalkInv'
  BY DEF WalkInv, arrayVars
<1>4. QED BY <1>1, <1>2, <1>3

LEMMA FinishSteps ==
  ASSUME ArraysInv, NEW t \in Thread,
         FinishEnable(t) \/ FinishDisable(t) \/ FinishDestroyWait(t)
  PROVE  ArraysInv'
<1> DEFINE r == opTracer[t]
<1> USE DEF ArraysInv
<1>1. /\ Walking(t) /\ testing = Null /\ UnlockTable
      /\ \/ EndOperation(t) /\ opKind[t] # "destroy" /\ UNCHANGED tracingState
         \/ EndOperation(t) /\ opKind[t] # "destroy" /\ opKind[t] # "enable"
            /\ retiringTracerArrayList = {}
            /\ tracingState' = [tracingState EXCEPT ![r] = "disabled"]
         \/ GoOnToDelete(t) /\ opKind[t] = "destroy"
            /\ retiringTracerArrayList = {}
            /\ tracingState' = [tracingState EXCEPT ![r] = "disabled"]
  BY DEF FinishEnable, FinishDisable, FinishDestroyWait, WalkEnds, NoneRetiring
<1> USE DEF UnlockTable, EndOperation, GoOnToDelete
<1>2. r \in Tracer
  BY <1>1 DEF OpInv, TypeOK, Walking
<1>3. TypeOK'
  BY <1>1, <1>2
  DEF TypeOK, OpSteps, threadVars, pointerVars, callVars, arrayVars, walkVars
<1>4. ArraysAccounted' /\ WalkInv'
  BY <1>1, AccountedFrame, WalkFrame DEF arrayVars, walkVars
<1>5. MutexInv'
  BY <1>1, ConstantsAssumption DEF MutexInv, Walking, TypeOK, walkVars
<1>6. OpInv'
  BY <1>1, <1>2, ConstantsAssumption DEF OpInv, Walking, TypeOK
<1>7. ContentInv'
  <2>1. CASE UNCHANGED tracingState
    BY <1>1, <2>1, ContentFrame DEF tracerVars
  <2>2. CASE /\ retiringTracerArrayList = {}
             /\ opKind[t] # "enable"
             /\ tracingState' = [tracingState EXCEPT ![r] = "disabled"]
    <3>1. tracingState[r] = "disabledWaiting"
      BY <1>1, <2>2 DEF OpInv
    <3>2. {x \in Tracer : tracingState'[x] = "enabled"} =
            {x \in Tracer : tracingState[x] = "enabled"}
      BY <1>2, <2>2, <3>1 DEF TypeOK
    <3>3. ActiveArrayCurrent'
      BY <1>1, <3>2 DEF ContentInv, ActiveArrayCurrent, EntriesAt, arrayVars
    <3>4. ASSUME NEW a \in allocated, NEW e \in tracerArrayEntries[a]
          PROVE  /\ tracingState'[e.tracer] \in {"enabled", "disabledWaiting"}
                 /\ e.functions = tracerFunctions[e.tracer]
      <4>1. a = activeTracerArray /\ a \in Array
        BY <2>2 DEF ArraysAccounted, TypeOK
      <4>2. e \in EntriesAt(activeTracerArray)
        BY <4>1 DEF EntriesAt
      <4>3. PICK x \in {y \in Tracer : tracingState[y] = "enabled"} :
              e = [tracer |-> x, functions |-> tracerFunctions[x]]
        BY <4>2 DEF ContentInv, ActiveArrayCurrent
      <4>4. QED
        BY <1>2, <2>2, <3>1, <4>3 DEF TypeOK
    <3>5. QED
      BY <1>1, <3>2, <3>3, <3>4 DEF ContentInv, arrayVars
  <2>3. QED BY <1>1, <2>1, <2>2
<1>8. QED BY <1>3, <1>4, <1>5, <1>6, <1>7

-----------------------------------------------------------------------------
(* The bookkeeping theorem *)

LEMMA ArraysStep == ArraysInv /\ [Next]_vars => ArraysInv'
<1> SUFFICES ASSUME ArraysInv, [Next]_vars PROVE ArraysInv'
  OBVIOUS
<1>1. CASE UNCHANGED vars
  <2>1. UNCHANGED Frame
    BY <1>1 DEF vars, Frame
  <2>2. TypeOK'
    BY <1>1 DEF vars, ArraysInv, TypeOK, threadVars, pointerVars, callVars, opVars, walkVars,
       tracerVars, arrayVars, mutexVars
  <2>3. QED BY <2>1, <2>2, CallFrame DEF ArraysInv
<1>2. ASSUME NEW t \in Thread, CallProgress(t) PROVE ArraysInv'
  BY <1>2, CallSteps_
<1>3. ASSUME NEW t \in Thread, ControlProgress(t) PROVE ArraysInv'
  <2>1. CASE SetEnabledProgress(t)
    BY <2>1, SetEnabledStep, ReturningSteps, FinishSteps DEF SetEnabledProgress
  <2>2. CASE DestroyProgress(t)
    BY <2>2, DestroyDisabledStep, ReturningSteps, DestroyWaitingStep, RetryStep, FinishSteps,
       DeleteStep
    DEF DestroyProgress
  <2>3. CASE WalkProgress(t)
    BY <2>3, TestArrayStep, TestThreadStep, FreeArrayStep DEF WalkProgress
  <2>4. QED BY <1>3, <2>1, <2>2, <2>3 DEF ControlProgress
<1>4. ASSUME NEW t \in Thread, Application(t) PROVE ArraysInv'
  BY <1>4, CallSteps_, ApplicationSteps DEF Application
<1>5. QED
  BY <1>1, <1>2, <1>3, <1>4 DEF Next

(* Under either memory model: the types, the accounting of arrays (none lost,
   none freed while active) and the content of the active array, for any
   number of threads and tracers. *)
THEOREM ArraysCorrect == Spec => [](TypeOK /\ ArraysAccounted /\ ActiveArrayCurrent)
<1>1. ArraysInv => TypeOK /\ ArraysAccounted /\ ActiveArrayCurrent
  BY DEF ArraysInv, ContentInv
<1>2. QED
  BY <1>1, ArraysInit, ArraysStep, PTL DEF Spec

-----------------------------------------------------------------------------
(* The hazard pointer, when stores are not delayed *)

LEMMA PinFrame ==
  PinInv /\ UNCHANGED <<arrayVars, threadVars, pointerVars, callVars, walkVars>> => PinInv'
BY DEF PinInv, Pinned, EntriesAt, arrayVars, threadVars, pointerVars, callVars, walkVars

LEMMA PinInit == Init => PinInv
BY DEF Init, PinInv, Pinned

\* Only the thread's own steps move its pointer; the second look settles that
\* the array is active, hence neither free nor on the retiring list.
LEMMA PinCallSteps ==
  ASSUME ~StoreBuffer, ArraysInv, PinInv, NEW t \in Thread,
         \/ CallProgress(t) \/ RegisterThread(t) \/ BeginCall(t) \/ ExitThread(t)
  PROVE  PinInv'
<1> USE DEF ArraysInv, TypeOK, PinInv, Pinned, CallSteps, EntriesAt, arrayVars, threadVars,
        pointerVars, callVars, walkVars
<1>1. CASE LoadActive(t)
  BY <1>1, ConstantsAssumption DEF LoadActive
<1>2. CASE PublishPointer(t)
  BY <1>2 DEF PublishPointer, StorePointer
<1>3. CASE RecheckActive(t)
  <2>1. CASE IsStable(t)
    <3>1. stableTracerArray[t] \in allocated \cup {EmptyArray}
      BY <2>1 DEF IsStable, ArraysAccounted
    <3>2. t \in cleared => stableTracerArray[t] # testing
      BY <2>1, ConstantsAssumption DEF IsStable, ArraysAccounted, WalkInv
    <3>3. QED
      BY <1>3, <2>1, <3>1, <3>2 DEF RecheckActive
  <2>2. CASE ~IsStable(t)
    BY <1>3, <2>2 DEF RecheckActive, RetryFrom
  <2>3. QED BY <2>1, <2>2
<1>4. CASE GatherCallbacks(t)
  BY <1>4 DEF GatherCallbacks, CopiedEntries
<1>5. CASE ReleaseActive(t)
  BY <1>5 DEF ReleaseActive, StorePointer
<1>6. CASE FlushStore(t)
  BY <1>6 DEF FlushStore
<1>7. CASE RegisterThread(t)
  BY <1>7 DEF RegisterThread
<1>8. CASE BeginCall(t)
  BY <1>8 DEF BeginCall
<1>9. CASE ExitThread(t)
  BY <1>9 DEF ExitThread
<1>10. QED
  BY <1>1, <1>2, <1>3, <1>4, <1>5, <1>6, <1>7, <1>8, <1>9 DEF CallProgress

\* An update allocates a free address: no array in use changes.
LEMMA UpdateKeepsArrays ==
  ASSUME ArraysInv, NEW t \in Thread, NEW S, updateTracerArrays(t, S)
  PROVE  /\ allocated \subseteq allocated'
         /\ \A p \in allocated \cup {EmptyArray} : EntriesAt(p)' = EntriesAt(p)
<1> USE DEF ArraysInv, TypeOK, updateTracerArrays
<1>1. CASE S = {}
  BY <1>1 DEF EntriesAt
<1>2. CASE S # {}
  <2> PICK a \in Array \ allocated :
          /\ allocated' = allocated \cup {a}
          /\ tracerArrayEntries' =
               [tracerArrayEntries EXCEPT ![a] =
                  {[tracer |-> r, functions |-> tracerFunctions[r]] : r \in S}]
    BY <1>2
  <2>1. \A p \in allocated \cup {EmptyArray} : p # a
    BY ConstantsAssumption
  <2>2. QED BY <2>1 DEF EntriesAt
<1>3. QED BY <1>1, <1>2

LEMMA PinSetEnabled ==
  ASSUME ArraysInv, PinInv, NEW t \in Thread, EnableTracer(t) \/ DisableTracer(t)
  PROVE  PinInv'
<1>1. \E S : updateTracerArrays(t, S)
  BY DEF EnableTracer, DisableTracer
<1>2. /\ allocated \subseteq allocated'
      /\ \A p \in allocated \cup {EmptyArray} : EntriesAt(p)' = EntriesAt(p)
  BY <1>1, UpdateKeepsArrays
<1>3. UNCHANGED <<threadVars, pointerVars, callVars, testing, cleared>>
  BY DEF EnableTracer, DisableTracer, updateTracerArrays, StartWalk
<1>4. ASSUME NEW u \in Thread
      PROVE  callbacks'[u] =
               IF callStep'[u] = "running" THEN EntriesAt(stableTracerArray[u])' ELSE {}
  BY <1>2, <1>3 DEF PinInv, Pinned, callVars, EntriesAt
<1>5. QED
  BY <1>2, <1>3, <1>4 DEF PinInv, Pinned, threadVars, pointerVars, callVars

\* The walk frees an array only after it has seen every thread on the list
\* point elsewhere, and a thread that pins the array is on the list.
LEMMA PinWalk ==
  ASSUME ArraysInv, PinInv, NEW t \in Thread, WalkProgress(t)
  PROVE  PinInv'
<1> USE DEF ArraysInv, TypeOK, PinInv, Pinned, threadVars, pointerVars, callVars, arrayVars
<1>1. CASE \E a \in Array : TestArray(t, a)
  BY <1>1 DEF TestArray, EntriesAt
<1>2. CASE \E u \in Thread : TestThread(t, u)
  BY <1>2 DEF TestThread, EntriesAt
<1>3. CASE FreeArray(t)
  <2>1. \A u \in Thread : Pinned(u) => stableTracerArray[u] # testing
    BY <1>3 DEF FreeArray
  <2>2. \A u \in Thread : Pinned(u) => EntriesAt(stableTracerArray[u])' = EntriesAt(stableTracerArray[u])
    BY <1>3, <2>1 DEF FreeArray, EntriesAt
  <2>3. QED BY <1>3, <2>1, <2>2 DEF FreeArray
<1>4. QED BY <1>1, <1>2, <1>3 DEF WalkProgress

\* Every other control step leaves arrays, threads, pointers and calls alone.
LEMMA PinControl ==
  ASSUME ArraysInv, PinInv, NEW t \in Thread, ControlProgress(t)
  PROVE  PinInv'
<1>1. CASE EnableTracer(t) \/ DisableTracer(t)
  BY <1>1, PinSetEnabled
<1>2. CASE WalkProgress(t)
  BY <1>2, PinWalk
<1>3. CASE DestroyWaiting(t)
  BY <1>3 DEF DestroyWaiting, StartWalk, PinInv, Pinned, EntriesAt, arrayVars, threadVars,
     pointerVars, callVars
<1>4. CASE RetryDestroy(t)
  BY <1>4 DEF RetryDestroy, PinInv, Pinned, EntriesAt, arrayVars, threadVars, pointerVars,
     callVars
<1>5. CASE \/ EnableEnabled(t) \/ DisableDisabled(t) \/ SetEnabledInUse(t) \/ DestroyInUse(t)
           \/ DestroyDisabled(t) \/ DeleteTracer(t)
           \/ FinishEnable(t) \/ FinishDisable(t) \/ FinishDestroyWait(t)
  <2>1. UNCHANGED <<arrayVars, threadVars, pointerVars, callVars, walkVars>>
    BY <1>5 DEF EnableEnabled, DisableDisabled, SetEnabledInUse, DestroyInUse, ReturnAtOnce,
       DestroyDisabled, DeleteTracer, FinishEnable, FinishDisable, FinishDestroyWait,
       UnlockTable
  <2>2. QED BY <2>1, PinFrame
<1>6. QED
  BY <1>1, <1>2, <1>3, <1>4, <1>5
  DEF ControlProgress, SetEnabledProgress, DestroyProgress

LEMMA PinStep ==
  ASSUME ~StoreBuffer
  PROVE  ArraysInv /\ PinInv /\ [Next]_vars => PinInv'
<1> SUFFICES ASSUME ArraysInv, PinInv, [Next]_vars PROVE PinInv'
  OBVIOUS
<1>1. CASE UNCHANGED vars
  BY <1>1, PinFrame DEF vars
<1>2. ASSUME NEW t \in Thread, CallProgress(t) PROVE PinInv'
  BY <1>2, PinCallSteps
<1>3. ASSUME NEW t \in Thread, ControlProgress(t) PROVE PinInv'
  BY <1>3, PinControl
<1>4. ASSUME NEW t \in Thread, Application(t) PROVE PinInv'
  <2>1. CASE RegisterThread(t) \/ BeginCall(t) \/ ExitThread(t)
    BY <2>1, PinCallSteps
  <2>2. CASE \E r \in Tracer : \/ createAPITracer(t, r)
                               \/ \E f \in Callback : setCallbacks(t, r, f)
                               \/ \E kind \in OpKinds : Request(t, kind, r)
    <3>1. UNCHANGED <<arrayVars, threadVars, pointerVars, callVars, walkVars>>
      BY <2>2 DEF createAPITracer, setCallbacks, Request
    <3>2. QED BY <3>1, PinFrame
  <2>3. QED BY <1>4, <2>1, <2>2 DEF Application
<1>5. QED
  BY <1>1, <1>2, <1>3, <1>4 DEF Next

\* What a call holds is the content of an array that is still allocated, and
\* an allocated array names only tracers that are neither deleted nor drained.
LEMMA PinImplies ==
  ArraysInv /\ PinInv => PinnedArrayLive /\ InHandTracersHeld /\ InHandCallbacksCurrent
<1> SUFFICES ASSUME ArraysInv, PinInv
             PROVE  PinnedArrayLive /\ InHandTracersHeld /\ InHandCallbacksCurrent
  OBVIOUS
<1>1. PinnedArrayLive
  BY DEF PinInv, PinnedArrayLive
<1>2. ASSUME NEW t \in Thread, NEW e \in InHand(t)
      PROVE  /\ tracingState[e.tracer] \in {"enabled", "disabledWaiting"}
             /\ e.functions = tracerFunctions[e.tracer]
  <2>1. Pinned(t) /\ e \in EntriesAt(stableTracerArray[t])
    BY DEF InHand, PinInv, Pinned
  <2>2. stableTracerArray[t] \in allocated /\ e \in tracerArrayEntries[stableTracerArray[t]]
    BY <2>1, ConstantsAssumption DEF PinInv, EntriesAt
  <2>3. QED
    BY <2>2 DEF ArraysInv, ContentInv
<1>3. QED
  BY <1>1, <1>2 DEF InHandTracersHeld, InHandCallbacksCurrent

(* When a thread's store of its pointer is visible before its next load, no
   array is freed under a call, no tracer is deleted or re-registered while a
   call runs its callbacks: for any number of threads, tracers and arrays. *)
THEOREM CallsAreSafe ==
  ASSUME ~StoreBuffer
  PROVE  Spec => [](PinnedArrayLive /\ InHandTracersHeld /\ InHandCallbacksCurrent)
<1>1. Init => ArraysInv /\ PinInv
  BY ArraysInit, PinInit
<1>2. (ArraysInv /\ PinInv) /\ [Next]_vars => (ArraysInv /\ PinInv)'
  BY ArraysStep, PinStep
<1>3. ArraysInv /\ PinInv => PinnedArrayLive /\ InHandTracersHeld /\ InHandCallbacksCurrent
  BY PinImplies
<1>4. QED
  BY <1>1, <1>2, <1>3, PTL DEF Spec

-----------------------------------------------------------------------------
(* The layer implements TracerRegistry *)

existing == {r \in Tracer : tracingState[r] # "absent"}
enabled  == {r \in Tracer : tracingState[r] = "enabled"}
running  == [t \in Thread |-> InHand(t)]

PinnedInv == ArraysInv /\ PinInv

LEMMA RegistryInit == Init => Registry!Init
BY DEF Init, Registry!Init, InHand

\* What a call holds does not change while its array does not.
LEMMA InHandFrame ==
  ASSUME PinnedInv, PinnedInv', UNCHANGED callVars,
         \A t \in Thread : Pinned(t) =>
           EntriesAt(stableTracerArray[t])' = EntriesAt(stableTracerArray[t])
  PROVE  running' = running
<1>1. ASSUME NEW t \in Thread PROVE InHand(t)' = InHand(t)
  BY DEF InHand, Pinned, callVars, EntriesAt
<1>2. QED BY <1>1 DEF running

\* Nothing the registry sees has changed.
LEMMA Stutter ==
  ASSUME UNCHANGED <<tracingState, tracerFunctions, running>>
  PROVE  UNCHANGED Registry!vars
BY DEF Registry!vars, running

LEMMA NotInHand ==
  ASSUME PinnedInv, NEW r \in Tracer, tracingState[r] \notin {"enabled", "disabledWaiting"}
  PROVE  ~Registry!InUse(r)
<1>1. InHandTracersHeld
  BY PinImplies DEF PinnedInv
<1>2. QED BY <1>1 DEF InHandTracersHeld, Registry!InUse

LEMMA RegistryCall ==
  ASSUME PinnedInv, PinnedInv', NEW t \in Thread,
         \/ CallProgress(t) \/ RegisterThread(t) \/ BeginCall(t) \/ ExitThread(t)
  PROVE  Registry!Next \/ UNCHANGED Registry!vars
<1> USE DEF PinnedInv, ArraysInv, TypeOK, callVars, tracerVars, arrayVars
<1>1. UNCHANGED <<tracingState, tracerFunctions, arrayVars>>
  BY DEF CallProgress, LoadActive, PublishPointer, RecheckActive, GatherCallbacks,
     ReleaseActive, FlushStore, RegisterThread, BeginCall, ExitThread
<1>2. CASE RecheckActive(t) /\ IsStable(t)
  <2>1. InHand(t) = {}
    BY <1>2 DEF InHand, RecheckActive
  <2>2. InHand(t)' = EntriesAt(activeTracerArray)
    BY <1>1, <1>2 DEF InHand, RecheckActive, IsStable, EntriesAt
  <2>3. \A u \in Thread \ {t} : InHand(u)' = InHand(u)
    BY <1>1, <1>2 DEF InHand, RecheckActive, EntriesAt
  <2>4. EntriesAt(activeTracerArray) = Registry!Entries(enabled)
    BY DEF ContentInv, ActiveArrayCurrent, Registry!Entries, enabled
  <2>5. running[t] = {} /\ running' = [running EXCEPT ![t] = Registry!Entries(enabled)]
    BY <2>1, <2>2, <2>3, <2>4 DEF running
  <2>6. Registry!Start(t)
    BY <1>1, <2>5 DEF Registry!Start, running, enabled
  <2>7. QED BY <2>6 DEF Registry!Next
<1>3. CASE ReleaseActive(t)
  <2>1. InHand(t)' = {}
    BY <1>3 DEF InHand, ReleaseActive, CallSteps
  <2>2. \A u \in Thread \ {t} : InHand(u)' = InHand(u)
    BY <1>1, <1>3 DEF InHand, ReleaseActive, EntriesAt
  <2>3. Registry!Finish(t)
    BY <1>1, <2>1, <2>2 DEF Registry!Finish
  <2>4. QED BY <2>3 DEF Registry!Next
<1>4. CASE \/ LoadActive(t) \/ PublishPointer(t) \/ FlushStore(t) \/ GatherCallbacks(t)
           \/ RegisterThread(t) \/ BeginCall(t) \/ ExitThread(t)
           \/ RecheckActive(t) /\ ~IsStable(t)
  <2>1. ASSUME NEW u \in Thread PROVE InHand(u)' = InHand(u)
    <3>1. CASE GatherCallbacks(t)
      BY <1>1, <3>1 DEF InHand, GatherCallbacks, CopiedEntries, EntriesAt
    <3>2. CASE LoadActive(t) \/ PublishPointer(t) \/ RegisterThread(t) \/ BeginCall(t)
      BY <1>1, <3>2 DEF InHand, LoadActive, PublishPointer, RegisterThread, BeginCall, EntriesAt
    <3>3. CASE FlushStore(t) \/ ExitThread(t)
      BY <1>1, <3>3 DEF InHand, FlushStore, ExitThread, EntriesAt
    <3>4. CASE RecheckActive(t) /\ ~IsStable(t)
      BY <1>1, <3>4 DEF InHand, RecheckActive, RetryFrom, EntriesAt
    <3>5. QED BY <1>4, <3>1, <3>2, <3>3, <3>4
  <2>2. running' = running
    BY <2>1 DEF running
  <2>3. QED BY <1>1, <2>2, Stutter
<1>5. QED
  BY <1>2, <1>3, <1>4 DEF CallProgress

LEMMA RegistrySetEnabled ==
  ASSUME PinnedInv, PinnedInv', NEW t \in Thread, EnableTracer(t) \/ DisableTracer(t)
  PROVE  Registry!Next
<1>0. opTracer[t] \in Tracer
  BY DEF EnableTracer, DisableTracer, Lock, PinnedInv, ArraysInv, OpInv, TypeOK
<1> PICK r \in Tracer : r = opTracer[t]
  BY <1>0
<1>1. \E S : updateTracerArrays(t, S)
  BY DEF EnableTracer, DisableTracer
<1>2. \A p \in allocated \cup {EmptyArray} : EntriesAt(p)' = EntriesAt(p)
  BY <1>1, UpdateKeepsArrays DEF PinnedInv
<1>3. UNCHANGED callVars /\ UNCHANGED tracerFunctions
  BY DEF EnableTracer, DisableTracer
<1>4. \A u \in Thread : Pinned(u) =>
        EntriesAt(stableTracerArray[u])' = EntriesAt(stableTracerArray[u])
  BY <1>2, <1>3 DEF PinnedInv, PinInv, EntriesAt, callVars
<1>5. running' = running
  BY <1>3, <1>4, InHandFrame
<1>6. CASE EnableTracer(t)
  <2>1. tracingState[r] = "disabled" /\ tracingState' = [tracingState EXCEPT ![r] = "enabled"]
    BY <1>6 DEF EnableTracer, Lock
  <2>2. Registry!Enable(r)
    BY <1>3, <1>5, <2>1 DEF Registry!Enable, running, PinnedInv, ArraysInv, TypeOK
  <2>3. QED BY <2>2 DEF Registry!Next
<1>7. CASE DisableTracer(t)
  <2>1. /\ tracingState[r] = "enabled"
        /\ tracingState' = [tracingState EXCEPT ![r] = "disabledWaiting"]
    BY <1>7 DEF DisableTracer, Lock
  <2>2. Registry!Disable(r)
    BY <1>3, <1>5, <2>1 DEF Registry!Disable, running, PinnedInv, ArraysInv, TypeOK
  <2>3. QED BY <2>2 DEF Registry!Next
<1>8. QED BY <1>6, <1>7

LEMMA RegistryControl ==
  ASSUME PinnedInv, PinnedInv', NEW t \in Thread, ControlProgress(t)
  PROVE  Registry!Next \/ UNCHANGED Registry!vars
<1> USE DEF PinnedInv
<1>1. CASE EnableTracer(t) \/ DisableTracer(t)
  BY <1>1, RegistrySetEnabled
<1>2. CASE DeleteTracer(t)
  <2>0. opTracer[t] \in Tracer
    BY <1>2 DEF DeleteTracer, ArraysInv, OpInv, TypeOK
  <2> PICK r \in Tracer : r = opTracer[t]
    BY <2>0
  <2>1. tracingState[r] = "disabled"
    BY <1>2 DEF DeleteTracer, ArraysInv, OpInv, TypeOK
  <2>2. running' = running
    BY <1>2, InHandFrame DEF DeleteTracer, arrayVars, EntriesAt, callVars
  <2>3. ~Registry!InUse(r)
    BY <2>1, NotInHand
  <2>4. Registry!Destroy(r)
    BY <1>2, <2>1, <2>2, <2>3
    DEF DeleteTracer, Registry!Destroy, running, ArraysInv, TypeOK
  <2>5. QED BY <2>4 DEF Registry!Next
<1>3. CASE WalkProgress(t)
  <2>1. UNCHANGED tracerVars /\ UNCHANGED callVars
    BY <1>3 DEF WalkProgress, TestArray, TestThread, FreeArray
  <2>2. ASSUME NEW u \in Thread, Pinned(u)
        PROVE  EntriesAt(stableTracerArray[u])' = EntriesAt(stableTracerArray[u])
    <3>1. CASE FreeArray(t)
      <4>1. stableTracerArray[u] # testing
        BY <2>2, <3>1 DEF FreeArray, PinInv, Pinned
      <4>2. QED BY <2>1, <3>1, <4>1 DEF FreeArray, EntriesAt, ArraysInv, TypeOK, callVars
    <3>2. CASE UNCHANGED arrayVars
      BY <2>1, <3>2 DEF EntriesAt, arrayVars, callVars
    <3>3. QED BY <1>3, <3>1, <3>2 DEF WalkProgress, TestArray, TestThread
  <2>3. running' = running
    BY <2>1, <2>2, InHandFrame
  <2>4. QED BY <2>1, <2>3, Stutter DEF tracerVars
<1>4. CASE \/ EnableEnabled(t) \/ DisableDisabled(t) \/ SetEnabledInUse(t) \/ DestroyInUse(t)
           \/ DestroyDisabled(t) \/ DestroyWaiting(t) \/ RetryDestroy(t)
           \/ FinishEnable(t) \/ FinishDisable(t) \/ FinishDestroyWait(t)
  <2>1. UNCHANGED <<tracerFunctions, arrayVars, callVars>>
    BY <1>4 DEF EnableEnabled, DisableDisabled, SetEnabledInUse, DestroyInUse, ReturnAtOnce,
       DestroyDisabled, DestroyWaiting, RetryDestroy, FinishEnable, FinishDisable,
       FinishDestroyWait, UnlockTable, tracerVars
  <2>2. running' = running
    BY <2>1, InHandFrame DEF arrayVars, callVars, EntriesAt
  <2>3. \A r \in Tracer : /\ tracingState'[r] = "absent" <=> tracingState[r] = "absent"
                          /\ tracingState'[r] = "enabled" <=> tracingState[r] = "enabled"
    <3>1. CASE UNCHANGED tracingState
      BY <3>1
    <3>2. CASE FinishDisable(t) \/ FinishDestroyWait(t)
      BY <3>2 DEF FinishDisable, FinishDestroyWait, WalkEnds, ArraysInv, OpInv, TypeOK
    <3>3. QED
      BY <1>4, <3>1, <3>2
      DEF EnableEnabled, DisableDisabled, SetEnabledInUse, DestroyInUse, ReturnAtOnce,
          DestroyDisabled, DestroyWaiting, RetryDestroy, FinishEnable, tracerVars
  <2>4. QED BY <2>1, <2>2, <2>3 DEF Registry!vars, running
<1>5. QED
  BY <1>1, <1>2, <1>3, <1>4 DEF ControlProgress, SetEnabledProgress, DestroyProgress

LEMMA RegistryApplication ==
  ASSUME PinnedInv, PinnedInv', NEW t \in Thread, NEW r \in Tracer,
         \/ createAPITracer(t, r)
         \/ \E f \in Callback : setCallbacks(t, r, f)
         \/ \E kind \in OpKinds : Request(t, kind, r)
  PROVE  Registry!Next \/ UNCHANGED Registry!vars
<1> USE DEF PinnedInv
<1>1. UNCHANGED arrayVars /\ UNCHANGED callVars
  BY DEF createAPITracer, setCallbacks, Request
<1>2. running' = running
  BY <1>1, InHandFrame DEF arrayVars, callVars, EntriesAt
<1>3. CASE createAPITracer(t, r)
  <2>1. Registry!Create(r)
    BY <1>2, <1>3 DEF createAPITracer, Registry!Create, running, ArraysInv, TypeOK
  <2>2. QED BY <2>1 DEF Registry!Next
<1>4. CASE \E f \in Callback : setCallbacks(t, r, f)
  <2> PICK f \in Callback : setCallbacks(t, r, f)
    BY <1>4
  <2>1. tracingState[r] = "disabled" /\ UNCHANGED tracingState
    BY DEF setCallbacks, MayRegister
  <2>2. ~Registry!InUse(r)
    BY <2>1, NotInHand
  <2>3. Registry!Register(r, f)
    BY <1>2, <2>1, <2>2 DEF setCallbacks, Registry!Register, running
  <2>4. QED BY <2>3 DEF Registry!Next
<1>5. CASE \E kind \in OpKinds : Request(t, kind, r)
  BY <1>2, <1>5, Stutter DEF Request, tracerVars
<1>6. QED BY <1>3, <1>4, <1>5

LEMMA RegistryStep ==
  PinnedInv /\ PinnedInv' /\ [Next]_vars => Registry!Next \/ UNCHANGED Registry!vars
<1> SUFFICES ASSUME PinnedInv, PinnedInv', [Next]_vars
             PROVE  Registry!Next \/ UNCHANGED Registry!vars
  OBVIOUS
<1>1. CASE UNCHANGED vars
  <2>1. running' = running
    BY <1>1, InHandFrame DEF vars, arrayVars, callVars, EntriesAt
  <2>2. QED BY <1>1, <2>1, Stutter DEF vars, tracerVars
<1>2. ASSUME NEW t \in Thread, CallProgress(t)
      PROVE  Registry!Next \/ UNCHANGED Registry!vars
  BY <1>2, RegistryCall
<1>3. ASSUME NEW t \in Thread, ControlProgress(t)
      PROVE  Registry!Next \/ UNCHANGED Registry!vars
  BY <1>3, RegistryControl
<1>4. ASSUME NEW t \in Thread, Application(t)
      PROVE  Registry!Next \/ UNCHANGED Registry!vars
  BY <1>4, RegistryCall, RegistryApplication DEF Application
<1>5. QED
  BY <1>1, <1>2, <1>3, <1>4 DEF Next

(* Under the same condition on stores the layer keeps the whole promise of
   TracerRegistry: every traced call works on the tracers enabled at one
   instant of it, and none of them changes or goes away before it is over. *)
THEOREM LayerImplementsRegistry ==
  ASSUME ~StoreBuffer
  PROVE  Spec => ImplementsRegistry
<1>1. Init => PinnedInv /\ Registry!Init
  BY ArraysInit, PinInit, RegistryInit DEF PinnedInv
<1>2. PinnedInv /\ [Next]_vars => PinnedInv'
  BY ArraysStep, PinStep DEF PinnedInv
<1>3. PinnedInv /\ PinnedInv' /\ [Next]_vars => [Registry!Next]_(Registry!vars)
  BY RegistryStep
<1>4. QED
  BY <1>1, <1>2, <1>3, PTL DEF Spec, ImplementsRegistry, Registry!Spec

=============================================================================

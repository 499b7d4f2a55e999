---------------------------- MODULE TracerArrays ----------------------------
(***************************************************************************)
(* The lock-free heart of the tracing layer (source/layers/tracing).       *)
(* Every traced API call pins the active tracer array with a per-thread    *)
(* pointer (a hazard pointer), copies the callbacks it finds there, and    *)
(* unpins the array when the last epilogue has returned.  Enabling or      *)
(* disabling a tracer builds a new array, retires the old one, and frees   *)
(* the retired arrays no thread points to; destroying a tracer waits until *)
(* every retired array is gone.                                            *)
(*                                                                         *)
(* Names are the source's.  Array addresses and tracer handles come from   *)
(* finite sets and are reused after a free, as an allocator reuses them.   *)
(* A thread's call and its control operation (SetEnabled, Destroy) are two *)
(* program counters: a callback may itself call the tracing API.           *)
(***************************************************************************)
EXTENDS Naturals, FiniteSets

CONSTANTS
  Thread,              \* the application's threads
  Tracer,              \* tracer handles
  Array,               \* heap addresses of tracer arrays; its size bounds how many live at once
  Callback,            \* callback tables (prologues and epilogues together)
  NoCallback,          \* the all-null table of a fresh tracer
  EmptyArray,          \* the static emptyTracerArray, never freed
  Null,                \* the null pointer
  NoThread,            \* owner of a free mutex
  NoTracer,            \* the tracer of no operation
  NoStore,             \* content of an empty store buffer
  StoreBuffer,         \* TRUE: a relaxed store may be delayed past later loads (x86-TSO)
  ControlInCallbacks   \* TRUE: callbacks may call the tracing API themselves

ASSUME ConstantsAssumption ==
  /\ NoCallback \in Callback
  /\ EmptyArray \notin Array /\ Null \notin Array /\ EmptyArray # Null
  /\ NoThread \notin Thread /\ NoTracer \notin Tracer
  /\ NoStore \notin Array \cup {EmptyArray, Null}
  /\ StoreBuffer \in BOOLEAN
  /\ ControlInCallbacks \in BOOLEAN

VARIABLES
  (* APITracerImp, one per tracer *)
  tracingState,              \* "absent" (not created, or deleted) or a tracingState_t
  tracerFunctions,           \* the callbacks registered on the tracer; all null when it is created
  (* APITracerContextImp, shared *)
  enabledTracerImpList,
  activeTracerArray,         \* atomic<tracer_array_t *>
  retiringTracerArrayList,
  allocated,                 \* the addresses that hold an array
  tracerArrayEntries,        \* the content of each array
  traceTableMutex,
  threadTracerDataListMutex,
  threadTracerDataList,      \* the threads whose private data is on the list (onList)
  (* ThreadPrivateTracerData, one per thread *)
  isInitialized,             \* the threads that have ever registered
  tracerArrayPointer,        \* the hazard pointer, as other threads read it
  storeBuffer,               \* the thread's last store to it, not yet visible
  (* locals of a traced call *)
  callStep,
  stableTracerArray,
  callbacks,                 \* the copied prologCallbacks and epilogCallbacks
  (* locals of a control operation *)
  opStep, opKind, opTracer,
  (* locals of testAndFreeRetiredTracers, run by the holder of traceTableMutex *)
  untested,                  \* the retired arrays the walk has yet to reach
  testing,                   \* the array being looked for, or Null
  cleared                    \* the threads seen not to point to it

tracerVars  == <<tracingState, tracerFunctions, enabledTracerImpList>>
arrayVars   == <<activeTracerArray, retiringTracerArrayList, allocated, tracerArrayEntries>>
threadVars  == <<threadTracerDataList, isInitialized>>
pointerVars == <<tracerArrayPointer, storeBuffer>>
callVars    == <<callStep, stableTracerArray, callbacks>>
opVars      == <<opStep, opKind, opTracer>>
walkVars    == <<untested, testing, cleared>>
mutexVars   == <<traceTableMutex, threadTracerDataListMutex>>
vars == <<tracerVars, arrayVars, threadVars, pointerVars, callVars, opVars, walkVars, mutexVars>>

-----------------------------------------------------------------------------
(* Types *)

Pointer == Array \cup {EmptyArray, Null}
Entry   == [tracer : Tracer, functions : Callback]

CallSteps == {"idle", "load", "publish", "recheck", "gather", "running"}
OpSteps   == {"none", "acquire", "walk", "delete"}
OpKinds   == {"enable", "disable", "destroy"}  \* zelTracerSetEnabled, zelTracerDestroy

TypeOK ==
  /\ tracingState \in [Tracer -> {"absent", "disabled", "enabled", "disabledWaiting"}]
  /\ tracerFunctions \in [Tracer -> Callback]
  /\ enabledTracerImpList \subseteq Tracer
  /\ activeTracerArray \in Array \cup {EmptyArray}
  /\ retiringTracerArrayList \subseteq Array
  /\ allocated \subseteq Array
  /\ tracerArrayEntries \in [Array -> SUBSET Entry]
  /\ traceTableMutex \in Thread \cup {NoThread}
  /\ threadTracerDataListMutex \in Thread \cup {NoThread}
  /\ threadTracerDataList \subseteq Thread
  /\ isInitialized \subseteq Thread
  /\ tracerArrayPointer \in [Thread -> Pointer]
  /\ storeBuffer \in [Thread -> Pointer \cup {NoStore}]
  /\ callStep \in [Thread -> CallSteps]
  /\ stableTracerArray \in [Thread -> Pointer]
  /\ callbacks \in [Thread -> SUBSET Entry]
  /\ opStep \in [Thread -> OpSteps]
  /\ opKind \in [Thread -> OpKinds \cup {"none"}]
  /\ opTracer \in [Thread -> Tracer \cup {NoTracer}]
  /\ untested \subseteq Array
  /\ testing \in Array \cup {Null}
  /\ cleared \subseteq Thread

Init ==
  /\ tracingState = [r \in Tracer |-> "absent"]
  /\ tracerFunctions = [r \in Tracer |-> NoCallback]
  /\ enabledTracerImpList = {}
  /\ activeTracerArray = EmptyArray
  /\ retiringTracerArrayList = {}
  /\ allocated = {}
  /\ tracerArrayEntries = [a \in Array |-> {}]
  /\ traceTableMutex = NoThread
  /\ threadTracerDataListMutex = NoThread
  /\ threadTracerDataList = {}
  /\ isInitialized = {}
  /\ tracerArrayPointer = [t \in Thread |-> Null]
  /\ storeBuffer = [t \in Thread |-> NoStore]
  /\ callStep = [t \in Thread |-> "idle"]
  /\ stableTracerArray = [t \in Thread |-> Null]
  /\ callbacks = [t \in Thread |-> {}]
  /\ opStep = [t \in Thread |-> "none"]
  /\ opKind = [t \in Thread |-> "none"]
  /\ opTracer = [t \in Thread |-> NoTracer]
  /\ untested = {}
  /\ testing = Null
  /\ cleared = {}

-----------------------------------------------------------------------------
(* The thread's own memory *)

\* A store to the thread's tracerArrayPointer with memory_order_relaxed.
StorePointer(t, p) ==
  IF StoreBuffer
  THEN /\ storeBuffer[t] = NoStore
       /\ storeBuffer' = [storeBuffer EXCEPT ![t] = p]
       /\ UNCHANGED tracerArrayPointer
  ELSE /\ tracerArrayPointer' = [tracerArrayPointer EXCEPT ![t] = p]
       /\ UNCHANGED storeBuffer

\* The processor makes a delayed store visible.
FlushStore(t) ==
  /\ storeBuffer[t] # NoStore
  /\ tracerArrayPointer' = [tracerArrayPointer EXCEPT ![t] = storeBuffer[t]]
  /\ storeBuffer' = [storeBuffer EXCEPT ![t] = NoStore]
  /\ UNCHANGED <<tracerVars, arrayVars, threadVars, callVars, opVars, walkVars, mutexVars>>

\* Locking a mutex is a fence: the thread's delayed store is visible first.
CanLock(t, mutex) == mutex = NoThread /\ storeBuffer[t] = NoStore

-----------------------------------------------------------------------------
(* A traced API call: ZE_HANDLE_TRACER_RECURSION lets one traced call per   *)
(* thread in; a call made from inside it goes straight to the driver and    *)
(* changes nothing here.                                                    *)

\* The first traced call of a thread puts its private data on the list.
RegisterThread(t) ==
  /\ callStep[t] = "idle" /\ opStep[t] = "none"
  /\ t \notin isInitialized
  /\ CanLock(t, threadTracerDataListMutex)
  /\ isInitialized' = isInitialized \cup {t}
  /\ threadTracerDataList' = threadTracerDataList \cup {t}
  /\ callStep' = [callStep EXCEPT ![t] = "load"]
  /\ UNCHANGED <<tracerVars, arrayVars, pointerVars, stableTracerArray, callbacks, opVars,
                 walkVars, mutexVars>>

\* A later call of a thread still on the list.  (Once it has left the list,
\* getActiveTracersList returns null and the call is not traced at all.)
BeginCall(t) ==
  /\ callStep[t] = "idle" /\ opStep[t] = "none"
  /\ t \in threadTracerDataList
  /\ callStep' = [callStep EXCEPT ![t] = "load"]
  /\ UNCHANGED <<tracerVars, arrayVars, threadVars, pointerVars, stableTracerArray, callbacks,
                 opVars, walkVars, mutexVars>>

\* getActiveTracersList, in three steps: load, publish the pointer, look again.
LoadActive(t) ==
  /\ callStep[t] = "load"
  /\ stableTracerArray' = [stableTracerArray EXCEPT ![t] = activeTracerArray]
  /\ callStep' = [callStep EXCEPT ![t] = "publish"]
  /\ UNCHANGED <<tracerVars, arrayVars, threadVars, pointerVars, callbacks, opVars, walkVars,
                 mutexVars>>

PublishPointer(t) ==
  /\ callStep[t] = "publish"
  /\ StorePointer(t, stableTracerArray[t])
  /\ callStep' = [callStep EXCEPT ![t] = "recheck"]
  /\ UNCHANGED <<tracerVars, arrayVars, threadVars, stableTracerArray, callbacks, opVars,
                 walkVars, mutexVars>>

\* Mutant: no second look, the first load is taken as it is.
NoRecheck(t) == TRUE

IsStable(t) == stableTracerArray[t] = activeTracerArray

\* Mutant: only the publication is inside the loop, the load is not.
PublishAgain == "publish"

RetryFrom == "load"

RecheckActive(t) ==
  /\ callStep[t] = "recheck"
  /\ IF IsStable(t)
     THEN /\ callStep' = [callStep EXCEPT ![t] = "gather"]
          /\ UNCHANGED stableTracerArray
     ELSE /\ callStep' = [callStep EXCEPT ![t] = RetryFrom]
          /\ stableTracerArray' = [stableTracerArray EXCEPT ![t] = Null]
  /\ UNCHANGED <<tracerVars, arrayVars, threadVars, pointerVars, callbacks, opVars, walkVars,
                 mutexVars>>

EntriesAt(p) == IF p \in Array THEN tracerArrayEntries[p] ELSE {}

\* Mutant: the copy reads the active array, not the pinned one.
CopyActive(t) == EntriesAt(activeTracerArray)

CopiedEntries(t) == EntriesAt(stableTracerArray[t])

\* ZE_GEN_PER_API_CALLBACK_STATE copies what the pinned array holds.
GatherCallbacks(t) ==
  /\ callStep[t] = "gather"
  /\ callbacks' = [callbacks EXCEPT ![t] = CopiedEntries(t)]
  /\ callStep' = [callStep EXCEPT ![t] = "running"]
  /\ UNCHANGED <<tracerVars, arrayVars, threadVars, pointerVars, stableTracerArray, opVars,
                 walkVars, mutexVars>>

\* "running" is the prologues, the driver's function and the epilogues; the
\* pointer is cleared after the last epilogue.
ReleaseActive(t) ==
  /\ callStep[t] = "running" /\ opStep[t] = "none"
  /\ StorePointer(t, Null)
  /\ callStep' = [callStep EXCEPT ![t] = "idle"]
  /\ stableTracerArray' = [stableTracerArray EXCEPT ![t] = Null]
  /\ callbacks' = [callbacks EXCEPT ![t] = {}]
  /\ UNCHANGED <<tracerVars, arrayVars, threadVars, opVars, walkVars, mutexVars>>

\* The thread ends: its private data leaves the list, the pointer is cleared.
ExitThread(t) ==
  /\ callStep[t] = "idle" /\ opStep[t] = "none"
  /\ t \in threadTracerDataList
  /\ CanLock(t, threadTracerDataListMutex)
  /\ threadTracerDataList' = threadTracerDataList \ {t}
  /\ tracerArrayPointer' = [tracerArrayPointer EXCEPT ![t] = Null]
  /\ UNCHANGED <<tracerVars, arrayVars, isInitialized, storeBuffer, callVars, opVars, walkVars,
                 mutexVars>>

-----------------------------------------------------------------------------
(* Control operations.  "The application must not call this function from   *)
(* simultaneous threads with the same tracer handle" is a guard of each.    *)

CanControl(t, r) ==
  /\ opStep[t] = "none"
  /\ callStep[t] = "idle" \/ (ControlInCallbacks /\ callStep[t] = "running")
  /\ \A u \in Thread : opTracer[u] # r

createAPITracer(t, r) ==
  /\ CanControl(t, r)
  /\ tracingState[r] = "absent"
  /\ tracingState' = [tracingState EXCEPT ![r] = "disabled"]
  /\ UNCHANGED <<tracerFunctions, enabledTracerImpList, arrayVars, threadVars, pointerVars, callVars, opVars,
                 walkVars, mutexVars>>

\* Mutant: registration is refused only while the tracer is enabled.
NotEnabled(r) == tracingState[r] \notin {"enabled", "absent"}

\* The test every registration function makes first.
MayRegister(r) == tracingState[r] = "disabled"

\* setPrologues, setEpilogues, the per-API register functions (through
\* getZeProEpilogues) and resetAllCallbacks.  No mutex: the state is read
\* unlocked.  In any other state they return ZE_RESULT_ERROR_INVALID_ARGUMENT.
setCallbacks(t, r, f) ==
  /\ CanControl(t, r)
  /\ MayRegister(r)
  /\ tracerFunctions' = [tracerFunctions EXCEPT ![r] = f]
  /\ UNCHANGED <<tracingState, enabledTracerImpList, arrayVars, threadVars, pointerVars,
                 callVars, opVars, walkVars, mutexVars>>

\* zelTracerSetEnabled and zelTracerDestroy arrive and wait for the mutex.
Request(t, kind, r) ==
  /\ CanControl(t, r)
  /\ tracingState[r] # "absent"
  /\ opStep' = [opStep EXCEPT ![t] = "acquire"]
  /\ opKind' = [opKind EXCEPT ![t] = kind]
  /\ opTracer' = [opTracer EXCEPT ![t] = r]
  /\ UNCHANGED <<tracerVars, arrayVars, threadVars, pointerVars, callVars, walkVars, mutexVars>>

\* Thread t takes traceTableMutex and finds its tracer in state s.
Lock(t, kind, s) ==
  /\ opStep[t] = "acquire" /\ opKind[t] = kind
  /\ tracingState[opTracer[t]] = s
  /\ CanLock(t, traceTableMutex)

StartWalk(t, arrays) ==
  /\ untested' = arrays
  /\ opStep' = [opStep EXCEPT ![t] = "walk"]
  /\ traceTableMutex' = t
  /\ UNCHANGED <<testing, cleared, opKind, opTracer, threadTracerDataListMutex>>

\* The operation is over; its locals are gone.
EndOperation(t) ==
  /\ opStep' = [opStep EXCEPT ![t] = "none"]
  /\ opKind' = [opKind EXCEPT ![t] = "none"]
  /\ opTracer' = [opTracer EXCEPT ![t] = NoTracer]

\* The operation returns under the mutex it has just taken, nothing changed.
ReturnAtOnce(t) ==
  /\ EndOperation(t)
  /\ UNCHANGED <<tracerVars, arrayVars, threadVars, pointerVars, callVars, walkVars, mutexVars>>

\* The mutex is released and destroyTracer goes on to delete the tracer.
GoOnToDelete(t) ==
  /\ opStep' = [opStep EXCEPT ![t] = "delete"]
  /\ UNCHANGED <<opKind, opTracer>>

\* Mutant: the replaced array is forgotten.
Forgotten == {}

\* Mutant: the static empty array is retired like any other.
RetiredEvenEmpty == {activeTracerArray}

\* What an update adds to the retiring list.
Replaced == {activeTracerArray} \ {EmptyArray}

\* updateTracerArrays up to the store that makes the new array visible; the
\* walk over the retired arrays follows in steps of its own.
updateTracerArrays(t, tracers) ==
  /\ IF tracers = {}
     THEN /\ activeTracerArray' = EmptyArray
          /\ UNCHANGED <<allocated, tracerArrayEntries>>
     ELSE \E a \in Array \ allocated :
            /\ activeTracerArray' = a
            /\ allocated' = allocated \cup {a}
            /\ tracerArrayEntries' =
                 [tracerArrayEntries EXCEPT ![a] =
                    {[tracer |-> r, functions |-> tracerFunctions[r]] : r \in tracers}]
  /\ retiringTracerArrayList' = retiringTracerArrayList \cup Replaced
  /\ StartWalk(t, retiringTracerArrayList')

EnableTracer(t) ==
  LET r == opTracer[t] IN
  /\ Lock(t, "enable", "disabled")
  /\ enabledTracerImpList' = enabledTracerImpList \cup {r}
  /\ tracingState' = [tracingState EXCEPT ![r] = "enabled"]
  /\ updateTracerArrays(t, enabledTracerImpList')
  /\ UNCHANGED <<tracerFunctions, threadVars, pointerVars, callVars>>

\* Mutant: the new array is built before the tracer leaves the list.
StillListed(r) == enabledTracerImpList

Remaining(r) == enabledTracerImpList \ {r}

DisableTracer(t) ==
  LET r == opTracer[t] IN
  /\ Lock(t, "disable", "enabled")
  /\ enabledTracerImpList' = enabledTracerImpList \ {r}
  /\ tracingState' = [tracingState EXCEPT ![r] = "disabledWaiting"]
  /\ updateTracerArrays(t, Remaining(r))
  /\ UNCHANGED <<tracerFunctions, threadVars, pointerVars, callVars>>

\* Already in the requested state: ZE_RESULT_SUCCESS and no change.
EnableEnabled(t)   == Lock(t, "enable", "enabled") /\ ReturnAtOnce(t)
DisableDisabled(t) == Lock(t, "disable", "disabled") /\ ReturnAtOnce(t)

\* A tracer that was disabled while calls were running takes neither enable
\* nor disable any more: ZE_RESULT_ERROR_HANDLE_OBJECT_IN_USE.
SetEnabledInUse(t) ==
  /\ \E kind \in {"enable", "disable"} : Lock(t, kind, "disabledWaiting")
  /\ ReturnAtOnce(t)

\* finalizeDisableImpTracingWait, by the state it finds.
DestroyDisabled(t) ==
  /\ Lock(t, "destroy", "disabled")
  /\ GoOnToDelete(t)
  /\ UNCHANGED <<tracerVars, arrayVars, threadVars, pointerVars, callVars, walkVars, mutexVars>>

DestroyInUse(t) == Lock(t, "destroy", "enabled") /\ ReturnAtOnce(t)

DestroyWaiting(t) ==
  /\ Lock(t, "destroy", "disabledWaiting")
  /\ StartWalk(t, retiringTracerArrayList)
  /\ UNCHANGED <<tracerVars, arrayVars, threadVars, pointerVars, callVars>>

-----------------------------------------------------------------------------
(* testAndFreeRetiredTracers, by the holder of traceTableMutex: for each    *)
(* retired array, lock the thread list, read every thread's pointer, and    *)
(* free the array if none points to it.                                     *)

Walking(t) == opStep[t] = "walk"

TestArray(t, a) ==
  /\ Walking(t) /\ testing = Null
  /\ a \in untested
  /\ CanLock(t, threadTracerDataListMutex)
  /\ threadTracerDataListMutex' = t
  /\ untested' = untested \ {a}
  /\ testing' = a
  /\ cleared' = {}
  /\ UNCHANGED <<tracerVars, arrayVars, threadVars, pointerVars, callVars, opVars,
                 traceTableMutex>>

TestThread(t, u) ==
  /\ Walking(t) /\ testing # Null
  /\ u \in threadTracerDataList \ cleared
  /\ IF tracerArrayPointer[u] = testing
     THEN /\ testing' = Null
          /\ threadTracerDataListMutex' = NoThread
          /\ cleared' = {}
     ELSE /\ cleared' = cleared \cup {u}
          /\ UNCHANGED <<testing, threadTracerDataListMutex>>
  /\ UNCHANGED <<tracerVars, arrayVars, threadVars, pointerVars, callVars, opVars, untested,
                 traceTableMutex>>

FreeArray(t) ==
  /\ Walking(t) /\ testing # Null
  /\ threadTracerDataList \subseteq cleared
  /\ retiringTracerArrayList' = retiringTracerArrayList \ {testing}
  /\ allocated' = allocated \ {testing}
  /\ tracerArrayEntries' = [tracerArrayEntries EXCEPT ![testing] = {}]
  /\ testing' = Null
  /\ cleared' = {}
  /\ threadTracerDataListMutex' = NoThread
  /\ UNCHANGED <<tracerVars, activeTracerArray, threadVars, pointerVars,
                 callVars, opVars, untested, traceTableMutex>>

WalkEnds(t, kind) ==
  /\ Walking(t) /\ opKind[t] = kind
  /\ testing = Null /\ untested = {}

\* The walk is over and traceTableMutex is released.
UnlockTable ==
  /\ traceTableMutex' = NoThread
  /\ UNCHANGED <<tracerFunctions, enabledTracerImpList, arrayVars, threadVars, pointerVars,
                 callVars, walkVars, threadTracerDataListMutex>>

FinishEnable(t) ==
  /\ WalkEnds(t, "enable")
  /\ UnlockTable /\ EndOperation(t)
  /\ UNCHANGED tracingState

\* Mutant: the number of retired arrays left is not looked at.
NeverMind == TRUE

\* testAndFreeRetiredTracers() == 0.
NoneRetiring == retiringTracerArrayList = {}

\* The tracer is disabled for good only if no retired array at all is left.
FinishDisable(t) ==
  /\ WalkEnds(t, "disable")
  /\ UnlockTable /\ EndOperation(t)
  /\ tracingState' = IF NoneRetiring
                     THEN [tracingState EXCEPT ![opTracer[t]] = "disabled"]
                     ELSE tracingState

\* Mutant: the loop waits on the count without walking the list again.
WalkNothing == {}

WalkAgain == retiringTracerArrayList

\* Sleep a millisecond and walk the list again, the mutex still held.
RetryDestroy(t) ==
  /\ WalkEnds(t, "destroy")
  /\ ~NoneRetiring
  /\ untested' = WalkAgain
  /\ UNCHANGED <<tracerVars, arrayVars, threadVars, pointerVars, callVars, opVars, testing,
                 cleared, mutexVars>>

FinishDestroyWait(t) ==
  /\ WalkEnds(t, "destroy")
  /\ NoneRetiring
  /\ UnlockTable /\ GoOnToDelete(t)
  /\ tracingState' = [tracingState EXCEPT ![opTracer[t]] = "disabled"]

\* destroyTracer, after the mutex is released: delete the tracer.
DeleteTracer(t) ==
  /\ opStep[t] = "delete"
  /\ tracingState' = [tracingState EXCEPT ![opTracer[t]] = "absent"]
  /\ tracerFunctions' = [tracerFunctions EXCEPT ![opTracer[t]] = NoCallback]
  /\ EndOperation(t)
  /\ UNCHANGED <<enabledTracerImpList, arrayVars, threadVars, pointerVars, callVars, walkVars,
                 mutexVars>>

-----------------------------------------------------------------------------
(* The specification *)

CallProgress(t) ==
  \/ LoadActive(t) \/ PublishPointer(t) \/ RecheckActive(t) \/ GatherCallbacks(t)
  \/ ReleaseActive(t) \/ FlushStore(t)

SetEnabledProgress(t) ==
  \/ EnableTracer(t) \/ DisableTracer(t) \/ EnableEnabled(t) \/ DisableDisabled(t)
  \/ SetEnabledInUse(t) \/ FinishEnable(t) \/ FinishDisable(t)

DestroyProgress(t) ==
  \/ DestroyDisabled(t) \/ DestroyInUse(t) \/ DestroyWaiting(t)
  \/ RetryDestroy(t) \/ FinishDestroyWait(t) \/ DeleteTracer(t)

WalkProgress(t) ==
  \/ \E a \in Array : TestArray(t, a)
  \/ \E u \in Thread : TestThread(t, u)
  \/ FreeArray(t)

ControlProgress(t) == SetEnabledProgress(t) \/ DestroyProgress(t) \/ WalkProgress(t)

\* What the application starts of its own accord.
Application(t) ==
  \/ RegisterThread(t) \/ BeginCall(t) \/ ExitThread(t)
  \/ \E r \in Tracer :
       \/ createAPITracer(t, r)
       \/ \E f \in Callback : setCallbacks(t, r, f)
       \/ \E kind \in OpKinds : Request(t, kind, r)

Next == \E t \in Thread : CallProgress(t) \/ ControlProgress(t) \/ Application(t)

Spec == Init /\ [][Next]_vars

\* The scheduler runs every thread, callbacks and driver functions return, and
\* delayed stores drain; nothing obliges the application to start anything.
Fairness == \A t \in Thread : WF_vars(CallProgress(t)) /\ WF_vars(ControlProgress(t))

FairSpec == Spec /\ Fairness

-----------------------------------------------------------------------------
(* Properties *)

Pinned(t) == callStep[t] \in {"gather", "running"}

\* What a call that has settled on an array works with.
InHand(t) ==
  CASE callStep[t] = "gather"  -> EntriesAt(stableTracerArray[t])
    [] callStep[t] = "running" -> callbacks[t]
    [] OTHER                   -> {}

(* The array a call has settled on stays allocated until the call lets it go:
   getActiveTracersList's loop against testAndFreeRetiredTracers' walk. *)
PinnedArrayLive ==
  \A t \in Thread : Pinned(t) => stableTracerArray[t] \in allocated \cup {EmptyArray}

(* A tracer whose callbacks a call runs, or is about to, has not been deleted
   nor declared drained: zelTracerDestroy "will stall and wait on any
   outstanding threads executing callbacks before freeing any Host allocations
   associated with this tracer" (include/layers/zel_tracing_api.h). *)
InHandTracersHeld ==
  \A t \in Thread : \A e \in InHand(t) :
    tracingState[e.tracer] \in {"enabled", "disabledWaiting"}

(* The callbacks a call runs are the ones its tracers have registered: no
   registration changes them under a call, from start to end of it. *)
InHandCallbacksCurrent ==
  \A t \in Thread : \A e \in InHand(t) : e.functions = tracerFunctions[e.tracer]

(* Every array that was allocated is active or on the retiring list, never
   both: none is lost (a leak) and none is freed while active. *)
ArraysAccounted ==
  /\ allocated = retiringTracerArrayList \cup ({activeTracerArray} \ {EmptyArray})
  /\ activeTracerArray \notin retiringTracerArrayList

(* The active array holds exactly the enabled tracers with what they have
   registered, also while an enable or a disable is halfway. *)
ActiveArrayCurrent ==
  EntriesAt(activeTracerArray) =
    {[tracer |-> r, functions |-> tracerFunctions[r]] :
       r \in {x \in Tracer : tracingState[x] = "enabled"}}

(* The layer keeps the promise of TracerRegistry: each call works on the
   tracers that were enabled at one instant of it, its second look at
   activeTracerArray. *)
Registry == INSTANCE TracerRegistry WITH
  existing  <- {r \in Tracer : tracingState[r] # "absent"},
  enabled   <- {r \in Tracer : tracingState[r] = "enabled"},
  functions <- tracerFunctions,
  running   <- [t \in Thread |-> InHand(t)]

ImplementsRegistry == Registry!Spec

(* A destroy that waits for calls to finish returns, if callbacks do not
   themselves call the tracing API. *)
DestroyReturns ==
  \A t \in Thread : (opStep[t] = "walk" /\ opKind[t] = "destroy") ~> (opStep[t] = "none")

(* A disabled tracer falls silent: the calls that still use it come to an end,
   or it is enabled again. *)
DisabledFallsSilent ==
  \A r \in Tracer :
    (tracingState[r] = "disabledWaiting")
      ~> (\A t \in Thread : \A e \in InHand(t) : e.tracer # r) \/ tracingState[r] = "enabled"

(* getActiveTracersList is lock-free, not wait-free: once the active array
   stops changing, every traced call gets through. *)
CallsReturnWhenQuiet ==
  <>[][FALSE]_activeTracerArray =>
    \A t \in Thread : (callStep[t] = "load") ~> (callStep[t] = "idle")

-----------------------------------------------------------------------------
(* The inductive invariant.  Its first four parts hold under either memory  *)
(* model; PinInv, which says why a pinned array is safe, needs every store  *)
(* of a pointer to be visible before the load that follows it.              *)

\* Who holds which mutex is told by the walk over the retired arrays.
MutexInv ==
  /\ \A t \in Thread : Walking(t) <=> traceTableMutex = t
  /\ testing # Null => traceTableMutex # NoThread
  /\ testing = Null <=> threadTracerDataListMutex = NoThread

\* The walk meets only retired arrays, each once.
WalkInv ==
  /\ untested \subseteq retiringTracerArrayList
  /\ testing # Null => testing \in retiringTracerArrayList \ untested

\* The state in which each pending operation finds its tracer, nobody else's.
OpInv ==
  /\ \A t \in Thread : opStep[t] = "none" <=> opTracer[t] = NoTracer
  /\ \A t \in Thread : opStep[t] = "none" <=> opKind[t] = "none"
  /\ \A t, u \in Thread : opTracer[t] = opTracer[u] => t = u \/ opTracer[t] = NoTracer
  /\ \A t \in Thread :
       /\ opStep[t] # "none" => tracingState[opTracer[t]] # "absent"
       /\ Walking(t) => tracingState[opTracer[t]] =
                          IF opKind[t] = "enable" THEN "enabled" ELSE "disabledWaiting"
       /\ opStep[t] = "delete" => tracingState[opTracer[t]] = "disabled"

\* What the arrays hold, against the state of the tracers.
ContentInv ==
  /\ enabledTracerImpList = {r \in Tracer : tracingState[r] = "enabled"}
  /\ ActiveArrayCurrent
  /\ \A a \in allocated : \A e \in tracerArrayEntries[a] :
       /\ tracingState[e.tracer] \in {"enabled", "disabledWaiting"}
       /\ e.functions = tracerFunctions[e.tracer]

ArraysInv == TypeOK /\ ArraysAccounted /\ MutexInv /\ WalkInv /\ OpInv /\ ContentInv

\* From the second look at the active array to the release, the thread is on
\* the list, its pointer can be seen, and no walk has passed it by.
PinInv ==
  \A t \in Thread :
    /\ storeBuffer[t] = NoStore
    /\ callStep[t] # "idle" => t \in threadTracerDataList
    /\ callStep[t] \in {"publish", "recheck", "gather", "running"} => stableTracerArray[t] # Null
    /\ callStep[t] \in {"recheck", "gather", "running"}
         => tracerArrayPointer[t] = stableTracerArray[t]
    /\ Pinned(t) => stableTracerArray[t] \in allocated \cup {EmptyArray}
    /\ Pinned(t) /\ t \in cleared => stableTracerArray[t] # testing
    /\ callbacks[t] = IF callStep[t] = "running" THEN EntriesAt(stableTracerArray[t]) ELSE {}

=============================================================================

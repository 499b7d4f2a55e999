-------------------------- MODULE ExtensionTracing --------------------------
(***************************************************************************)
(* Tracing of driver extension functions                                   *)
(* (zelTracerDriverExtensionRegisterCallback).  The application calls such *)
(* a function without going through the loader, so the driver itself calls *)
(* two wrappers of the tracing layer around its body.  The layer counts,   *)
(* over all tracers, who wants each wrapper, installs a wrapper on the     *)
(* first registration and removes it on the last, and keeps a hint,        *)
(* epilogueInstalled, that the prologue wrapper reads without a lock.      *)
(*                                                                         *)
(* One (hDriver, functionName) key is modelled: keys share no state.  The  *)
(* tracers and the arrays the wrappers pin are TracerRegistry, which       *)
(* TracerArrays implements: a callback table is here the set of phases     *)
(* registered for the key.                                                 *)
(***************************************************************************)
EXTENDS Naturals, FiniteSets

CONSTANTS
  Thread, Tracer,
  MaxRefCount,          \* bound: resetAllCallbacks lets a count grow for ever
  Serialised,           \* TRUE: the application registers and destroys one tracer at a time
  InstallDuringCalls    \* TRUE: it registers callbacks also while the extension function runs

Phase == {"prologue", "epilogue"}

ASSUME ExtensionAssumption ==
  /\ MaxRefCount \in Nat \ {0}
  /\ Serialised \in BOOLEAN /\ InstallDuringCalls \in BOOLEAN

ASSUME FiniteAssumption == IsFiniteSet(Thread) /\ IsFiniteSet(Tracer)

VARIABLES
  existing, enabled, functions, running,  \* see TracerRegistry
  (* LoaderExtensionRegistryEntry *)
  refCount,            \* prologueRefCount and epilogueRefCount
  epilogueInstalled,   \* the hint, an atomic read and written without a lock
  (* the driver *)
  hookAvailable,       \* it has zelDriverSetLoaderCallbackForExtension
  driverWrappers,      \* the phases whose wrapper it calls
  (* a call of the extension function *)
  callStep,
  copied,              \* the wrappers the driver read when the call began
  useFrame,            \* what the prologue wrapper found in the hint
  frame,               \* *ppTracerInstanceUserData: the epilogues to run; {} is the null handle
  prologued, epilogued, \* whose callbacks have run in the call
  (* a registration or a destroy on its way *)
  opStep,
  opTracer,
  install              \* LoaderExtensionInstallState

registryVars == <<existing, enabled, functions, running>>
driverVars   == <<hookAvailable, driverWrappers>>
callVars     == <<callStep, copied, useFrame, frame, prologued, epilogued>>
opVars       == <<opStep, opTracer, install>>
vars == <<registryVars, refCount, epilogueInstalled, driverVars, callVars, opVars>>

Registry == INSTANCE TracerRegistry WITH Callback <- SUBSET Phase, NoCallback <- {}

Install == [want : SUBSET Phase, changed : SUBSET Phase]

TypeOK ==
  /\ existing \subseteq Tracer
  /\ enabled \subseteq existing
  /\ functions \in [Tracer -> SUBSET Phase]
  /\ running \in [Thread -> SUBSET Registry!Entry]
  /\ refCount \in [Phase -> 0..MaxRefCount]
  /\ epilogueInstalled \in BOOLEAN
  /\ hookAvailable \in BOOLEAN
  /\ driverWrappers \subseteq Phase
  /\ callStep \in [Thread -> {"idle", "prologue", "gather", "prologues", "body", "epilogue",
                              "epilogues", "returned"}]
  /\ copied \in [Thread -> SUBSET Phase]
  /\ useFrame \in [Thread -> BOOLEAN]
  /\ frame \in [Thread -> SUBSET Registry!Entry]
  /\ prologued \in [Thread -> SUBSET Registry!Entry]
  /\ epilogued \in [Thread -> SUBSET Registry!Entry]
  /\ opStep \in [Thread -> {"none", "release", "hintOff", "set", "hintOn"}]
  /\ opTracer \in [Thread -> SUBSET Tracer]
  /\ install \in [Thread -> Install]

NoInstall == [want |-> {}, changed |-> {}]

Init ==
  /\ Registry!Init
  /\ refCount = [p \in Phase |-> 0]
  /\ epilogueInstalled = FALSE
  /\ hookAvailable \in BOOLEAN
  /\ driverWrappers = {}
  /\ callStep = [t \in Thread |-> "idle"]
  /\ copied = [t \in Thread |-> {}]
  /\ useFrame = [t \in Thread |-> FALSE]
  /\ frame = [t \in Thread |-> {}]
  /\ prologued = [t \in Thread |-> {}]
  /\ epilogued = [t \in Thread |-> {}]
  /\ opStep = [t \in Thread |-> "none"]
  /\ opTracer = [t \in Thread |-> {}]
  /\ install = [t \in Thread |-> NoInstall]

-----------------------------------------------------------------------------
(* Tracers.  "The application must not call this function from simultaneous  *)
(* threads with the same tracer handle."                                     *)

Busy(r) == \E u \in Thread : r \in opTracer[u]

Free(t) == callStep[t] = "idle" /\ opStep[t] = "none"

Create(t, r) ==
  /\ Free(t)
  /\ Registry!Create(r)
  /\ UNCHANGED <<refCount, epilogueInstalled, driverVars, callVars, opVars>>

SetEnabled(t, r) ==
  /\ Free(t) /\ ~Busy(r)
  /\ r \in existing
  /\ Registry!Enable(r) \/ Registry!Disable(r)
  /\ UNCHANGED <<refCount, epilogueInstalled, driverVars, callVars, opVars>>

\* resetAllCallbacks clears the tracer's map and leaves the counts alone.
resetAllCallbacks(t, r) ==
  /\ Free(t) /\ ~Busy(r)
  /\ Registry!Register(r, {})
  /\ UNCHANGED <<refCount, epilogueInstalled, driverVars, callVars, opVars>>

-----------------------------------------------------------------------------
(* Registration and destroy: counts, then the driver *)

\* When a registration or a destroy may begin.
MayBegin(t) ==
  /\ Free(t)
  /\ Serialised => \A u \in Thread : opStep[u] = "none"

Wanted(count) == {p \in Phase : count[p] > 0}

\* The phases that cross between nobody and somebody.
Changed(count) == {p \in Phase : (count[p] > 0) # (refCount[p] > 0)}

\* updateLoaderExtensionInstall, under loaderExtensionContextMutex; what it
\* returns is used after the mutex is released.  Nothing is left to do if no
\* phase changed, or if the driver has no hook to be told with.
updateLoaderExtensionInstall(t, count, tracers) ==
  LET state == [want |-> Wanted(count), changed |-> Changed(count)]
      more  == state.changed # {} /\ hookAvailable
  IN  /\ refCount' = count
      /\ install' = [install EXCEPT ![t] = IF more THEN state ELSE NoInstall]
      /\ opTracer' = [opTracer EXCEPT ![t] = IF more THEN tracers ELSE {}]
      /\ opStep' = [opStep EXCEPT ![t] =
           CASE ~more                                            -> "none"
             [] more /\ "epilogue" \in state.changed \ state.want -> "hintOff"
             [] OTHER                                            -> "set"]

\* applyRefDelta: signed deltas on unsigned counts, clamped at zero.
Plus(delta) == [p \in Phase |-> IF p \in delta THEN refCount[p] + 1 ELSE refCount[p]]
Minus(delta) ==
  [p \in Phase |-> IF p \in delta /\ refCount[p] > 0 THEN refCount[p] - 1 ELSE refCount[p]]

\* Mutant: every registration counts, also of a phase the tracer had already.
CountAlways(r, phases) == Plus(phases)

\* Mutant: clearing a phase gives back a count the tracer may not hold.
ClearAlwaysCounts(r, phases) ==
  IF phases \subseteq functions[r] THEN Minus(Phase \ phases) ELSE Plus(phases \ functions[r])

\* registerExtensionCallback reports the tracer's own change per phase.
CountAfter(r, phases) ==
  IF phases \subseteq functions[r] THEN Minus(functions[r] \ phases)
                                   ELSE Plus(phases \ functions[r])

\* zelTracerDriverExtensionRegisterCallback with a callback, or null to clear.
RegisterCallback(t, r, phases) ==
  /\ MayBegin(t) /\ ~Busy(r)
  /\ \E p \in Phase : phases \in {functions[r] \cup {p}, functions[r] \ {p}}
  /\ \A p \in phases \ functions[r] :
       /\ refCount[p] < MaxRefCount
       /\ InstallDuringCalls \/ \A u \in Thread : callStep[u] = "idle"
  /\ Registry!Register(r, phases)
  /\ updateLoaderExtensionInstall(t, CountAfter(r, phases), {r})
  /\ UNCHANGED <<epilogueInstalled, driverVars, callVars>>

\* zelTracerDestroy: the registrations are noted, the tracer is waited for and
\* deleted, and only then are its counts released.
zelTracerDestroy(t, r) ==
  /\ MayBegin(t) /\ ~Busy(r)
  /\ Registry!Destroy(r)
  /\ IF functions[r] = {}
     THEN UNCHANGED opVars
     ELSE /\ opStep' = [opStep EXCEPT ![t] = "release"]
          /\ install' = [install EXCEPT ![t] = [want |-> {}, changed |-> functions[r]]]
          /\ UNCHANGED opTracer
  /\ UNCHANGED <<refCount, epilogueInstalled, driverVars, callVars>>

\* The registrations noted before the tracer was deleted.
ToRelease(t) == install[t].changed

Release(t) ==
  /\ opStep[t] = "release"
  /\ updateLoaderExtensionInstall(t, Minus(ToRelease(t)), {})
  /\ UNCHANGED <<registryVars, epilogueInstalled, driverVars, callVars>>

EndInstall(t) ==
  /\ opStep' = [opStep EXCEPT ![t] = "none"]
  /\ opTracer' = [opTracer EXCEPT ![t] = {}]
  /\ install' = [install EXCEPT ![t] = NoInstall]

\* applyLoaderExtensionInstall: the hint goes off before the driver is told ...
HintOff(t) ==
  /\ opStep[t] = "hintOff"
  /\ epilogueInstalled' = FALSE
  /\ opStep' = [opStep EXCEPT ![t] = "set"]
  /\ UNCHANGED <<registryVars, refCount, driverVars, callVars, opTracer, install>>

\* Mutant: only the changed phase is handed to the driver.
OnlyChanged(t) == install[t].want \cap install[t].changed

ToInstall(t) == install[t].want

\* Mutant: the hint is never raised.
NeverRaised(t) == FALSE

MustRaiseHint(t) == "epilogue" \in install[t].changed \cap install[t].want

SetDriver(t) ==
  /\ opStep[t] = "set"
  /\ driverWrappers' = ToInstall(t)
  /\ IF MustRaiseHint(t)
     THEN /\ opStep' = [opStep EXCEPT ![t] = "hintOn"]
          /\ UNCHANGED <<opTracer, install>>
     ELSE EndInstall(t)
  /\ UNCHANGED <<registryVars, refCount, epilogueInstalled, hookAvailable, callVars>>

\* ... and on after it.
HintOn(t) ==
  /\ opStep[t] = "hintOn"
  /\ epilogueInstalled' = TRUE
  /\ EndInstall(t)
  /\ UNCHANGED <<registryVars, refCount, driverVars, callVars>>

-----------------------------------------------------------------------------
(* A call of the extension function.  The driver reads the wrappers once,    *)
(* when the call begins; its gate is open (see zelDriverEnableTracing).      *)

Go(t, step) == callStep' = [callStep EXCEPT ![t] = step]

notCall == <<refCount, epilogueInstalled, driverVars, opVars>>

BeginCall(t) ==
  /\ Free(t)
  /\ InstallDuringCalls \/ \A u \in Thread : install[u].want \cap install[u].changed = {}
  /\ copied' = [copied EXCEPT ![t] = driverWrappers]
  /\ Go(t, IF "prologue" \in driverWrappers THEN "prologue" ELSE "body")
  /\ UNCHANGED <<registryVars, useFrame, frame, prologued, epilogued, notCall>>

\* Mutant: every prologue builds a frame.
AlwaysFrame == TRUE

Hint == epilogueInstalled

\* loaderExtensionPrologue decides by the hint whether to build a frame ...
CheckHint(t) ==
  /\ callStep[t] = "prologue"
  /\ useFrame' = [useFrame EXCEPT ![t] = Hint]
  /\ Go(t, "gather")
  /\ UNCHANGED <<registryVars, copied, frame, prologued, epilogued, notCall>>

\* ... then pins the active tracer array, ...
GatherPrologues(t) ==
  /\ callStep[t] = "gather"
  /\ Registry!Start(t)
  /\ Go(t, "prologues")
  /\ UNCHANGED <<copied, useFrame, frame, prologued, epilogued, notCall>>

With(t, p) == {e \in running[t] : p \in e.functions}

\* Every tracer with any callback for the key takes part.
Participants(t) == {e \in running[t] : e.functions # {}}

\* ... runs the prologues, notes the epilogues in the frame, and unpins it.
RunPrologues(t) ==
  /\ callStep[t] = "prologues"
  /\ prologued' = [prologued EXCEPT ![t] = With(t, "prologue")]
  /\ frame' = [frame EXCEPT ![t] =
       IF useFrame[t] THEN Participants(t) ELSE {}]
  /\ Registry!Finish(t)
  /\ Go(t, "body")
  /\ UNCHANGED <<copied, useFrame, epilogued, notCall>>

\* The driver's body is over: it calls the epilogue wrapper it read at the start.
FinishBody(t) ==
  /\ callStep[t] = "body"
  /\ Go(t, IF "epilogue" \in copied[t] THEN "epilogue" ELSE "returned")
  /\ UNCHANGED <<registryVars, copied, useFrame, frame, prologued, epilogued, notCall>>

\* loaderExtensionEpilogue with a frame: run what it holds and delete it.
RunFrame(t) ==
  /\ callStep[t] = "epilogue" /\ frame[t] # {}
  /\ epilogued' = [epilogued EXCEPT ![t] = {e \in frame[t] : "epilogue" \in e.functions}]
  /\ frame' = [frame EXCEPT ![t] = {}]
  /\ Go(t, "returned")
  /\ UNCHANGED <<registryVars, copied, useFrame, prologued, notCall>>

\* Without one: pin the array of this moment and run the epilogues found there.
GatherEpilogues(t) ==
  /\ callStep[t] = "epilogue" /\ frame[t] = {}
  /\ Registry!Start(t)
  /\ Go(t, "epilogues")
  /\ UNCHANGED <<copied, useFrame, frame, prologued, epilogued, notCall>>

RunEpilogues(t) ==
  /\ callStep[t] = "epilogues"
  /\ epilogued' = [epilogued EXCEPT ![t] = With(t, "epilogue")]
  /\ Registry!Finish(t)
  /\ Go(t, "returned")
  /\ UNCHANGED <<copied, useFrame, frame, prologued, notCall>>

\* The call is over and its locals are gone.
Return(t) ==
  /\ callStep[t] = "returned"
  /\ Go(t, "idle")
  /\ copied' = [copied EXCEPT ![t] = {}]
  /\ useFrame' = [useFrame EXCEPT ![t] = FALSE]
  /\ frame' = [frame EXCEPT ![t] = {}]
  /\ prologued' = [prologued EXCEPT ![t] = {}]
  /\ epilogued' = [epilogued EXCEPT ![t] = {}]
  /\ UNCHANGED <<registryVars, notCall>>

-----------------------------------------------------------------------------
CallStep(t) ==
  \/ BeginCall(t) \/ CheckHint(t) \/ GatherPrologues(t) \/ RunPrologues(t)
  \/ FinishBody(t) \/ RunFrame(t) \/ GatherEpilogues(t) \/ RunEpilogues(t) \/ Return(t)

OpStep(t) == Release(t) \/ HintOff(t) \/ SetDriver(t) \/ HintOn(t)

TracerStep(t) ==
  \E r \in Tracer :
    \/ Create(t, r) \/ SetEnabled(t, r) \/ resetAllCallbacks(t, r) \/ zelTracerDestroy(t, r)
    \/ \E phases \in SUBSET Phase : RegisterCallback(t, r, phases)

Next == \E t \in Thread : CallStep(t) \/ OpStep(t) \/ TracerStep(t)

Spec == Init /\ [][Next]_vars

-----------------------------------------------------------------------------
(* Properties *)

Quiet == \A t \in Thread : opStep[t] = "none"

(* A count is never below the number of tracers that have the phase
   registered, those whose destroy has yet to release it included: no tracer's
   wrapper is taken away by what another tracer does. *)
CountsCoverTracers ==
  \A p \in Phase :
    refCount[p] >= Cardinality({r \in Tracer : p \in functions[r]})
                   + Cardinality({t \in Thread : opStep[t] = "release" /\ p \in ToRelease(t)})

(* With no registration or destroy on its way, the driver has exactly the
   wrappers somebody wants ("the prologue wrapper is installed when the first
   tracer registers a prologue and cleared when the last tracer stops
   registering one, and the epilogue wrapper likewise"), and the hint agrees. *)
InstalledAsCounted ==
  Quiet /\ hookAvailable =>
    /\ driverWrappers = Wanted(refCount)
    /\ epilogueInstalled = ("epilogue" \in driverWrappers)

(* "If the prologue function was called and there is a corresponding epilogue
   function, then the epilogue is guaranteed to be called." *)
PrologueThenEpilogue ==
  \A t \in Thread : callStep[t] = "returned" =>
    \A e \in prologued[t] : "epilogue" \in e.functions => e \in epilogued[t]

(* "If the prologue function was not called then the epilogue function is
   guaranteed not to be called, even if another thread enabled the tracer
   between execution" (violated: see README). *)
EpilogueOnlyAfterPrologue ==
  \A t \in Thread : callStep[t] = "returned" =>
    \A e \in epilogued[t] : "prologue" \in e.functions => e \in prologued[t]

(* "A concurrent call never builds a frame the driver won't hand back to an
   epilogue": no call returns with its frame still allocated. *)
FramesHandedBack == \A t \in Thread : callStep[t] = "returned" => frame[t] = {}

(* Destroy "will stall and wait for any outstanding threads executing a tracer
   prologue or epilogue": the epilogues a call is about to run are those of
   tracers that still exist (violated: see README). *)
EpiloguesOfLiveTracers ==
  \A t \in Thread :
    callStep[t] = "epilogue" /\ frame[t] # {} => \A e \in frame[t] : e.tracer \in existing

=============================================================================

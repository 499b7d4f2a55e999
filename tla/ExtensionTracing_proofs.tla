----------------------- MODULE ExtensionTracing_proofs -----------------------
(***************************************************************************)
(* Proofs about ExtensionTracing, for any threads and tracers.             *)
(* The counts cover the tracers whatever the application does.  That the   *)
(* driver has the wrappers counted needs an application that registers and *)
(* destroys one tracer at a time (OneOp): then whatever is on its way to   *)
(* the driver is what the counts say, and what is there is what they said  *)
(* before (InstallStage).  A call can rely on the hint because, while it   *)
(* runs, wrappers are taken away but none is installed (CallInv).          *)
(***************************************************************************)
EXTENDS ExtensionTracing, FiniteSetTheorems, TLAPS

-----------------------------------------------------------------------------
(* Types *)

LEMMA NoInstallType == NoInstall \in Install
BY DEF NoInstall, Install

LEMMA TypeInit == Init => TypeOK
<1> SUFFICES ASSUME Init PROVE TypeOK  OBVIOUS
<1>1. /\ existing \subseteq Tracer /\ enabled \subseteq existing
      /\ functions \in [Tracer -> SUBSET Phase] /\ running \in [Thread -> SUBSET Registry!Entry]
  BY DEF Init, Registry!Init
<1>2. refCount \in [Phase -> 0..MaxRefCount]  BY ExtensionAssumption DEF Init
<1>3. install \in [Thread -> Install]  BY NoInstallType DEF Init
<1>. QED  BY <1>1, <1>2, <1>3 DEF Init, TypeOK

LEMMA InstallType ==
  ASSUME TypeOK, NEW t \in Thread, NEW count \in [Phase -> 0..MaxRefCount], NEW tracers \in SUBSET Tracer,
         updateLoaderExtensionInstall(t, count, tracers)
  PROVE  /\ refCount' \in [Phase -> 0..MaxRefCount]
         /\ opStep' \in [Thread -> {"none", "release", "hintOff", "set", "hintOn"}]
         /\ opTracer' \in [Thread -> SUBSET Tracer]
         /\ install' \in [Thread -> Install]
BY DEF updateLoaderExtensionInstall, TypeOK, Install, NoInstall, Wanted, Changed

LEMMA CountTypes ==
  ASSUME TypeOK, NEW delta \in SUBSET Phase
  PROVE  /\ Minus(delta) \in [Phase -> 0..MaxRefCount]
         /\ (\A p \in delta : refCount[p] < MaxRefCount) => Plus(delta) \in [Phase -> 0..MaxRefCount]
BY ExtensionAssumption DEF TypeOK, Minus, Plus

\* A registration adds one phase or takes one away.
LEMMA RegistrationTypes ==
  ASSUME TypeOK, NEW t \in Thread, NEW r \in Tracer, NEW phases \in SUBSET Phase,
         RegisterCallback(t, r, phases)
  PROVE  CountAfter(r, phases) \in [Phase -> 0..MaxRefCount]
<1>1. functions[r] \in SUBSET Phase  BY DEF TypeOK
<1>2. CASE phases \subseteq functions[r]  BY <1>1, <1>2, CountTypes DEF CountAfter
<1>3. CASE ~(phases \subseteq functions[r])
  BY <1>1, <1>3, CountTypes DEF CountAfter, RegisterCallback
<1>. QED  BY <1>2, <1>3

LEMMA EntryTypes ==
  ASSUME TypeOK
  PROVE  Registry!Entries(enabled) \in SUBSET Registry!Entry
BY DEF TypeOK, Registry!Entries, Registry!Entry

LEMMA TypeStep ==
  ASSUME TypeOK, [Next]_vars
  PROVE  TypeOK'
<1>1. ASSUME NEW t \in Thread, NEW r \in Tracer, Create(t, r) \/ SetEnabled(t, r) \/ resetAllCallbacks(t, r)
      PROVE  TypeOK'
  BY <1>1 DEF TypeOK, Create, SetEnabled, resetAllCallbacks, Registry!Create, Registry!Enable,
              Registry!Disable, Registry!Register, driverVars, callVars, opVars
<1>2. ASSUME NEW t \in Thread, NEW r \in Tracer, zelTracerDestroy(t, r) PROVE TypeOK'
  <2>1. /\ existing' = existing \ {r} /\ functions' = [functions EXCEPT ![r] = {}]
        /\ UNCHANGED <<enabled, running, refCount, epilogueInstalled, driverVars, callVars>>
        /\ r \notin enabled
    BY <1>2 DEF zelTracerDestroy, Registry!Destroy
  <2>2. /\ opStep' \in [Thread -> {"none", "release", "hintOff", "set", "hintOn"}]
        /\ opTracer' \in [Thread -> SUBSET Tracer] /\ install' \in [Thread -> Install]
    <3>1. [want |-> {}, changed |-> functions[r]] \in Install  BY DEF TypeOK, Install
    <3>. QED  BY <1>2, <3>1 DEF zelTracerDestroy, TypeOK, opVars
  <2>. QED  BY <2>1, <2>2 DEF TypeOK, driverVars, callVars
<1>3. ASSUME NEW t \in Thread, NEW r \in Tracer, NEW phases \in SUBSET Phase, RegisterCallback(t, r, phases)
      PROVE  TypeOK'
  <2>1. /\ functions' = [functions EXCEPT ![r] = phases]
        /\ UNCHANGED <<existing, enabled, running, epilogueInstalled, driverVars, callVars>>
        /\ updateLoaderExtensionInstall(t, CountAfter(r, phases), {r})
    BY <1>3 DEF RegisterCallback, Registry!Register
  <2>2. CountAfter(r, phases) \in [Phase -> 0..MaxRefCount]  BY <1>3, RegistrationTypes
  <2>. QED  BY <2>1, <2>2, InstallType DEF TypeOK, driverVars, callVars
<1>4. ASSUME NEW t \in Thread, Release(t) PROVE TypeOK'
  <2>1. ToRelease(t) \in SUBSET Phase  BY DEF TypeOK, ToRelease, Install
  <2>2. Minus(ToRelease(t)) \in [Phase -> 0..MaxRefCount]  BY <2>1, CountTypes
  <2>3. updateLoaderExtensionInstall(t, Minus(ToRelease(t)), {})  BY <1>4 DEF Release
  <2>4. UNCHANGED <<registryVars, epilogueInstalled, driverVars, callVars>>  BY <1>4 DEF Release
  <2>. QED  BY <2>2, <2>3, <2>4, InstallType DEF TypeOK, registryVars, driverVars, callVars
<1>5. ASSUME NEW t \in Thread, HintOff(t) \/ SetDriver(t) \/ HintOn(t) PROVE TypeOK'
  <2>1. ToInstall(t) \in SUBSET Phase  BY DEF TypeOK, ToInstall, Install
  <2>2. EndInstall(t) => /\ opStep' \in [Thread -> {"none", "release", "hintOff", "set", "hintOn"}]
                         /\ opTracer' \in [Thread -> SUBSET Tracer] /\ install' \in [Thread -> Install]
    BY NoInstallType DEF TypeOK, EndInstall
  <2>3. CASE HintOff(t)  BY <2>3 DEF TypeOK, HintOff, registryVars, driverVars, callVars
  <2>4. CASE SetDriver(t)
    BY <2>1, <2>2, <2>4 DEF TypeOK, SetDriver, registryVars, callVars
  <2>5. CASE HintOn(t)  BY <2>2, <2>5 DEF TypeOK, HintOn, registryVars, driverVars, callVars
  <2>. QED  BY <1>5, <2>3, <2>4, <2>5
<1>6. ASSUME NEW t \in Thread, CallStep(t) PROVE TypeOK'
  <2>1. UNCHANGED <<existing, enabled, functions, refCount, epilogueInstalled, driverVars, opVars>>
    BY <1>6 DEF CallStep, BeginCall, CheckHint, GatherPrologues, RunPrologues, FinishBody, RunFrame,
                GatherEpilogues, RunEpilogues, Return, notCall, registryVars, Registry!Start, Registry!Finish
  <2>2. running' \in [Thread -> SUBSET Registry!Entry]
    BY <1>6, EntryTypes DEF CallStep, BeginCall, CheckHint, GatherPrologues, RunPrologues, FinishBody,
                RunFrame, GatherEpilogues, RunEpilogues, Return, registryVars, Registry!Start,
                Registry!Finish, TypeOK
  <2>3. /\ callStep' \in [Thread -> {"idle", "prologue", "gather", "prologues", "body", "epilogue",
                                     "epilogues", "returned"}]
        /\ copied' \in [Thread -> SUBSET Phase] /\ useFrame' \in [Thread -> BOOLEAN]
    BY <1>6 DEF CallStep, BeginCall, CheckHint, GatherPrologues, RunPrologues, FinishBody, RunFrame,
                GatherEpilogues, RunEpilogues, Return, Go, Hint, TypeOK
  <2>4. /\ frame' \in [Thread -> SUBSET Registry!Entry]
        /\ prologued' \in [Thread -> SUBSET Registry!Entry]
        /\ epilogued' \in [Thread -> SUBSET Registry!Entry]
    BY <1>6 DEF CallStep, BeginCall, CheckHint, GatherPrologues, RunPrologues, FinishBody, RunFrame,
                GatherEpilogues, RunEpilogues, Return, With, Participants, TypeOK
  <2>. QED  BY <2>1, <2>2, <2>3, <2>4 DEF TypeOK, driverVars, opVars
<1>7. CASE UNCHANGED vars
  BY <1>7 DEF vars, registryVars, driverVars, callVars, opVars, TypeOK
<1>. QED  BY <1>1, <1>2, <1>3, <1>4, <1>5, <1>6, <1>7 DEF Next, OpStep, TracerStep

(* The state has its type: in particular no count leaves 0..MaxRefCount, though
   they are unsigned and the changes to them are signed. *)
THEOREM TypeCorrect == Spec => []TypeOK
<1>1. TypeOK /\ [Next]_vars => TypeOK'  BY TypeStep
<1>. QED  BY <1>1, TypeInit, PTL DEF Spec

-----------------------------------------------------------------------------
(* The invariants *)

Having(p) == {r \in Tracer : p \in functions[r]}
Releasing(p) == {t \in Thread : opStep[t] = "release" /\ p \in ToRelease(t)}

CountInv == TypeOK /\ CountsCoverTracers

\* One registration or destroy at a time.
OneOp == \A t, u \in Thread : opStep[t] # "none" /\ opStep[u] # "none" => t = u

\* The wrappers that want and the driver's disagree about.
Differ(want) == {p \in Phase : (p \in want) # (p \in driverWrappers)}

\* How far the installation of thread t has come.
InstallStage(t) ==
  /\ opStep[t] = "none" => install[t] = NoInstall
  /\ opStep[t] = "release" => install[t].want = {}
  /\ opStep[t] \in {"hintOff", "set", "hintOn"} =>
       hookAvailable /\ install[t].want = Wanted(refCount)
  /\ opStep[t] = "hintOff" =>
       /\ install[t].changed = Differ(install[t].want)
       /\ epilogueInstalled /\ "epilogue" \notin install[t].want
  /\ opStep[t] = "set" =>
       /\ install[t].changed = Differ(install[t].want)
       /\ epilogueInstalled = ("epilogue" \in install[t].want \cap driverWrappers)
  /\ opStep[t] = "hintOn" =>
       driverWrappers = install[t].want /\ "epilogue" \in install[t].want \cap install[t].changed

\* With nothing on its way to the driver, it has what the counts say.
Settled ==
  (\A t \in Thread : opStep[t] \in {"none", "release"}) /\ hookAvailable =>
    driverWrappers = Wanted(refCount) /\ epilogueInstalled = ("epilogue" \in driverWrappers)

Stages == OneOp /\ (\A t \in Thread : InstallStage(t)) /\ Settled

InstallInv == CountInv /\ Stages

\* The hint is only up, and a wrapper only installed, where there is one.
HintInv ==
  /\ epilogueInstalled => "epilogue" \in driverWrappers
  /\ ~hookAvailable => driverWrappers = {}

\* While a call runs nothing is installed, so the driver has no wrapper the
\* call did not read; without a frame it meets no tracer with an epilogue.
CallInv(t) ==
  /\ callStep[t] # "idle" =>
       /\ \A u \in Thread : install[u].want \cap install[u].changed = {}
       /\ driverWrappers \subseteq copied[t]
       /\ copied[t] # {} => hookAvailable
       /\ useFrame[t] => "epilogue" \in copied[t]
       /\ frame[t] # {} => useFrame[t]
  /\ callStep[t] \in {"idle", "prologue", "gather", "prologues"} => frame[t] = {} /\ prologued[t] = {}
  /\ callStep[t] = "prologue" => "prologue" \in copied[t]
  /\ callStep[t] \in {"idle", "prologue"} => ~useFrame[t]
  /\ callStep[t] \in {"gather", "prologues"} /\ ~useFrame[t] =>
       \A r \in Tracer : "epilogue" \notin functions[r]
  /\ callStep[t] = "prologues" /\ ~useFrame[t] =>
       \A e \in running[t] : "epilogue" \notin e.functions
  /\ callStep[t] \in {"body", "epilogue", "epilogues"} /\ ~useFrame[t] =>
       \A e \in prologued[t] : "epilogue" \notin e.functions
  /\ callStep[t] \in {"body", "epilogue"} /\ useFrame[t] => prologued[t] \subseteq frame[t]
  /\ callStep[t] = "epilogues" =>
       frame[t] = {} /\ (useFrame[t] => prologued[t] = {})
  /\ callStep[t] = "returned" =>
       /\ frame[t] = {}
       /\ \A e \in prologued[t] : "epilogue" \in e.functions => e \in epilogued[t]

FrameInv == InstallInv /\ HintInv /\ \A t \in Thread : CallInv(t)

-----------------------------------------------------------------------------
(* Counts *)

\* How many there are, and that they can be counted at all.
LEMMA CountsFinite ==
  ASSUME NEW p
  PROVE  /\ IsFiniteSet(Having(p)) /\ Cardinality(Having(p)) \in Nat
         /\ IsFiniteSet(Releasing(p)) /\ Cardinality(Releasing(p)) \in Nat
<1>1. Having(p) \subseteq Tracer /\ Releasing(p) \subseteq Thread  BY DEF Having, Releasing
<1>. QED  BY <1>1, FiniteAssumption, FS_Subset, FS_CardinalityType

\* Two sets apart by one element.
LEMMA OneMore ==
  ASSUME NEW S, NEW T, IsFiniteSet(S), NEW x, x \notin S, T = S \cup {x}
  PROVE  Cardinality(T) = Cardinality(S) + 1
BY FS_AddElement

LEMMA HavingAfter ==
  ASSUME TypeOK, NEW r \in Tracer, NEW phases \in SUBSET Phase, NEW p \in Phase,
         functions' = [functions EXCEPT ![r] = phases]
  PROVE  /\ p \in phases \ functions[r] => Cardinality(Having(p))' = Cardinality(Having(p)) + 1
         /\ p \in functions[r] \ phases => Cardinality(Having(p))' = Cardinality(Having(p)) - 1
         /\ (p \in phases <=> p \in functions[r]) => Cardinality(Having(p))' = Cardinality(Having(p))
<1>1. CASE p \in phases \ functions[r]
  <2>1. Having(p)' = Having(p) \cup {r} /\ r \notin Having(p)  BY <1>1 DEF Having, TypeOK
  <2>. QED  BY <1>1, <2>1, CountsFinite, OneMore
<1>2. CASE p \in functions[r] \ phases
  <2>1. Having(p) = Having(p)' \cup {r} /\ r \notin Having(p)'  BY <1>2 DEF Having, TypeOK
  <2>2. IsFiniteSet(Having(p)')  BY <2>1, CountsFinite, FS_Subset
  <2>3. Cardinality(Having(p)) = Cardinality(Having(p)') + 1  BY <2>1, <2>2, OneMore
  <2>4. Cardinality(Having(p)') \in Nat  BY <2>2, FS_CardinalityType
  <2>. QED  BY <1>2, <2>3, <2>4
<1>3. CASE (p \in phases <=> p \in functions[r])
  <2>1. Having(p)' = Having(p)  BY <1>3 DEF Having, TypeOK
  <2>. QED  BY <1>3, <2>1
<1>. QED  BY <1>1, <1>2, <1>3

\* Nobody begins or ends a release.
LEMMA SameReleasing ==
  ASSUME NEW p, \A u \in Thread : opStep'[u] = "release" <=> opStep[u] = "release",
         \A u \in Thread : opStep[u] = "release" => install'[u] = install[u]
  PROVE  Releasing(p)' = Releasing(p)
BY DEF Releasing, ToRelease

\* What a step has to show, phase by phase.
LEMMA CountsAfter ==
  ASSUME CountInv, NEW p \in Phase,
         refCount'[p] - refCount[p] >=
           (Cardinality(Having(p))' - Cardinality(Having(p)))
           + (Cardinality(Releasing(p))' - Cardinality(Releasing(p))),
         Cardinality(Having(p))' \in Int, Cardinality(Releasing(p))' \in Int, refCount'[p] \in Int
  PROVE  refCount'[p] >= Cardinality(Having(p))' + Cardinality(Releasing(p))'
<1>1. refCount[p] >= Cardinality(Having(p)) + Cardinality(Releasing(p)) /\ refCount[p] \in Int
  BY ExtensionAssumption DEF CountInv, CountsCoverTracers, Having, Releasing, TypeOK
<1>. QED  BY <1>1, CountsFinite

\* A count that is positive goes down by one where it should.
LEMMA CountsMove ==
  ASSUME TypeOK, NEW delta \in SUBSET Phase, NEW p \in Phase
  PROVE  /\ refCount[p] \in Nat
         /\ p \in delta => Plus(delta)[p] = refCount[p] + 1
         /\ p \in delta /\ refCount[p] > 0 => Minus(delta)[p] = refCount[p] - 1
         /\ p \notin delta => Plus(delta)[p] = refCount[p] /\ Minus(delta)[p] = refCount[p]
BY ExtensionAssumption DEF TypeOK, Plus, Minus

LEMMA RegisterCounts ==
  ASSUME CountInv, NEW t \in Thread, NEW r \in Tracer, NEW phases \in SUBSET Phase,
         RegisterCallback(t, r, phases)
  PROVE  CountsCoverTracers'
<1>1. TypeOK /\ functions[r] \in SUBSET Phase  BY DEF CountInv, TypeOK
<1>2. /\ functions' = [functions EXCEPT ![r] = phases] /\ refCount' = CountAfter(r, phases)
      /\ opStep[t] = "none"
  BY DEF RegisterCallback, Registry!Register, updateLoaderExtensionInstall, MayBegin, Free
<1>3. \A u \in Thread : u # t => opStep'[u] = opStep[u] /\ install'[u] = install[u]
  BY <1>1 DEF RegisterCallback, updateLoaderExtensionInstall, TypeOK
<1>4. opStep'[t] # "release"
  BY <1>1 DEF RegisterCallback, updateLoaderExtensionInstall, TypeOK
<1>5. \A p \in Phase : Releasing(p)' = Releasing(p)
  BY <1>2, <1>3, <1>4, SameReleasing
<1>6. ASSUME NEW p \in Phase
      PROVE  refCount'[p] >= Cardinality(Having(p))' + Cardinality(Releasing(p))'
  <2>1. refCount'[p] \in Nat /\ refCount[p] \in Nat
    <3>1. CountAfter(r, phases) \in [Phase -> 0..MaxRefCount]  BY <1>1, RegistrationTypes
    <3>. QED  BY <1>1, <1>2, <3>1, CountsMove, ExtensionAssumption
  <2>2. Cardinality(Releasing(p))' = Cardinality(Releasing(p)) /\ Cardinality(Releasing(p)) \in Nat
        /\ Cardinality(Having(p)) \in Nat
    BY <1>5, CountsFinite
  <2>3. CASE p \in phases \ functions[r]
    <3>1. refCount'[p] = refCount[p] + 1
      BY <1>1, <1>2, <2>3, CountsMove DEF CountAfter
    <3>2. Cardinality(Having(p))' = Cardinality(Having(p)) + 1  BY <1>1, <1>2, <2>3, HavingAfter
    <3>. QED  BY <2>1, <2>2, <3>1, <3>2, CountsAfter
  <2>4. CASE p \in functions[r] \ phases
    <3>1. phases \subseteq functions[r]  BY <2>4 DEF RegisterCallback
    <3>2. Cardinality(Having(p))' = Cardinality(Having(p)) - 1  BY <1>1, <1>2, <2>4, HavingAfter
    <3>3. refCount'[p] >= refCount[p] - 1
      <4>1. refCount' = Minus(functions[r] \ phases)  BY <1>2, <3>1 DEF CountAfter
      <4>. QED  BY <2>1, <2>4, <4>1 DEF Minus
    <3>. QED  BY <2>1, <2>2, <3>2, <3>3, CountsAfter
  <2>5. CASE (p \in phases <=> p \in functions[r])
    <3>1. refCount'[p] = refCount[p]
      <4>1. p \notin phases \ functions[r] /\ p \notin functions[r] \ phases  BY <2>5
      <4>. QED  BY <1>1, <1>2, <4>1, CountsMove DEF CountAfter
    <3>2. Cardinality(Having(p))' = Cardinality(Having(p))  BY <1>1, <1>2, <2>5, HavingAfter
    <3>. QED  BY <2>1, <2>2, <3>1, <3>2, CountsAfter
  <2>. QED  BY <2>3, <2>4, <2>5
<1>. QED  BY <1>6 DEF CountsCoverTracers, Having, Releasing

\* What a destroyed tracer had is now to be released.
LEMMA DestroyCounts ==
  ASSUME CountInv, NEW t \in Thread, NEW r \in Tracer, zelTracerDestroy(t, r)
  PROVE  CountsCoverTracers'
<1>1. TypeOK /\ functions[r] \in SUBSET Phase /\ {} \in SUBSET Phase  BY DEF CountInv, TypeOK
<1>2. /\ functions' = [functions EXCEPT ![r] = {}] /\ refCount' = refCount /\ opStep[t] = "none"
  BY DEF zelTracerDestroy, Registry!Destroy, MayBegin, Free
<1>3. \A u \in Thread : u # t => opStep'[u] = opStep[u] /\ install'[u] = install[u]
  BY <1>1 DEF zelTracerDestroy, opVars, TypeOK
<1>4. ASSUME NEW p \in Phase
      PROVE  refCount'[p] >= Cardinality(Having(p))' + Cardinality(Releasing(p))'
  <2>1. refCount'[p] \in Nat /\ refCount[p] \in Nat  BY <1>1, <1>2, CountsMove
  <2>2. CASE p \in functions[r]
    <3>1. opStep'[t] = "release" /\ install'[t].changed = functions[r]
      BY <1>1, <2>2 DEF zelTracerDestroy, TypeOK
    <3>2. Releasing(p)' = Releasing(p) \cup {t} /\ t \notin Releasing(p)
      BY <1>2, <1>3, <2>2, <3>1 DEF Releasing, ToRelease
    <3>3. Cardinality(Releasing(p))' = Cardinality(Releasing(p)) + 1  BY <3>2, CountsFinite, OneMore
    <3>4. Cardinality(Having(p))' = Cardinality(Having(p)) - 1  BY <1>1, <1>2, <2>2, HavingAfter
    <3>. QED  BY <1>2, <2>1, <3>3, <3>4, CountsFinite, CountsAfter
  <2>3. CASE p \notin functions[r]
    <3>1. opStep'[t] = "release" => install'[t].changed = functions[r]
      BY <1>1, <1>2 DEF zelTracerDestroy, opVars, TypeOK
    <3>2. Releasing(p)' = Releasing(p)
      BY <1>2, <1>3, <2>3, <3>1 DEF Releasing, ToRelease
    <3>3. Cardinality(Having(p))' = Cardinality(Having(p))  BY <1>1, <1>2, <2>3, HavingAfter
    <3>. QED  BY <1>2, <2>1, <3>2, <3>3, CountsFinite, CountsAfter
  <2>. QED  BY <2>2, <2>3
<1>. QED  BY <1>4 DEF CountsCoverTracers, Having, Releasing

LEMMA ReleaseCounts ==
  ASSUME CountInv, NEW t \in Thread, Release(t)
  PROVE  CountsCoverTracers'
<1>1. TypeOK /\ ToRelease(t) \in SUBSET Phase  BY DEF CountInv, TypeOK, ToRelease, Install
<1>2. /\ functions' = functions /\ refCount' = Minus(ToRelease(t)) /\ opStep[t] = "release"
  BY DEF Release, registryVars, updateLoaderExtensionInstall
<1>3. \A u \in Thread : u # t => opStep'[u] = opStep[u] /\ install'[u] = install[u]
  BY <1>1 DEF Release, updateLoaderExtensionInstall, TypeOK
<1>4. opStep'[t] # "release"  BY <1>1 DEF Release, updateLoaderExtensionInstall, TypeOK
<1>5. ASSUME NEW p \in Phase
      PROVE  refCount'[p] >= Cardinality(Having(p))' + Cardinality(Releasing(p))'
  <2>1. Having(p)' = Having(p)  BY <1>2 DEF Having
  <2>2. refCount'[p] \in Nat /\ refCount[p] \in Nat
    BY <1>1, <1>2, CountTypes, CountsMove, ExtensionAssumption
  <2>3. CASE p \in ToRelease(t)
    <3>1. Releasing(p) = Releasing(p)' \cup {t} /\ t \notin Releasing(p)'
      BY <1>2, <1>3, <1>4, <2>3 DEF Releasing, ToRelease
    <3>2. IsFiniteSet(Releasing(p)')  BY <3>1, CountsFinite, FS_Subset
    <3>3. Cardinality(Releasing(p)) = Cardinality(Releasing(p)') + 1  BY <3>1, <3>2, OneMore
    <3>4. Cardinality(Releasing(p)') \in Nat  BY <3>2, FS_CardinalityType
    <3>5. refCount'[p] >= refCount[p] - 1  BY <1>1, <1>2, <2>3, CountsMove DEF Minus
    <3>. QED  BY <2>1, <2>2, <3>3, <3>4, <3>5, CountsFinite, CountsAfter
  <2>4. CASE p \notin ToRelease(t)
    <3>1. Releasing(p)' = Releasing(p)  BY <1>3, <1>4, <2>4 DEF Releasing, ToRelease
    <3>2. refCount'[p] = refCount[p]  BY <1>1, <1>2, <2>4, CountsMove
    <3>. QED  BY <2>1, <2>2, <3>1, <3>2, CountsFinite, CountsAfter
  <2>. QED  BY <2>3, <2>4
<1>. QED  BY <1>5 DEF CountsCoverTracers, Having, Releasing

\* A tracer forgets what it registered and its counts stay.
LEMMA ResetCounts ==
  ASSUME CountInv, NEW t \in Thread, NEW r \in Tracer, resetAllCallbacks(t, r)
  PROVE  CountsCoverTracers'
<1>1. TypeOK /\ functions[r] \in SUBSET Phase /\ {} \in SUBSET Phase  BY DEF CountInv, TypeOK
<1>2. functions' = [functions EXCEPT ![r] = {}] /\ refCount' = refCount /\ opStep' = opStep
      /\ install' = install
  BY DEF resetAllCallbacks, Registry!Register, opVars
<1>3. ASSUME NEW p \in Phase
      PROVE  refCount'[p] >= Cardinality(Having(p))' + Cardinality(Releasing(p))'
  <2>1. Releasing(p)' = Releasing(p)  BY <1>2 DEF Releasing, ToRelease
  <2>2. \/ Cardinality(Having(p))' = Cardinality(Having(p))
        \/ Cardinality(Having(p))' = Cardinality(Having(p)) - 1
    BY <1>1, <1>2, HavingAfter
  <2>3. refCount[p] \in Nat  BY <1>1, CountsMove
  <2>. QED  BY <1>2, <2>1, <2>2, <2>3, CountsFinite, CountsAfter
<1>. QED  BY <1>3 DEF CountsCoverTracers, Having, Releasing

\* Nothing that is counted moves.
LEMMA OtherCounts ==
  ASSUME CountInv, functions' = functions, refCount' = refCount,
         \A u \in Thread : opStep'[u] = "release" <=> opStep[u] = "release",
         \A u \in Thread : opStep[u] = "release" => install'[u] = install[u]
  PROVE  CountsCoverTracers'
<1>1. \A p \in Phase : Releasing(p)' = Releasing(p)  BY SameReleasing
<1>2. \A p \in Phase : Having(p)' = Having(p)  BY DEF Having
<1>3. \A p \in Phase : refCount[p] >= Cardinality(Having(p)) + Cardinality(Releasing(p))
  BY DEF CountInv, CountsCoverTracers, Having, Releasing
<1>4. \A p \in Phase : refCount'[p] >= Cardinality(Having(p))' + Cardinality(Releasing(p))'
  BY <1>1, <1>2, <1>3
<1>. QED  BY <1>4 DEF CountsCoverTracers, Having, Releasing

\* A call changes no registration.
LEMMA CallKeeps ==
  ASSUME NEW t \in Thread, CallStep(t)
  PROVE  UNCHANGED <<existing, enabled, functions, refCount, epilogueInstalled, hookAvailable,
                     driverWrappers, opStep, opTracer, install>>
BY DEF CallStep, BeginCall, CheckHint, GatherPrologues, RunPrologues, FinishBody, RunFrame,
       GatherEpilogues, RunEpilogues, Return, notCall, registryVars, driverVars, opVars,
       Registry!Start, Registry!Finish

LEMMA CountStep ==
  ASSUME CountInv, [Next]_vars
  PROVE  CountInv'
<1>1. TypeOK /\ TypeOK'  BY TypeStep DEF CountInv
<1> SUFFICES CountsCoverTracers'  BY <1>1 DEF CountInv
<1>2. ASSUME NEW t \in Thread, CallStep(t) PROVE CountsCoverTracers'
  BY <1>2, CallKeeps, OtherCounts
<1>3. ASSUME NEW t \in Thread, HintOff(t) \/ SetDriver(t) \/ HintOn(t) PROVE CountsCoverTracers'
  <2>1. functions' = functions /\ refCount' = refCount
    BY <1>3 DEF HintOff, SetDriver, HintOn, registryVars
  <2>2. /\ \A u \in Thread \ {t} : opStep'[u] = opStep[u] /\ install'[u] = install[u]
        /\ opStep[t] # "release" /\ opStep'[t] # "release"
    BY <1>1, <1>3 DEF HintOff, SetDriver, HintOn, EndInstall, TypeOK
  <2>. QED  BY <2>1, <2>2, OtherCounts
<1>4. ASSUME NEW t \in Thread, NEW r \in Tracer, Create(t, r) \/ SetEnabled(t, r)
      PROVE  CountsCoverTracers'
  <2>1. functions' = functions /\ refCount' = refCount /\ opStep' = opStep /\ install' = install
    BY <1>4 DEF Create, SetEnabled, Registry!Create, Registry!Enable, Registry!Disable, opVars
  <2>. QED  BY <2>1, OtherCounts
<1>5. CASE UNCHANGED vars
  <2>1. functions' = functions /\ refCount' = refCount /\ opStep' = opStep /\ install' = install
    BY <1>5 DEF vars, registryVars, opVars
  <2>. QED  BY <2>1, OtherCounts
<1>6. CASE \E t \in Thread : OpStep(t)  BY <1>3, <1>6, ReleaseCounts DEF OpStep
<1>7. CASE \E t \in Thread : TracerStep(t)
  <2>1. PICK t \in Thread, r \in Tracer :
          \/ Create(t, r) \/ SetEnabled(t, r) \/ resetAllCallbacks(t, r) \/ zelTracerDestroy(t, r)
          \/ \E phases \in SUBSET Phase : RegisterCallback(t, r, phases)
    BY <1>7 DEF TracerStep
  <2>2. CASE Create(t, r) \/ SetEnabled(t, r)  BY <1>4, <2>2
  <2>3. CASE resetAllCallbacks(t, r)  BY <2>3, ResetCounts
  <2>4. CASE zelTracerDestroy(t, r)  BY <2>4, DestroyCounts
  <2>5. ASSUME NEW phases \in SUBSET Phase, RegisterCallback(t, r, phases) PROVE CountsCoverTracers'
    BY <2>5, RegisterCounts
  <2>. QED  BY <2>1, <2>2, <2>3, <2>4, <2>5
<1>. QED  BY <1>2, <1>5, <1>6, <1>7 DEF Next

LEMMA CountInit == Init => CountInv
<1> SUFFICES ASSUME Init PROVE CountInv  OBVIOUS
<1>1. TypeOK  BY TypeInit
<1>2. \A p \in Phase : Having(p) = {} /\ Releasing(p) = {} /\ refCount[p] = 0
  <2>1. \A r \in Tracer : functions[r] = {}  BY DEF Init, Registry!Init
  <2>2. \A t \in Thread : opStep[t] = "none"  BY DEF Init
  <2>3. \A p \in Phase : refCount[p] = 0  BY DEF Init
  <2>. QED  BY <2>1, <2>2, <2>3 DEF Having, Releasing
<1>3. Cardinality({}) = 0  BY FS_EmptySet
<1>4. \A p \in Phase : refCount[p] >= Cardinality(Having(p)) + Cardinality(Releasing(p))
  BY <1>2, <1>3
<1>. QED  BY <1>1, <1>4 DEF CountInv, CountsCoverTracers, Having, Releasing

(* Whatever the application does, a count is never below the number of tracers
   that have the phase registered and of those still to be released. *)
THEOREM TracersAreCounted == Spec => []CountsCoverTracers
<1>1. CountInv => CountsCoverTracers  BY DEF CountInv
<1>. QED  BY <1>1, CountInit, CountStep, PTL DEF Spec

-----------------------------------------------------------------------------
(* Installation *)

\* The provers need telling what a flag that equals a membership is.
LEMMA FlagIsMembership ==
  ASSUME NEW flag \in BOOLEAN, NEW e, NEW S, flag <=> e \in S
  PROVE  flag = (e \in S)
OBVIOUS

\* The counts are set by the only operation, with nothing on its way.
LEMMA InstallBegins ==
  ASSUME TypeOK, Stages, NEW t \in Thread, opStep[t] \in {"none", "release"},
         \A u \in Thread \ {t} : opStep[u] = "none",
         NEW count \in [Phase -> 0..MaxRefCount], NEW tracers \in SUBSET Tracer,
         updateLoaderExtensionInstall(t, count, tracers),
         UNCHANGED <<epilogueInstalled, hookAvailable, driverWrappers>>
  PROVE  Stages'
<1> DEFINE want == Wanted(count)
           more == Changed(count) # {} /\ hookAvailable
<1>1. ASSUME NEW u \in Thread, u # t PROVE opStep'[u] = "none" /\ install'[u] = NoInstall
  <2>1. install[u] = NoInstall  BY <1>1 DEF Stages, InstallStage
  <2>. QED  BY <1>1, <2>1 DEF updateLoaderExtensionInstall, TypeOK
<1>2. /\ refCount' = count
      /\ ~more => opStep'[t] = "none" /\ install'[t] = NoInstall
      /\ more => /\ install'[t].want = want /\ install'[t].changed = Changed(count)
                 /\ opStep'[t] = IF "epilogue" \in Changed(count) \ want THEN "hintOff" ELSE "set"
  BY DEF updateLoaderExtensionInstall, TypeOK
<1>3. hookAvailable => driverWrappers = Wanted(refCount) /\ epilogueInstalled = ("epilogue" \in driverWrappers)
  BY DEF Stages, Settled
<1>4. hookAvailable => Changed(count) = Differ(want)
  BY <1>3 DEF Changed, Differ, Wanted
<1>5. OneOp'  BY <1>1 DEF OneOp
<1>6. InstallStage(t)'
  <2>1. CASE ~more  BY <1>2, <2>1 DEF InstallStage
  <2>2. CASE more
    <3>1. hookAvailable' /\ install'[t].want = Wanted(refCount)' /\ install'[t].changed = Differ(install[t].want)'
      BY <1>2, <1>4, <2>2 DEF Wanted, Differ
    <3>2. CASE "epilogue" \in Changed(count) \ want
      <4>1. epilogueInstalled' /\ "epilogue" \notin install'[t].want
        <5>1. "epilogue" \in driverWrappers /\ "epilogue" \notin want
          BY <1>4, <2>2, <3>2 DEF Differ
        <5>2. epilogueInstalled = TRUE  BY <1>3, <2>2, <5>1
        <5>. QED  BY <1>2, <2>2, <5>1, <5>2
      <4>. QED  BY <1>2, <2>2, <3>1, <3>2, <4>1 DEF InstallStage
    <3>3. CASE "epilogue" \notin Changed(count) \ want
      <4>1. epilogueInstalled' = ("epilogue" \in install'[t].want \cap driverWrappers')
        BY <1>2, <1>3, <1>4, <2>2, <3>3 DEF Differ, Phase
      <4>. QED  BY <1>2, <2>2, <3>1, <3>3, <4>1 DEF InstallStage
    <3>. QED  BY <3>2, <3>3
  <2>. QED  BY <2>1, <2>2
<1>7. ASSUME NEW u \in Thread PROVE InstallStage(u)'
  BY <1>1, <1>6 DEF InstallStage
<1>8. Settled'
  <2> SUFFICES ASSUME ~more, hookAvailable
               PROVE  driverWrappers' = Wanted(refCount)' /\ epilogueInstalled' = ("epilogue" \in driverWrappers')
    BY <1>2 DEF Settled
  <2>1. Wanted(refCount)' = Wanted(refCount)  BY <1>2 DEF Changed, Wanted
  <2>. QED  BY <1>3, <2>1
<1>. QED  BY <1>5, <1>7, <1>8 DEF Stages

LEMMA SameStages ==
  ASSUME Stages, UNCHANGED <<refCount, epilogueInstalled, hookAvailable, driverWrappers, opStep, install>>
  PROVE  Stages'
<1>1. OneOp'  BY DEF Stages, OneOp
<1>2. \A t \in Thread : InstallStage(t)'  BY DEF Stages, InstallStage, Differ, Wanted
<1>3. Settled'  BY DEF Stages, Settled, Wanted
<1>. QED  BY <1>1, <1>2, <1>3 DEF Stages

LEMMA RegisterStages ==
  ASSUME Serialised, TypeOK, Stages, NEW t \in Thread, NEW r \in Tracer, NEW phases \in SUBSET Phase,
         RegisterCallback(t, r, phases)
  PROVE  Stages'
<1>1. \A u \in Thread : opStep[u] = "none"  BY DEF RegisterCallback, MayBegin
<1>2. CountAfter(r, phases) \in [Phase -> 0..MaxRefCount]  BY RegistrationTypes
<1>3. updateLoaderExtensionInstall(t, CountAfter(r, phases), {r})
      /\ UNCHANGED <<epilogueInstalled, hookAvailable, driverWrappers>>
  BY DEF RegisterCallback, driverVars
<1>. QED  BY <1>1, <1>2, <1>3, InstallBegins

LEMMA ReleaseStages ==
  ASSUME TypeOK, Stages, NEW t \in Thread, Release(t)
  PROVE  Stages'
<1>1. opStep[t] = "release"  BY DEF Release
<1>2. \A u \in Thread \ {t} : opStep[u] = "none"  BY <1>1 DEF Stages, OneOp
<1>3. Minus(ToRelease(t)) \in [Phase -> 0..MaxRefCount]
  BY CountTypes DEF TypeOK, ToRelease, Install
<1>4. updateLoaderExtensionInstall(t, Minus(ToRelease(t)), {})
      /\ UNCHANGED <<epilogueInstalled, hookAvailable, driverWrappers>>
  BY DEF Release, driverVars
<1>. QED  BY <1>1, <1>2, <1>3, <1>4, InstallBegins

LEMMA DestroyStages ==
  ASSUME Serialised, TypeOK, Stages, NEW t \in Thread, NEW r \in Tracer, zelTracerDestroy(t, r)
  PROVE  Stages'
<1>1. \A u \in Thread : opStep[u] = "none"  BY DEF zelTracerDestroy, MayBegin
<1>2. UNCHANGED <<refCount, epilogueInstalled, hookAvailable, driverWrappers>>
  BY DEF zelTracerDestroy, driverVars
<1>3. \A u \in Thread \ {t} : opStep'[u] = "none" /\ install'[u] = install[u]
  BY <1>1 DEF zelTracerDestroy, opVars, TypeOK
<1>4. \/ opStep'[t] = "none" /\ install'[t] = install[t]
      \/ opStep'[t] = "release" /\ install'[t].want = {}
  BY <1>1 DEF zelTracerDestroy, opVars, TypeOK
<1>5. OneOp'  BY <1>3 DEF OneOp
<1>6. ASSUME NEW u \in Thread PROVE InstallStage(u)'
  BY <1>1, <1>3, <1>4 DEF Stages, InstallStage
<1>7. Settled'  BY <1>1, <1>2 DEF Stages, Settled, Wanted
<1>. QED  BY <1>5, <1>6, <1>7 DEF Stages

\* Only the thread that installs is on its way, and it comes to the next stage.
LEMMA InstallGoesOn ==
  ASSUME TypeOK, Stages, NEW t \in Thread, HintOff(t) \/ SetDriver(t) \/ HintOn(t)
  PROVE  Stages'
<1>1. opStep[t] \in {"hintOff", "set", "hintOn"}  BY DEF HintOff, SetDriver, HintOn
<1>2. ASSUME NEW u \in Thread, u # t PROVE opStep[u] = "none" /\ install[u] = NoInstall
  BY <1>1, <1>2 DEF Stages, OneOp, InstallStage
<1>3. ASSUME NEW u \in Thread, u # t PROVE opStep'[u] = "none" /\ install'[u] = NoInstall
  BY <1>2, <1>3 DEF HintOff, SetDriver, HintOn, EndInstall, TypeOK
<1>4. /\ UNCHANGED <<refCount, hookAvailable>>
      /\ hookAvailable /\ install[t].want = Wanted(refCount) /\ Wanted(refCount)' = Wanted(refCount)
  BY <1>1 DEF Stages, InstallStage, HintOff, SetDriver, HintOn, driverVars, Wanted
<1>5. OneOp'  BY <1>3 DEF OneOp
<1>6. \A u \in Thread \ {t} : InstallStage(u)'  BY <1>3 DEF InstallStage
<1>7. EndInstall(t) => opStep'[t] = "none" /\ install'[t] = NoInstall
  BY DEF EndInstall, TypeOK
<1>8. InstallStage(t)' /\ Settled'
  <2>1. CASE HintOff(t)
    <3>1. /\ opStep'[t] = "set" /\ install' = install /\ driverWrappers' = driverWrappers
          /\ opStep[t] = "hintOff" /\ epilogueInstalled' = FALSE
      BY <2>1 DEF HintOff, driverVars, TypeOK
    <3>2. /\ install[t].changed = Differ(install[t].want) /\ "epilogue" \notin install[t].want
          /\ Differ(install[t].want)' = Differ(install[t].want)
      BY <3>1 DEF Stages, InstallStage, Differ
    <3>3. epilogueInstalled' = ("epilogue" \in install'[t].want \cap driverWrappers')
      <4>1. "epilogue" \notin install'[t].want \cap driverWrappers'  BY <3>1, <3>2
      <4>. QED  BY <3>1, <4>1, FlagIsMembership
    <3>4. install'[t].changed = Differ(install[t].want)'  BY <3>1, <3>2
    <3>. QED  BY <1>4, <3>1, <3>3, <3>4 DEF InstallStage, Settled
  <2>2. CASE SetDriver(t)
    <3>1. /\ driverWrappers' = install[t].want /\ epilogueInstalled' = epilogueInstalled
          /\ opStep[t] = "set"
      BY <2>2 DEF SetDriver, ToInstall
    <3>2. /\ install[t].changed = Differ(install[t].want)
          /\ epilogueInstalled = ("epilogue" \in install[t].want \cap driverWrappers)
      BY <3>1 DEF Stages, InstallStage
    <3>3. CASE MustRaiseHint(t)
      <4>1. opStep'[t] = "hintOn" /\ install' = install  BY <2>2, <3>3 DEF SetDriver, TypeOK
      <4>. QED  BY <1>4, <3>1, <3>3, <4>1 DEF InstallStage, Settled, MustRaiseHint
    <3>4. CASE ~MustRaiseHint(t)
      <4>1. opStep'[t] = "none" /\ install'[t] = NoInstall  BY <1>7, <2>2, <3>4 DEF SetDriver
      <4>2. epilogueInstalled = ("epilogue" \in install[t].want)
        BY <3>2, <3>4 DEF MustRaiseHint, Differ, Phase
      <4>. QED  BY <1>4, <3>1, <4>1, <4>2 DEF InstallStage, Settled
    <3>. QED  BY <3>3, <3>4
  <2>3. CASE HintOn(t)
    <3>1. /\ driverWrappers' = driverWrappers /\ epilogueInstalled' = TRUE /\ opStep[t] = "hintOn"
          /\ opStep'[t] = "none" /\ install'[t] = NoInstall
      BY <1>7, <2>3 DEF HintOn, driverVars
    <3>2. driverWrappers = install[t].want /\ "epilogue" \in driverWrappers
      BY <3>1 DEF Stages, InstallStage
    <3>. QED  BY <1>4, <3>1, <3>2 DEF InstallStage, Settled
  <2>. QED  BY <2>1, <2>2, <2>3
<1>. QED  BY <1>5, <1>6, <1>8 DEF Stages

LEMMA StagesStep ==
  ASSUME Serialised, TypeOK, Stages, [Next]_vars
  PROVE  Stages'
<1>1. ASSUME NEW t \in Thread, CallStep(t) PROVE Stages'  BY <1>1, CallKeeps, SameStages
<1>2. ASSUME NEW t \in Thread, OpStep(t) PROVE Stages'
  BY <1>2, ReleaseStages, InstallGoesOn DEF OpStep
<1>3. ASSUME NEW t \in Thread, NEW r \in Tracer, Create(t, r) \/ SetEnabled(t, r) \/ resetAllCallbacks(t, r)
      PROVE  Stages'
  <2>1. UNCHANGED <<refCount, epilogueInstalled, hookAvailable, driverWrappers, opStep, install>>
    BY <1>3 DEF Create, SetEnabled, resetAllCallbacks, driverVars, opVars
  <2>. QED  BY <2>1, SameStages
<1>4. ASSUME UNCHANGED vars PROVE Stages'
  <2>1. UNCHANGED <<refCount, epilogueInstalled, hookAvailable, driverWrappers, opStep, install>>
    BY <1>4 DEF vars, driverVars, opVars
  <2>. QED  BY <2>1, SameStages
<1>5. ASSUME NEW t \in Thread, NEW r \in Tracer, NEW phases \in SUBSET Phase, RegisterCallback(t, r, phases)
      PROVE  Stages'
  BY <1>5, RegisterStages
<1>6. ASSUME NEW t \in Thread, TracerStep(t) PROVE Stages'
  BY <1>3, <1>5, <1>6, DestroyStages DEF TracerStep
<1>. QED  BY <1>1, <1>2, <1>4, <1>6 DEF Next

LEMMA InstallInit == Init => InstallInv
<1> SUFFICES ASSUME Init PROVE InstallInv  OBVIOUS
<1>1. CountInv  BY CountInit
<1>2. OneOp /\ \A t \in Thread : InstallStage(t)  BY DEF Init, OneOp, InstallStage
<1>3. Settled
  <2>1. epilogueInstalled = FALSE /\ driverWrappers = {}  BY DEF Init
  <2>2. "epilogue" \notin driverWrappers  BY <2>1
  <2>3. epilogueInstalled = ("epilogue" \in driverWrappers)  BY <2>1, <2>2, FlagIsMembership
  <2>4. Wanted(refCount) = {}  BY DEF Init, Wanted
  <2>. QED  BY <2>1, <2>3, <2>4 DEF Settled
<1>. QED  BY <1>1, <1>2, <1>3 DEF InstallInv, Stages

LEMMA InstallStep ==
  ASSUME Serialised, InstallInv, [Next]_vars
  PROVE  InstallInv'
<1>1. CountInv /\ TypeOK /\ Stages  BY DEF InstallInv, CountInv
<1>2. CountInv' /\ Stages'  BY <1>1, CountStep, StagesStep
<1>. QED  BY <1>2 DEF InstallInv

(* An application that registers and destroys one tracer at a time finds the
   driver with exactly the wrappers that somebody wants, and a true hint. *)
THEOREM DriverMatchesCounts ==
  ASSUME Serialised
  PROVE  Spec => []InstalledAsCounted
<1>1. InstallInv => InstalledAsCounted
  BY DEF InstallInv, Stages, Settled, InstalledAsCounted, Quiet
<1>2. InstallInv /\ [Next]_vars => InstallInv'  BY InstallStep
<1>. QED  BY <1>1, <1>2, InstallInit, PTL DEF Spec

-----------------------------------------------------------------------------
(* Calls *)

\* The hint is raised after the driver has the wrapper, and lowered before it
\* gives the wrapper up.
LEMMA HintStep ==
  ASSUME TypeOK, Stages, HintInv, [Next]_vars
  PROVE  HintInv'
<1>1. CASE UNCHANGED <<epilogueInstalled, hookAvailable, driverWrappers>>
  BY <1>1 DEF HintInv
<1>2. ASSUME NEW t \in Thread, HintOff(t) PROVE HintInv'
  BY <1>2 DEF HintOff, HintInv, driverVars
<1>3. ASSUME NEW t \in Thread, SetDriver(t) PROVE HintInv'
  <2>1. opStep[t] = "set" /\ driverWrappers' = install[t].want
        /\ UNCHANGED <<epilogueInstalled, hookAvailable>>
    BY <1>3 DEF SetDriver, ToInstall
  <2>2. hookAvailable /\ (epilogueInstalled => "epilogue" \in install[t].want)
    BY <2>1 DEF Stages, InstallStage
  <2>. QED  BY <2>1, <2>2 DEF HintInv
<1>4. ASSUME NEW t \in Thread, HintOn(t) PROVE HintInv'
  <2>1. opStep[t] = "hintOn" /\ UNCHANGED <<hookAvailable, driverWrappers>>
    BY <1>4 DEF HintOn, driverVars
  <2>2. hookAvailable /\ "epilogue" \in driverWrappers
    BY <2>1 DEF Stages, InstallStage
  <2>. QED  BY <2>1, <2>2 DEF HintInv
<1>5. ASSUME NEW t \in Thread, CallStep(t) \/ Release(t) \/ TracerStep(t) PROVE HintInv'
  <2>1. UNCHANGED <<epilogueInstalled, hookAvailable, driverWrappers>>
    BY <1>5, CallKeeps DEF Release, TracerStep, Create, SetEnabled, resetAllCallbacks,
                            zelTracerDestroy, RegisterCallback, driverVars
  <2>. QED  BY <1>1, <2>1
<1>6. CASE UNCHANGED vars  BY <1>1, <1>6 DEF vars, driverVars
<1>. QED  BY <1>2, <1>3, <1>4, <1>5, <1>6 DEF Next, OpStep

\* What another thread, or an operation, may do under a running call.
Harmless(t) ==
  callStep[t] # "idle" =>
    /\ \A u \in Thread : install'[u].want \cap install'[u].changed = {}
    /\ driverWrappers' \subseteq copied[t]
    /\ \A r \in Tracer : functions'[r] \subseteq functions[r]

LEMMA CallKept ==
  ASSUME NEW t \in Thread, CallInv(t), Harmless(t), hookAvailable' = hookAvailable,
         callStep'[t] = callStep[t], copied'[t] = copied[t], useFrame'[t] = useFrame[t],
         frame'[t] = frame[t], prologued'[t] = prologued[t], epilogued'[t] = epilogued[t],
         running'[t] = running[t]
  PROVE  CallInv(t)'
BY DEF CallInv, Harmless

\* Counts that do not grow install nothing.
LEMMA NothingInstalled ==
  ASSUME TypeOK, NEW t \in Thread, NEW count \in [Phase -> 0..MaxRefCount], NEW tracers,
         updateLoaderExtensionInstall(t, count, tracers),
         \A p \in Phase : count[p] <= refCount[p],
         \A u \in Thread : install[u].want \cap install[u].changed = {}
  PROVE  \A u \in Thread : install'[u].want \cap install'[u].changed = {}
<1>1. Wanted(count) \cap Changed(count) = {}
  <2> SUFFICES ASSUME NEW p \in Phase, count[p] > 0, ~(refCount[p] > 0) PROVE FALSE
    BY DEF Wanted, Changed
  <2>1. count[p] <= refCount[p] /\ count[p] \in 0..MaxRefCount /\ refCount[p] \in 0..MaxRefCount
    BY DEF TypeOK
  <2>. QED  BY <2>1, ExtensionAssumption
<1>2. \/ install'[t] = NoInstall
      \/ install'[t].want = Wanted(count) /\ install'[t].changed = Changed(count)
  BY DEF updateLoaderExtensionInstall, TypeOK
<1>3. install'[t].want \cap install'[t].changed = {}  BY <1>1, <1>2 DEF NoInstall
<1>4. \A u \in Thread \ {t} : install'[u] = install[u]  BY DEF updateLoaderExtensionInstall, TypeOK
<1>. QED  BY <1>3, <1>4

LEMMA MinusShrinks ==
  ASSUME TypeOK, NEW delta, NEW p \in Phase
  PROVE  Minus(delta)[p] <= refCount[p]
BY ExtensionAssumption DEF TypeOK, Minus

LEMMA RegisterHarmless ==
  ASSUME ~InstallDuringCalls, TypeOK, NEW t \in Thread, NEW r \in Tracer, NEW phases \in SUBSET Phase,
         RegisterCallback(t, r, phases), NEW u \in Thread, CallInv(u)
  PROVE  Harmless(u)
<1> SUFFICES ASSUME callStep[u] # "idle" PROVE Harmless(u)  BY DEF Harmless
<1>1. phases \subseteq functions[r]
  BY DEF RegisterCallback
<1>2. functions' = [functions EXCEPT ![r] = phases] /\ driverWrappers' = driverWrappers
      /\ updateLoaderExtensionInstall(t, CountAfter(r, phases), {r})
  BY DEF RegisterCallback, Registry!Register, driverVars
<1>3. CountAfter(r, phases) \in [Phase -> 0..MaxRefCount]  BY RegistrationTypes
<1>4. \A p \in Phase : CountAfter(r, phases)[p] <= refCount[p]
  BY <1>1, MinusShrinks DEF CountAfter
<1>5. \A v \in Thread : install'[v].want \cap install'[v].changed = {}
  BY <1>2, <1>3, <1>4, NothingInstalled DEF CallInv
<1>6. \A q \in Tracer : functions'[q] \subseteq functions[q]  BY <1>1, <1>2 DEF TypeOK
<1>. QED  BY <1>2, <1>5, <1>6 DEF Harmless, CallInv

LEMMA ReleaseHarmless ==
  ASSUME TypeOK, NEW t \in Thread, Release(t), NEW u \in Thread, CallInv(u)
  PROVE  Harmless(u)
<1> SUFFICES ASSUME callStep[u] # "idle" PROVE Harmless(u)  BY DEF Harmless
<1>1. functions' = functions /\ driverWrappers' = driverWrappers
      /\ updateLoaderExtensionInstall(t, Minus(ToRelease(t)), {})
  BY DEF Release, registryVars, driverVars
<1>2. Minus(ToRelease(t)) \in [Phase -> 0..MaxRefCount]
  BY CountTypes DEF TypeOK, ToRelease, Install
<1>3. \A v \in Thread : install'[v].want \cap install'[v].changed = {}
  BY <1>1, <1>2, MinusShrinks, NothingInstalled DEF CallInv
<1>. QED  BY <1>1, <1>3 DEF Harmless, CallInv

\* The driver gets what is wanted: under a call, no more than it has.
LEMMA InstallHarmless ==
  ASSUME TypeOK, Stages, NEW t \in Thread, HintOff(t) \/ SetDriver(t) \/ HintOn(t),
         NEW u \in Thread, CallInv(u)
  PROVE  Harmless(u)
<1> SUFFICES ASSUME callStep[u] # "idle" PROVE Harmless(u)  BY DEF Harmless
<1>1. functions' = functions  BY DEF HintOff, SetDriver, HintOn, registryVars
<1>2. \A v \in Thread : install'[v] = install[v] \/ install'[v] = NoInstall
  BY DEF HintOff, SetDriver, HintOn, EndInstall, TypeOK
<1>3. \A v \in Thread : install'[v].want \cap install'[v].changed = {}
  BY <1>2 DEF CallInv, NoInstall
<1>4. driverWrappers' \subseteq driverWrappers
  <2>1. CASE HintOff(t) \/ HintOn(t)  BY <2>1 DEF HintOff, HintOn, driverVars
  <2>2. CASE SetDriver(t)
    <3>1. opStep[t] = "set" /\ driverWrappers' = install[t].want  BY <2>2 DEF SetDriver, ToInstall
    <3>2. install[t].changed = Differ(install[t].want) /\ install[t].want \subseteq Phase
      BY <3>1 DEF Stages, InstallStage, TypeOK, Install
    <3>3. install[t].want \cap install[t].changed = {}  BY DEF CallInv
    <3>. QED  BY <3>1, <3>2, <3>3 DEF Differ
  <2>. QED  BY <2>1, <2>2
<1>. QED  BY <1>1, <1>3, <1>4 DEF Harmless, CallInv

LEMMA TracerHarmless ==
  ASSUME TypeOK, NEW t \in Thread, NEW r \in Tracer,
         Create(t, r) \/ SetEnabled(t, r) \/ resetAllCallbacks(t, r) \/ zelTracerDestroy(t, r),
         NEW u \in Thread, CallInv(u)
  PROVE  Harmless(u)
<1> SUFFICES ASSUME callStep[u] # "idle" PROVE Harmless(u)  BY DEF Harmless
<1>1. driverWrappers' = driverWrappers
  BY DEF Create, SetEnabled, resetAllCallbacks, zelTracerDestroy, driverVars
<1>2. functions' = functions \/ functions' = [functions EXCEPT ![r] = {}]
  BY DEF Create, SetEnabled, resetAllCallbacks, zelTracerDestroy, Registry!Create, Registry!Enable,
         Registry!Disable, Registry!Register, Registry!Destroy
<1>3. \A q \in Tracer : functions'[q] \subseteq functions[q]  BY <1>2 DEF TypeOK
<1>4. \A v \in Thread : install'[v] = install[v] \/ install'[v].want = {}
  BY DEF Create, SetEnabled, resetAllCallbacks, zelTracerDestroy, opVars, TypeOK
<1>5. \A v \in Thread : install'[v].want \cap install'[v].changed = {}
  BY <1>4 DEF CallInv
<1>. QED  BY <1>1, <1>3, <1>5 DEF Harmless, CallInv

\* A prologue wrapper that finds the hint down meets no epilogue: the counts
\* cover the tracers, and the driver would have the wrapper or be getting it.
LEMMA NoHintNoEpilogue ==
  ASSUME InstallInv, NEW t \in Thread, CallInv(t), callStep[t] = "prologue", ~epilogueInstalled
  PROVE  \A r \in Tracer : "epilogue" \notin functions[r]
<1>1. TypeOK /\ Stages /\ CountsCoverTracers  BY DEF InstallInv, CountInv
<1>2. hookAvailable /\ \A u \in Thread : install[u].want \cap install[u].changed = {}
  BY DEF CallInv
<1>3. "epilogue" \notin Wanted(refCount)
  <2>1. CASE \A u \in Thread : opStep[u] \in {"none", "release"}
    BY <1>1, <1>2, <2>1 DEF Stages, Settled
  <2>2. ASSUME NEW u \in Thread, opStep[u] \notin {"none", "release"}
        PROVE  "epilogue" \notin Wanted(refCount)
    <3>1. opStep[u] \in {"hintOff", "set", "hintOn"}  BY <1>1, <2>2 DEF TypeOK
    <3>2. InstallStage(u) /\ install[u].want = Wanted(refCount)
      BY <1>1, <3>1 DEF Stages, InstallStage
    <3>3. opStep[u] = "set"  BY <1>2, <3>1, <3>2 DEF InstallStage
    <3>4. /\ install[u].changed = Differ(install[u].want)
          /\ "epilogue" \notin install[u].want \cap driverWrappers
      BY <3>2, <3>3 DEF InstallStage
    <3>. QED  BY <1>2, <3>2, <3>4 DEF Differ, Wanted
  <2>. QED  BY <2>1, <2>2
<1>4. "epilogue" \in Phase  BY DEF Phase
<1>5. refCount["epilogue"] = 0  BY <1>1, <1>3, <1>4, ExtensionAssumption DEF Wanted, TypeOK
<1>6. 0 >= Cardinality(Having("epilogue")) + Cardinality(Releasing("epilogue"))
  BY <1>1, <1>4, <1>5 DEF CountsCoverTracers, Having, Releasing
<1>7. Cardinality(Having("epilogue")) = 0  BY <1>6, CountsFinite
<1>8. Having("epilogue") = {}  BY <1>7, CountsFinite, FS_EmptySet
<1>. QED  BY <1>8 DEF Having

LEMMA CallStepInv ==
  ASSUME ~InstallDuringCalls, InstallInv, HintInv, NEW t \in Thread, CallInv(t), CallStep(t)
  PROVE  CallInv(t)'
<1>1. TypeOK  BY DEF InstallInv, CountInv
<1>2. UNCHANGED <<enabled, functions, hookAvailable, driverWrappers, install>>  BY CallKeeps
<1>3. CASE BeginCall(t)
  <2>1. /\ copied'[t] = driverWrappers /\ callStep[t] = "idle"
        /\ callStep'[t] = IF "prologue" \in driverWrappers THEN "prologue" ELSE "body"
        /\ useFrame' = useFrame /\ frame' = frame /\ prologued' = prologued
        /\ \A u \in Thread : install[u].want \cap install[u].changed = {}
    BY <1>1, <1>3 DEF BeginCall, Go, Free, TypeOK
  <2>2. ~useFrame[t] /\ frame[t] = {} /\ prologued[t] = {}  BY <2>1 DEF CallInv
  <2>. QED  BY <1>2, <2>1, <2>2 DEF CallInv, HintInv
<1>4. CASE CheckHint(t)
  <2>1. /\ callStep[t] = "prologue" /\ callStep'[t] = "gather" /\ useFrame'[t] = epilogueInstalled
        /\ copied' = copied /\ frame' = frame /\ prologued' = prologued
    BY <1>1, <1>4 DEF CheckHint, Go, Hint, TypeOK
  <2>2. ~epilogueInstalled => \A r \in Tracer : "epilogue" \notin functions[r]
    BY <2>1, NoHintNoEpilogue
  <2>3. epilogueInstalled => "epilogue" \in copied[t]
    BY <2>1 DEF HintInv, CallInv
  <2>. QED  BY <1>2, <2>1, <2>2, <2>3 DEF CallInv
<1>5. CASE GatherPrologues(t)
  <2>1. /\ callStep[t] = "gather" /\ callStep'[t] = "prologues" /\ running'[t] = Registry!Entries(enabled)
        /\ copied' = copied /\ useFrame' = useFrame /\ frame' = frame /\ prologued' = prologued
    BY <1>1, <1>5 DEF GatherPrologues, Go, Registry!Start, TypeOK
  <2>2. ASSUME ~useFrame[t], NEW e \in running'[t] PROVE "epilogue" \notin e.functions
    <3>1. PICK r \in enabled : e.functions = functions[r]  BY <2>1, <2>2 DEF Registry!Entries
    <3>. QED  BY <1>1, <2>1, <2>2, <3>1 DEF CallInv, TypeOK
  <2>. QED  BY <1>2, <2>1, <2>2 DEF CallInv
<1>6. CASE RunPrologues(t)
  <2>1. /\ callStep[t] = "prologues" /\ callStep'[t] = "body" /\ prologued'[t] = With(t, "prologue")
        /\ frame'[t] = IF useFrame[t] THEN Participants(t) ELSE {}
        /\ copied' = copied /\ useFrame' = useFrame
    BY <1>1, <1>6 DEF RunPrologues, Go, TypeOK
  <2>2. With(t, "prologue") \subseteq Participants(t) /\ With(t, "prologue") \subseteq running[t]
    BY DEF With, Participants
  <2>3. ~useFrame[t] => \A e \in prologued'[t] : "epilogue" \notin e.functions
    BY <2>1, <2>2 DEF CallInv
  <2>. QED  BY <1>2, <2>1, <2>2, <2>3 DEF CallInv
<1>7. CASE FinishBody(t)
  <2>1. /\ callStep[t] = "body"
        /\ callStep'[t] = IF "epilogue" \in copied[t] THEN "epilogue" ELSE "returned"
        /\ copied' = copied /\ useFrame' = useFrame /\ frame' = frame /\ prologued' = prologued
        /\ epilogued' = epilogued
    BY <1>1, <1>7 DEF FinishBody, Go, TypeOK
  <2>2. "epilogue" \notin copied[t] => ~useFrame[t]  BY <2>1 DEF CallInv
  <2>. QED  BY <1>2, <2>1, <2>2 DEF CallInv
<1>8. CASE RunFrame(t)
  <2>1. /\ callStep[t] = "epilogue" /\ callStep'[t] = "returned" /\ frame[t] # {} /\ frame'[t] = {}
        /\ epilogued'[t] = {e \in frame[t] : "epilogue" \in e.functions}
        /\ copied' = copied /\ useFrame' = useFrame /\ prologued' = prologued
    BY <1>1, <1>8 DEF RunFrame, Go, TypeOK
  <2>2. useFrame[t] /\ prologued[t] \subseteq frame[t]  BY <2>1 DEF CallInv
  <2>. QED  BY <1>2, <2>1, <2>2 DEF CallInv
<1>9. CASE GatherEpilogues(t)
  <2>1. /\ callStep[t] = "epilogue" /\ callStep'[t] = "epilogues" /\ frame[t] = {} /\ frame' = frame
        /\ copied' = copied /\ useFrame' = useFrame /\ prologued' = prologued
    BY <1>1, <1>9 DEF GatherEpilogues, Go, TypeOK
  <2>2. useFrame[t] => prologued[t] = {}  BY <2>1 DEF CallInv
  <2>. QED  BY <1>2, <2>1, <2>2 DEF CallInv
<1>10. CASE RunEpilogues(t)
  <2>1. /\ callStep[t] = "epilogues" /\ callStep'[t] = "returned" /\ frame' = frame
        /\ copied' = copied /\ useFrame' = useFrame /\ prologued' = prologued
    BY <1>1, <1>10 DEF RunEpilogues, Go, TypeOK
  <2>2. frame[t] = {} /\ \A e \in prologued[t] : "epilogue" \notin e.functions
    BY <2>1 DEF CallInv
  <2>. QED  BY <1>2, <2>1, <2>2 DEF CallInv
<1>11. CASE Return(t)
  <2>1. /\ callStep'[t] = "idle" /\ frame'[t] = {} /\ prologued'[t] = {} /\ useFrame'[t] = FALSE
    BY <1>1, <1>11 DEF Return, Go, TypeOK
  <2>. QED  BY <2>1 DEF CallInv
<1>. QED  BY <1>3, <1>4, <1>5, <1>6, <1>7, <1>8, <1>9, <1>10, <1>11 DEF CallStep

\* A call leaves the calls of other threads alone.
LEMMA OthersCall ==
  ASSUME TypeOK, NEW t \in Thread, CallStep(t), NEW u \in Thread, u # t, CallInv(u)
  PROVE  CallInv(u)'
<1>1. UNCHANGED <<functions, hookAvailable, driverWrappers, install>>  BY CallKeeps
<1>2. /\ callStep'[u] = callStep[u] /\ copied'[u] = copied[u] /\ useFrame'[u] = useFrame[u]
      /\ frame'[u] = frame[u] /\ prologued'[u] = prologued[u] /\ epilogued'[u] = epilogued[u]
  BY DEF CallStep, BeginCall, CheckHint, GatherPrologues, RunPrologues, FinishBody, RunFrame,
         GatherEpilogues, RunEpilogues, Return, Go, TypeOK
<1>3. running'[u] = running[u]
  BY DEF CallStep, BeginCall, CheckHint, GatherPrologues, RunPrologues, FinishBody, RunFrame,
         GatherEpilogues, RunEpilogues, Return, registryVars, Registry!Start, Registry!Finish, TypeOK
<1>4. Harmless(u)  BY <1>1 DEF Harmless, CallInv
<1>. QED  BY <1>1, <1>2, <1>3, <1>4, CallKept

LEMMA FrameStep ==
  ASSUME Serialised, ~InstallDuringCalls, FrameInv, [Next]_vars
  PROVE  FrameInv'
<1>1. InstallInv /\ TypeOK /\ Stages /\ HintInv /\ \A u \in Thread : CallInv(u)
  BY DEF FrameInv, InstallInv, CountInv
<1>2. InstallInv' /\ HintInv'  BY <1>1, InstallStep, HintStep
<1> SUFFICES ASSUME NEW u \in Thread PROVE CallInv(u)'  BY <1>2 DEF FrameInv
<1>3. CallInv(u)  BY <1>1
<1>4. ASSUME NEW t \in Thread, CallStep(t) PROVE CallInv(u)'
  BY <1>1, <1>4, CallStepInv, OthersCall
<1>5. ASSUME UNCHANGED <<running, hookAvailable, callVars>>, Harmless(u) PROVE CallInv(u)'
  BY <1>3, <1>5, CallKept DEF callVars
<1>6. ASSUME NEW t \in Thread, OpStep(t) PROVE CallInv(u)'
  <2>1. Harmless(u)  BY <1>1, <1>6, ReleaseHarmless, InstallHarmless DEF OpStep
  <2>2. UNCHANGED <<running, hookAvailable, callVars>>
    BY <1>6 DEF OpStep, Release, HintOff, SetDriver, HintOn, registryVars, driverVars
  <2>. QED  BY <1>5, <2>1, <2>2
<1>7. ASSUME NEW t \in Thread, TracerStep(t) PROVE CallInv(u)'
  <2>1. Harmless(u)  BY <1>1, <1>7, TracerHarmless, RegisterHarmless DEF TracerStep
  <2>2. UNCHANGED <<running, hookAvailable, callVars>>
    BY <1>7 DEF TracerStep, Create, SetEnabled, resetAllCallbacks, zelTracerDestroy, RegisterCallback,
                Registry!Create, Registry!Enable, Registry!Disable, Registry!Register, Registry!Destroy,
                driverVars
  <2>. QED  BY <1>5, <2>1, <2>2
<1>8. ASSUME UNCHANGED vars PROVE CallInv(u)'
  <2>1. UNCHANGED <<running, hookAvailable, callVars>> /\ UNCHANGED <<functions, driverWrappers, install>>
    BY <1>8 DEF vars, registryVars, driverVars, opVars
  <2>2. Harmless(u)  BY <1>3, <2>1 DEF Harmless, CallInv
  <2>. QED  BY <1>5, <2>1, <2>2
<1>. QED  BY <1>4, <1>6, <1>7, <1>8 DEF Next

LEMMA FrameInit == Init => FrameInv
<1> SUFFICES ASSUME Init PROVE FrameInv  OBVIOUS
<1>1. InstallInv  BY InstallInit
<1>2. HintInv  BY DEF Init, HintInv
<1>3. \A t \in Thread : CallInv(t)  BY DEF Init, CallInv
<1>. QED  BY <1>1, <1>2, <1>3 DEF FrameInv

(* An application that also registers no new callback while the extension
   function runs gets back every frame a prologue wrapper built ... *)
THEOREM EveryFrameComesBack ==
  ASSUME Serialised, ~InstallDuringCalls
  PROVE  Spec => []FramesHandedBack
<1>1. FrameInv => FramesHandedBack  BY DEF FrameInv, CallInv, FramesHandedBack
<1>2. FrameInv /\ [Next]_vars => FrameInv'  BY FrameStep
<1>. QED  BY <1>1, <1>2, FrameInit, PTL DEF Spec

(* ... and, for every prologue that ran, the epilogue of the same tracer runs. *)
THEOREM EpiloguesFollowPrologues ==
  ASSUME Serialised, ~InstallDuringCalls
  PROVE  Spec => []PrologueThenEpilogue
<1>1. FrameInv => PrologueThenEpilogue  BY DEF FrameInv, CallInv, PrologueThenEpilogue
<1>2. FrameInv /\ [Next]_vars => FrameInv'  BY FrameStep
<1>. QED  BY <1>1, <1>2, FrameInit, PTL DEF Spec

=============================================================================

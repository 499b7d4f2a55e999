---------------------------- MODULE HandleFactory ----------------------------
(***************************************************************************)
(* The loader's own handles.  With several drivers, or when interception   *)
(* is forced, the application gets a loader object for every object of a   *)
(* driver: the driver's handle and the driver's function table.  A factory *)
(* per type finds the loader object of a driver's handle; a create calls   *)
(* the driver and then the factory, a destroy calls the driver and then    *)
(* releases the loader object.  Each factory has a lock, held for one look *)
(* at its map: driver and factory are separate steps of a call.  Images    *)
(* and samplers are also kernel arguments, whose value the loader has to   *)
(* translate: a second map finds the driver's handle of a loader object.   *)
(*                                                                         *)
(* What an object is made from (a driver, device or context) is there from *)
(* the beginning and is known by its driver.  Memory for loader objects is *)
(* always found.                                                           *)
(***************************************************************************)
EXTENDS FiniteSets

CONSTANTS
  Thread, Driver,
  Native,          \* addresses of the drivers' objects
  Wrapper,         \* addresses of the loader's objects
  None,
  Kinds,           \* bound: the kinds of objects the application makes
  Recycle          \* a driver may give out an address before the call that destroyed the old object is over

Kind == {"context", "image", "imageViewExt", "imageViewExp", "sampler", "semaphore"}

ASSUME KindsAssumption == Kinds \subseteq Kind
ASSUME RecycleAssumption == Recycle \in BOOLEAN
ASSUME NoneAssumption ==
  /\ None \notin Native \cup Wrapper
  /\ \A d \in Driver : /\ \A kind \in Kind : [driver |-> d, kind |-> kind] # None
                       /\ \A n \in Native : [handle |-> n, dditable |-> d] # None

VARIABLES
  (* the loader *)
  map,             \* of each factory: the loader object of a driver's handle
  wrapper,         \* the loader object at an address
  argument_map,    \* image_handle_map and sampler_handle_map
  (* the drivers *)
  object,          \* the object behind a driver's handle
  (* the application *)
  held,            \* the loader handle it was given for a driver's object
  kept,            \* objects whose destroy the driver has refused
  (* the calls on their way *)
  pc, call

loaderVars == <<map, wrapper, argument_map>>
appVars    == <<held, kept>>
vars == <<loaderVars, object, appVars, pc, call>>

Type == {"context", "image", "sampler", "semaphore"}

TypeOf(kind) == IF kind \in {"imageViewExt", "imageViewExp"} THEN "image" ELSE kind

\* Mutant: images only.
ArgumentsWithoutSamplers == {"image", "imageViewExp"}

\* Kinds whose create enters the handle in a map of arguments.
Arguments == {"image", "imageViewExp", "sampler"}

Call == [kind : Kind, driver : Driver, handle : Native, wrapper : Wrapper \cup {None}]

TypeOK ==
  /\ map \in [Type -> [Native -> Wrapper \cup {None}]]
  /\ wrapper \in [Wrapper -> [handle : Native, dditable : Driver] \cup {None}]
  /\ argument_map \in [Wrapper -> Native \cup {None}]
  /\ object \in [Native -> [driver : Driver, kind : Kind] \cup {None}]
  /\ held \in [Native -> Wrapper \cup {None}]
  /\ kept \in SUBSET Native
  /\ pc \in [Thread -> {"idle", "wrap", "insert", "destroy", "release"}]
  /\ call \in [Thread -> Call \cup {None}]

Init ==
  /\ map = [type \in Type |-> [n \in Native |-> None]]
  /\ wrapper = [w \in Wrapper |-> None]
  /\ argument_map = [w \in Wrapper |-> None]
  /\ object = [n \in Native |-> None]
  /\ held = [n \in Native |-> None]
  /\ kept = {}
  /\ pc = [t \in Thread |-> "idle"]
  /\ call = [t \in Thread |-> None]

At(t, stage) == pc[t] = stage

Go(t, stage, c) ==
  /\ pc' = [pc EXCEPT ![t] = stage]
  /\ call' = [call EXCEPT ![t] = c]

Return(t) == Go(t, "idle", None)

-----------------------------------------------------------------------------
(* singleton_factory_t *)

hasInstance(type, n) == map[type][n] # None

\* The loader object of n is w, made for driver d if there was none.
getInstance(type, n, d, w) ==
  IF hasInstance(type, n)
  THEN w = map[type][n] /\ UNCHANGED <<map, wrapper>>
  ELSE /\ wrapper[w] = None
       /\ map' = [map EXCEPT ![type][n] = w]
       /\ wrapper' = [wrapper EXCEPT ![w] = [handle |-> n, dditable |-> d]]

\* Mutant: nothing is released.
releaseNothing(type, n) == UNCHANGED <<map, wrapper>>

release(type, n) ==
  IF hasInstance(type, n)
  THEN /\ map' = [map EXCEPT ![type][n] = None]
       /\ wrapper' = [wrapper EXCEPT ![map[type][n]] = None]
  ELSE UNCHANGED <<map, wrapper>>

-----------------------------------------------------------------------------
(* Creates *)

BeingReleased == {call[t].handle : t \in {u \in Thread : At(u, "release")}}

\* The driver of the object it is made from makes the new one.
Create(t, kind, d) ==
  /\ At(t, "idle")
  /\ kind \in Kinds
  /\ \E n \in Native :
       /\ object[n] = None
       /\ Recycle \/ n \notin BeingReleased
       /\ object' = [object EXCEPT ![n] = [driver |-> d, kind |-> kind]]
       /\ Go(t, "wrap", [kind |-> kind, driver |-> d, handle |-> n, wrapper |-> None])
  /\ UNCHANGED <<loaderVars, appVars>>

zeContextCreate(t, d)      == Create(t, "context", d)
zeImageCreate(t, d)        == Create(t, "image", d)
zeImageViewCreateExp(t, d) == Create(t, "imageViewExp", d)
zeSamplerCreate(t, d)      == Create(t, "sampler", d)

\* Convert the driver's handle to a loader handle.
Wrap(t) ==
  LET c == call[t] IN
  /\ At(t, "wrap")
  /\ \E w \in Wrapper :
       /\ getInstance(TypeOf(c.kind), c.handle, c.driver, w)
       /\ IF c.kind \in Arguments
          THEN Go(t, "insert", [c EXCEPT !.wrapper = w]) /\ UNCHANGED held
          ELSE Return(t) /\ held' = [held EXCEPT ![c.handle] = w]
  /\ UNCHANGED <<argument_map, object, kept>>

\* Mutant: key and value are swapped.
InsertArgumentSwapped(t) ==
  LET c == call[t] IN
  /\ At(t, "insert")
  /\ \E w \in Wrapper :
       /\ getInstance(TypeOf(c.kind), c.handle, c.driver, w)
       /\ argument_map' = [argument_map EXCEPT ![w] = w]
  /\ held' = [held EXCEPT ![c.handle] = c.wrapper]
  /\ Return(t)
  /\ UNCHANGED <<object, kept>>

\* The factory is asked again for the key; an entry that is there stays.
InsertArgument(t) ==
  LET c == call[t] IN
  /\ At(t, "insert")
  /\ \E w \in Wrapper :
       /\ getInstance(TypeOf(c.kind), c.handle, c.driver, w)
       /\ argument_map' = [argument_map EXCEPT ![w] = IF @ = None THEN c.handle ELSE @]
  /\ held' = [held EXCEPT ![c.handle] = c.wrapper]
  /\ Return(t)
  /\ UNCHANGED <<object, kept>>

-----------------------------------------------------------------------------
(* Destroys *)

BeingDestroyed == {call[t].handle : t \in {u \in Thread : At(u, "destroy")}}

\* Mutant: the argument stays.
Unchanged(type, w) == argument_map

Erased(type, w) ==
  IF type \in {"image", "sampler"} THEN [argument_map EXCEPT ![w] = None] ELSE argument_map

(* The application destroys an object once.  Table and driver handle come   *)
(* from the loader object.                                                  *)
Destroy(t, type, n) ==
  LET w == held[n] IN
  /\ At(t, "idle")
  /\ w # None /\ n \notin BeingDestroyed /\ TypeOf(object[n].kind) = type
  /\ wrapper[w] # None
  /\ argument_map' = Erased(type, w)
  /\ Go(t, "destroy", [kind |-> object[n].kind, driver |-> wrapper[w].dditable,
                       handle |-> wrapper[w].handle, wrapper |-> w])
  /\ UNCHANGED <<map, wrapper, object, appVars>>

zeContextDestroy(t, n) == Destroy(t, "context", n)
zeImageDestroy(t, n)   == Destroy(t, "image", n)
zeSamplerDestroy(t, n) == Destroy(t, "sampler", n)

\* The object is gone, and with it the application's handle.
Gone(n) ==
  /\ object' = [object EXCEPT ![n] = None]
  /\ held' = [held EXCEPT ![n] = None]
  /\ kept' = kept \ {n}

DriverDestroys(t) ==
  /\ At(t, "destroy") /\ call[t].kind # "semaphore"
  /\ Gone(call[t].handle)
  /\ Go(t, "release", call[t])
  /\ UNCHANGED loaderVars

\* Mutant: the loader object goes although the driver's stays.
ReleasedAnyway(t) ==
  /\ At(t, "destroy")
  /\ release(TypeOf(call[t].kind), call[t].handle)
  /\ kept' = kept \cup {call[t].handle}
  /\ Return(t)
  /\ UNCHANGED <<argument_map, object, held>>

\* An error of the driver: the object and its loader object stay.
DriverRefuses(t) ==
  /\ At(t, "destroy")
  /\ kept' = kept \cup {call[t].handle}
  /\ Return(t)
  /\ UNCHANGED <<loaderVars, object, held>>

Release(t) ==
  /\ At(t, "release")
  /\ release(TypeOf(call[t].kind), call[t].handle)
  /\ Return(t)
  /\ UNCHANGED <<argument_map, object, appVars>>

-----------------------------------------------------------------------------

CreateCall(t, d) ==
  \/ zeContextCreate(t, d) \/ zeImageCreate(t, d) \/ zeImageViewCreateExp(t, d)
  \/ zeSamplerCreate(t, d)

DestroyCall(t, n) == zeContextDestroy(t, n) \/ zeImageDestroy(t, n) \/ zeSamplerDestroy(t, n)

Next ==
  \E t \in Thread :
    \/ \E d \in Driver : CreateCall(t, d)
    \/ \E n \in Native : DestroyCall(t, n)
    \/ Wrap(t) \/ InsertArgument(t)
    \/ DriverDestroys(t) \/ DriverRefuses(t) \/ Release(t)

Spec == Init /\ [][Next]_vars

-----------------------------------------------------------------------------
(* Properties *)

(* A loader handle that the application may use leads to the object it was  *)
(* given for, in the driver that made it, whatever addresses the drivers    *)
(* and the heap use again, and the factory still knows it.                  *)
HandlesResolve ==
  \A n \in Native : held[n] # None =>
    /\ object[n] # None
    /\ wrapper[held[n]] = [handle |-> n, dditable |-> object[n].driver]
    /\ map[TypeOf(object[n].kind)][n] = held[n]

(* No loader object outlives its object: every entry of a factory is of an  *)
(* object that is there or that a call is about to release.                 *)
NothingLeftBehind ==
  /\ \A type \in Type, n \in Native : hasInstance(type, n) =>
       \/ object[n] # None /\ TypeOf(object[n].kind) = type
       \/ \E t \in Thread : At(t, "release") /\ call[t].handle = n /\ TypeOf(call[t].kind) = type
  /\ \A w \in Wrapper : wrapper[w] # None => \E type \in Type, n \in Native : map[type][n] = w

\* zeKernelSetArgumentValue: what the driver is given for an argument whose value is w.
internalArgValue(w) == IF argument_map[w] # None THEN argument_map[w] ELSE w

(* An image or a sampler passed to a kernel reaches the driver as the       *)
(* driver's own handle.  (After a refused destroy it does not any more.)    *)
ArgumentsTranslated ==
  \A n \in Native \ (kept \cup BeingDestroyed) :
    held[n] # None /\ TypeOf(object[n].kind) \in {"image", "sampler"} => internalArgValue(held[n]) = n

(* A value that happens to be an old handle is never translated to an       *)
(* object that is gone, or to another one.                                  *)
NoStaleArguments ==
  \A w \in Wrapper : argument_map[w] # None =>
    object[argument_map[w]] # None /\ map[TypeOf(object[argument_map[w]].kind)][argument_map[w]] = w

=============================================================================

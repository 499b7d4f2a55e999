--------------------------- MODULE HandleLifetime ---------------------------
(***************************************************************************)
(* The validation layer's tracking of handles (ZE_ENABLE_HANDLE_LIFETIME). *)
(* Every API call passes a prologue, which refuses it or lets it through   *)
(* to the driver; a call that made objects then registers their handles.   *)
(* The layer keeps one map of handles per type, whether a command list is  *)
(* open, and which objects were made from which.  A destroy forgets the    *)
(* handle in its prologue, before the driver is called, because the driver *)
(* may give the same address to an object that another thread is making.   *)
(* Nothing is locked: prologue, driver and registration are three steps.   *)
(*                                                                         *)
(* The application passes any handle at any time, also stale ones and ones *)
(* of another type.  Calls that the layer refuses change nothing and are   *)
(* not actions.  Drivers and devices are found once and never destroyed;   *)
(* they are left out, and with them the parent of a context.               *)
(***************************************************************************)
EXTENDS FiniteSets

CONSTANTS
  Thread, Handle, None,
  Kinds            \* bound: the kinds of objects the application makes

Kind == {"context", "queue", "list", "clone", "immediate", "pool", "event", "counterEvent",
         "fence", "module", "buildLog", "kernel", "image", "sampler", "physicalMem"}

ASSUME KindsAssumption == Kinds \subseteq Kind
ASSUME NoneAssumption ==
  /\ None \notin Handle
  /\ \A kind \in Kind, parent \in Handle \cup {None} : [kind |-> kind, parent |-> parent] # None

VARIABLES
  (* HandleLifetimeValidation *)
  handleStateMap,  \* the handles of each type
  is_open,         \* the command lists registered as open
  dependentMap,    \* the handles made from a handle
  (* the driver *)
  object,          \* the object behind a handle
  recording,       \* the command lists that take commands
  (* the calls on their way *)
  pc, call,
  made             \* handles the driver has returned, not yet registered

layerVars  == <<handleStateMap, is_open, dependentMap>>
driverVars == <<object, recording>>
callVars   == <<pc, call, made>>
vars == <<layerVars, driverVars, callVars>>

-----------------------------------------------------------------------------
(* Types and kinds *)

Type == {"context", "queue", "list", "pool", "event", "fence", "module", "buildLog",
         "kernel", "image", "sampler", "physicalMem"}

\* The map that holds a handle of this kind.
TypeOf(kind) ==
  CASE kind \in {"clone", "immediate"} -> "list"
    [] kind = "counterEvent" -> "event"
    [] OTHER -> kind

DriverObject == INSTANCE DriverObjects

Live(h) == DriverObject!Live(h)
Children(h) == DriverObject!Children(h)

Op == {"create", "destroy", "close", "reset", "append", "execute"}

\* handle: the object destroyed, closed, ... or made from; others: the other handles passed.
Call == [op : Op, kind : Kind, handle : Handle \cup {None}, others : SUBSET Handle]

NoCall == [op |-> "append", kind |-> "list", handle |-> None, others |-> {}]

TypeOK ==
  /\ handleStateMap \in [Type -> SUBSET Handle]
  /\ is_open \in SUBSET Handle
  /\ dependentMap \in [Handle -> SUBSET Handle]
  /\ DriverObject!TypeOK
  /\ recording \in SUBSET Handle
  /\ pc \in [Thread -> {"idle", "driver", "register"}]
  /\ call \in [Thread -> Call]
  /\ made \in [Thread -> SUBSET Handle]

Init ==
  /\ handleStateMap = [type \in Type |-> {}]
  /\ is_open = {}
  /\ dependentMap = [h \in Handle |-> {}]
  /\ object = [h \in Handle |-> None]
  /\ recording = {}
  /\ pc = [t \in Thread |-> "idle"]
  /\ call = [t \in Thread |-> NoCall]
  /\ made = [t \in Thread |-> {}]

-----------------------------------------------------------------------------
(* The map's operations *)

isHandleValid(h, type) == h \in handleStateMap[type]

isOpen(h) == h \in is_open

hasDependents(h) == dependentMap[h] # {}

\* Mutant: registered as a dependent of nothing.
addNoDependent(h, new) == dependentMap

\* Mutant: the handle made from nothing is a key too.
addDependentUnchecked(h, new) ==
  [x \in Handle \cup {h} |-> (IF x \in Handle THEN dependentMap[x] ELSE {}) \cup (IF x = h THEN new ELSE {})]

addDependent(h, new) ==
  IF h = None \/ new = {} THEN dependentMap
  ELSE [dependentMap EXCEPT ![h] = @ \cup new]

\* Mutant: the parent still counts what is gone.
removeNoDependent(h) == dependentMap

removeDependent(h) == [p \in Handle |-> dependentMap[p] \ {h}]

-----------------------------------------------------------------------------
(* Calls *)

Used(c) == ({c.handle} \ {None}) \cup c.others

(***************************************************************************)
(* What include/ze_api.h asks of threads: an object is not destroyed, and  *)
(* a command list is not changed, while another thread uses it; an object  *)
(* is not destroyed while another thread is still destroying or using one  *)
(* that was made from it.  Objects may be made from one object by several  *)
(* threads at once.                                                        *)
(***************************************************************************)
Undisturbed(t, c) ==
  \A u \in Thread \ {t} : pc[u] # "idle" =>
    /\ \/ Used(c) \cap Used(call[u]) = {}
       \/ c.op = "create" /\ call[u].op = "create"
    /\ c.op = "destroy" =>
         \A x \in Used(call[u]) : x \notin Children(c.handle)

\* The prologue lets the call through.
ToDriver(t, op, kind, h, others) ==
  LET c == [op |-> op, kind |-> kind, handle |-> h, others |-> others] IN
  /\ pc[t] = "idle"
  /\ Undisturbed(t, c)
  /\ pc' = [pc EXCEPT ![t] = "driver"]
  /\ call' = [call EXCEPT ![t] = c]
  /\ UNCHANGED made

Return(t) ==
  /\ pc' = [pc EXCEPT ![t] = "idle"]
  /\ call' = [call EXCEPT ![t] = NoCall]
  /\ made' = [made EXCEPT ![t] = {}]

InDriver(t, op) == pc[t] = "driver" /\ call[t].op = op

-----------------------------------------------------------------------------
(* Making objects *)

Make(t, kind, parent, parentType) ==
  /\ kind \in Kinds
  /\ isHandleValid(parent, parentType)
  /\ ToDriver(t, "create", kind, parent, {})
  /\ UNCHANGED <<layerVars, driverVars>>

zeContextCreate(t) ==
  /\ "context" \in Kinds
  /\ ToDriver(t, "create", "context", None, {})
  /\ UNCHANGED <<layerVars, driverVars>>

zeCommandQueueCreate(t, c)       == Make(t, "queue", c, "context")
zeCommandListCreate(t, c)        == Make(t, "list", c, "context")
zeCommandListCreateCloneExp(t, l) == Make(t, "clone", l, "list")
zeEventPoolCreate(t, c)          == Make(t, "pool", c, "context")
zeEventCreate(t, p)              == Make(t, "event", p, "pool")
zeEventCounterBasedCreate(t, c)  == Make(t, "counterEvent", c, "context")
zeFenceCreate(t, q)              == Make(t, "fence", q, "queue")
zeModuleCreate(t, c)             == Make(t, "module", c, "context")
zeKernelCreate(t, m)             == Make(t, "kernel", m, "module")
zeImageCreate(t, c)              == Make(t, "image", c, "context")
zeSamplerCreate(t, c)            == Make(t, "sampler", c, "context")
zePhysicalMemCreate(t, c)        == Make(t, "physicalMem", c, "context")

\* The layer keeps no parent for an immediate list.
zeCommandListCreateImmediate(t, c) == Make(t, "immediate", c, "context")

Dead == {h \in Handle : ~Live(h)}

\* A module may come with its build log.
Logs(c, main) ==
  {{}} \cup IF c.kind = "module" /\ "buildLog" \in Kinds THEN {{h} : h \in Dead \ {main}} ELSE {}

\* The driver may return an address that was used before.
DriverCreates(t) ==
  LET c == call[t]
      parent == IF c.kind = "immediate" THEN None ELSE c.handle
  IN
  /\ InDriver(t, "create")
  /\ \E main \in Dead : \E log \in Logs(c, main) :
       /\ object' = [h \in Handle |-> CASE h = main -> [kind |-> c.kind, parent |-> parent]
                                        [] h \in log -> [kind |-> "buildLog", parent |-> parent]
                                        [] OTHER -> object[h]]
       /\ made' = [made EXCEPT ![t] = {main} \cup log]
       /\ recording' = IF c.kind \in {"list", "immediate"} THEN recording \cup {main} ELSE recording
  /\ pc' = [pc EXCEPT ![t] = "register"]
  /\ UNCHANGED <<layerVars, call>>

\* Out of memory, a failed build, ...
DriverRefuses(t) ==
  /\ InDriver(t, "create")
  /\ Return(t)
  /\ UNCHANGED <<layerVars, driverVars>>

\* After the driver's success: addHandle, addDependent.
Register(t) ==
  LET c == call[t]
      parent == IF c.kind = "immediate" THEN None ELSE c.handle
  IN
  /\ pc[t] = "register"
  /\ handleStateMap' =
       [type \in Type |-> handleStateMap[type] \cup {h \in made[t] : TypeOf(object[h].kind) = type}]
  /\ is_open' = IF c.kind \in {"list", "clone"} THEN is_open \cup made[t] ELSE is_open
  /\ dependentMap' = addDependent(parent, made[t])
  /\ Return(t)
  /\ UNCHANGED driverVars

-----------------------------------------------------------------------------
(* Destroying objects *)

\* Mutant: what was made from it may still be there.
DestroyableAnyway(h, type) == isHandleValid(h, type)

Destroyable(h, type) == isHandleValid(h, type) /\ ~hasDependents(h)

\* Mutant: the handle is not forgotten.
DestroyKeeps(t, h, type) ==
  /\ Destroyable(h, type)
  /\ dependentMap' = removeDependent(h)
  /\ ToDriver(t, "destroy", type, h, {})
  /\ UNCHANGED <<handleStateMap, is_open, driverVars>>

Destroy(t, h, type) ==
  /\ Destroyable(h, type)
  /\ handleStateMap' = [handleStateMap EXCEPT ![type] = @ \ {h}]
  /\ is_open' = is_open \ {h}
  /\ dependentMap' = removeDependent(h)
  /\ ToDriver(t, "destroy", type, h, {})
  /\ UNCHANGED driverVars

zeContextDestroy(t, h)        == Destroy(t, h, "context")
zeCommandQueueDestroy(t, h)   == Destroy(t, h, "queue")
zeCommandListDestroy(t, h)    == Destroy(t, h, "list")
zeEventPoolDestroy(t, h)      == Destroy(t, h, "pool")
zeEventDestroy(t, h)          == Destroy(t, h, "event")
zeFenceDestroy(t, h)          == Destroy(t, h, "fence")
zeModuleDestroy(t, h)         == Destroy(t, h, "module")
zeModuleBuildLogDestroy(t, h) == Destroy(t, h, "buildLog")
zeKernelDestroy(t, h)         == Destroy(t, h, "kernel")
zeImageDestroy(t, h)          == Destroy(t, h, "image")
zeSamplerDestroy(t, h)        == Destroy(t, h, "sampler")

DriverDestroys(t) ==
  LET h == call[t].handle IN
  /\ InDriver(t, "destroy")
  /\ object' = [object EXCEPT ![h] = None]
  /\ recording' = recording \ {h}
  /\ Return(t)
  /\ UNCHANGED layerVars

-----------------------------------------------------------------------------
(* Command lists *)

zeCommandListClose(t, l) ==
  /\ isHandleValid(l, "list")
  /\ is_open' = is_open \ {l}
  /\ ToDriver(t, "close", "list", l, {})
  /\ UNCHANGED <<handleStateMap, dependentMap, driverVars>>

zeCommandListReset(t, l) ==
  /\ isHandleValid(l, "list")
  /\ is_open' = is_open \cup {l}
  /\ ToDriver(t, "reset", "list", l, {})
  /\ UNCHANGED <<handleStateMap, dependentMap, driverVars>>

Appendable(l) == isHandleValid(l, "list") /\ isOpen(l)

zeCommandListAppendSignalEvent(t, l, e) ==
  /\ Appendable(l)
  /\ isHandleValid(e, "event")
  /\ ToDriver(t, "append", "list", l, {e})
  /\ UNCHANGED <<layerVars, driverVars>>

\* Mutant: lists still open are let through.
ExecutableAnyway(lists) == \A l \in lists : isHandleValid(l, "list")

Executable(lists) == \A l \in lists : isHandleValid(l, "list") /\ ~isOpen(l)

zeCommandQueueExecuteCommandLists(t, q, lists) ==
  /\ isHandleValid(q, "queue")
  /\ Executable(lists)
  /\ ToDriver(t, "execute", "queue", q, lists)
  /\ UNCHANGED <<layerVars, driverVars>>

DriverChangesList(t) ==
  LET l == call[t].handle IN
  /\ \/ InDriver(t, "close") /\ recording' = recording \ {l}
     \/ InDriver(t, "reset") /\ recording' = recording \cup {l}
     \/ (InDriver(t, "append") \/ InDriver(t, "execute")) /\ UNCHANGED recording
  /\ Return(t)
  /\ UNCHANGED <<layerVars, object>>

-----------------------------------------------------------------------------

CreateCall(t, h) ==
  \/ zeCommandQueueCreate(t, h) \/ zeCommandListCreate(t, h) \/ zeCommandListCreateCloneExp(t, h)
  \/ zeCommandListCreateImmediate(t, h) \/ zeEventPoolCreate(t, h) \/ zeEventCreate(t, h)
  \/ zeEventCounterBasedCreate(t, h) \/ zeFenceCreate(t, h) \/ zeModuleCreate(t, h)
  \/ zeKernelCreate(t, h) \/ zeImageCreate(t, h) \/ zeSamplerCreate(t, h)
  \/ zePhysicalMemCreate(t, h)

DestroyCall(t, h) ==
  \/ zeContextDestroy(t, h) \/ zeCommandQueueDestroy(t, h) \/ zeCommandListDestroy(t, h)
  \/ zeEventPoolDestroy(t, h) \/ zeEventDestroy(t, h) \/ zeFenceDestroy(t, h)
  \/ zeModuleDestroy(t, h) \/ zeModuleBuildLogDestroy(t, h) \/ zeKernelDestroy(t, h)
  \/ zeImageDestroy(t, h) \/ zeSamplerDestroy(t, h)

ListCall(t, h) ==
  \/ zeCommandListClose(t, h) \/ zeCommandListReset(t, h)
  \/ \E e \in Handle : zeCommandListAppendSignalEvent(t, h, e)
  \/ \E lists \in (SUBSET Handle) \ {{}} : zeCommandQueueExecuteCommandLists(t, h, lists)

Next ==
  \E t \in Thread :
    \/ zeContextCreate(t)
    \/ \E h \in Handle : CreateCall(t, h) \/ DestroyCall(t, h) \/ ListCall(t, h)
    \/ DriverCreates(t) \/ DriverRefuses(t) \/ Register(t)
    \/ DriverDestroys(t) \/ DriverChangesList(t)

Spec == Init /\ [][Next]_vars

-----------------------------------------------------------------------------
(* Properties *)

\* The handles no call is busy making or destroying: those the application may hold.
Unknown == UNION {made[t] : t \in Thread}
BeingDestroyed == {call[t].handle : t \in {u \in Thread : InDriver(u, "destroy")}}
Settled(h) == Live(h) /\ h \notin Unknown \cup BeingDestroyed

TypeOfObject(h) == TypeOf(object[h].kind)

(* An application that may hold a handle is never told that the handle is   *)
(* not valid, and no handle is valid for another type, or for an object     *)
(* that is gone, even when addresses are used again while calls overlap.    *)
ValidWhileLive ==
  \A h \in Handle, type \in Type :
    isHandleValid(h, type) <=> Settled(h) /\ TypeOfObject(h) = type

(* hasDependents says of an object whether something made from it is still  *)
(* there: no missing entry, and no stale one that a new object at the same  *)
(* address would inherit.                                                   *)
DependentsAreChildren ==
  \A h \in Handle : dependentMap[h] = {x \in Children(h) : Settled(x)}

(* What the driver is asked to destroy is there, and nothing made from it   *)
(* remains.                                                                 *)
DestroysAreLegal ==
  \A t \in Thread : InDriver(t, "destroy") =>
    Live(call[t].handle) /\ Children(call[t].handle) = {}

(* Commands reach only lists that take commands, a queue only lists that    *)
(* are closed.  (Clones are registered as open, whatever their source, and  *)
(* immediate lists as closed: neither is meant here.)                       *)
ListCallsAreLegal ==
  \A t \in Thread :
    /\ InDriver(t, "append") /\ object[call[t].handle].kind = "list"
         => call[t].handle \in recording
    /\ InDriver(t, "execute") =>
         \A l \in call[t].others : object[l].kind # "list" \/ l \notin recording

(* The driver sees a well-behaved application, whatever the application     *)
(* does.                                                                    *)
ImplementsDriverObjects == DriverObject!Spec

=============================================================================

------------------------- MODULE HandleLifetimeGaps -------------------------
(***************************************************************************)
(* The same layer with the operations that lose track of objects: the      *)
(* destroy of physical memory, whose generated prologue treats the context *)
(* it is given as destroyed too, a destroy that the driver refuses, for    *)
(* instance while a device still uses the object, and a module whose build *)
(* fails.                                                                  *)
(***************************************************************************)
EXTENDS HandleLifetime

\* The handles that the prologue would let go, context first.
Released(c, h) ==
  IF ~Destroyable(c, "context") THEN {}
  ELSE {c} \cup IF Destroyable(h, "physicalMem") THEN {h} ELSE {}

(* A prologue that lets the context go and then refuses the memory has      *)
(* forgotten the context.                                                   *)
zePhysicalMemDestroy(t, c, h) ==
  LET gone == Released(c, h) IN
  /\ "physicalMem" \in Kinds /\ pc[t] = "idle"
  /\ gone # {}
  /\ handleStateMap' = [handleStateMap EXCEPT !["context"] = @ \ gone, !["physicalMem"] = @ \ gone]
  /\ dependentMap' = [p \in Handle |-> dependentMap[p] \ gone]
  /\ IF h \in gone THEN ToDriver(t, "destroy", "physicalMem", h, {c}) ELSE UNCHANGED callVars
  /\ UNCHANGED <<is_open, driverVars>>

\* DEVICE_LOST, HANDLE_OBJECT_IN_USE, ...: the object stays.
DriverKeeps(t) ==
  /\ InDriver(t, "destroy")
  /\ Return(t)
  /\ UNCHANGED <<layerVars, driverVars>>

(* MODULE_BUILD_FAILURE, "see build log for details": no module, but a log. *)
(* Only the handles of a call that succeeds are registered.                 *)
DriverFailsBuild(t) ==
  LET c == call[t] IN
  /\ InDriver(t, "create") /\ c.kind = "module" /\ "buildLog" \in Kinds
  /\ \E log \in Dead : object' = [object EXCEPT ![log] = [kind |-> "buildLog", parent |-> c.handle]]
  /\ Return(t)
  /\ UNCHANGED <<layerVars, recording>>

NextWithGaps ==
  \/ Next
  \/ \E t \in Thread :
       \/ \E c, h \in Handle : zePhysicalMemDestroy(t, c, h)
       \/ DriverKeeps(t) \/ DriverFailsBuild(t)

SpecWithGaps == Init /\ [][NextWithGaps]_vars

(* Physical memory from which nothing is left can be destroyed: ze_api.h     *)
(* releases the memory, and takes the context as an input only.             *)
PhysicalMemReleasable ==
  \A h \in Handle : Settled(h) /\ object[h].kind = "physicalMem" => h \in Released(object[h].parent, h)

(* A command may be appended to any list that takes commands, immediate     *)
(* lists among them, which are open for ever.                               *)
LegalAppendsAccepted ==
  \A l \in recording : Settled(l) => Appendable(l)

=============================================================================

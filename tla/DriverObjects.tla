---------------------------- MODULE DriverObjects ----------------------------
(***************************************************************************)
(* What a driver may rely on, as include/ze_api.h asks of its callers:     *)
(* objects are made from objects that exist, and an object is destroyed    *)
(* once, after those that were made from it.  An object is known by its    *)
(* handle, an address that the driver may give to a new object when the    *)
(* old one is gone.                                                        *)
(***************************************************************************)
CONSTANTS
  Handle, Kind,
  None             \* no object, and the parent of an object that has none

VARIABLE object    \* the object behind a handle

Object == [kind : Kind, parent : Handle \cup {None}]

Live(h) == object[h] # None

Children(h) == {x \in Handle : Live(x) /\ object[x].parent = h}

TypeOK == object \in [Handle -> Object \cup {None}]

Init == object = [h \in Handle |-> None]

\* One call may make several objects.
Create ==
  \E parent \in Handle \cup {None}, new \in (SUBSET Handle) \ {{}} :
    /\ parent # None => Live(parent)
    /\ \A h \in new : ~Live(h)
    /\ \E kind \in [new -> Kind] :
         object' = [h \in Handle |-> IF h \in new THEN [kind |-> kind[h], parent |-> parent]
                                     ELSE object[h]]

Destroy ==
  \E h \in Handle :
    /\ Live(h) /\ Children(h) = {}
    /\ object' = [object EXCEPT ![h] = None]

Next == Create \/ Destroy

Spec == Init /\ [][Next]_object

\* No object outlives the one it was made from.
ParentsLive == \A h \in Handle : Live(h) => object[h].parent = None \/ Live(object[h].parent)

=============================================================================

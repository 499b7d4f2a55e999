------------------------ MODULE HandleLifetime_proofs ------------------------
(***************************************************************************)
(* Proofs about HandleLifetime, for any threads, handles and kinds.        *)
(* Whether a handle is valid and what depends on it follow from the        *)
(* driver's objects (ValidWhileLive, DependentsAreChildren); that this is  *)
(* kept needs what the calls on their way hold (CallsInv): what a call     *)
(* makes objects from stays while it runs, what it destroys has nothing    *)
(* left, and what it has made is its own.                                  *)
(***************************************************************************)
EXTENDS HandleLifetime, TLAPS

ParentOf(t) == IF call[t].kind = "immediate" THEN None ELSE call[t].handle

\* What a call may count on at each of its stages.
StageInv(t) ==
  /\ pc[t] # "register" => made[t] = {}
  /\ pc[t] = "register" => call[t].op = "create"
  /\ pc[t] # "idle" /\ call[t].op = "create" => call[t].handle = None \/ Settled(call[t].handle)
  /\ pc[t] # "idle" /\ call[t].op # "create" => call[t].handle \in Handle
  /\ InDriver(t, "destroy") =>
       /\ call[t].handle \in Handle /\ Live(call[t].handle)
       /\ Children(call[t].handle) = {}
  /\ \A h \in made[t] : Live(h) /\ object[h].parent = ParentOf(t)

\* Calls do not get in each other's way.
Apart(t, u) ==
  /\ made[t] \cap made[u] = {}
  /\ InDriver(t, "destroy") /\ pc[u] # "idle" => call[t].handle \notin Used(call[u]) \cup made[u]

CallsInv ==
  /\ \A t \in Thread : StageInv(t)
  /\ \A t, u \in Thread : t # u => Apart(t, u)

ParentsInv == \A x \in Handle : Live(x) => object[x].parent = None \/ Settled(object[x].parent)

IInv == TypeOK /\ ValidWhileLive /\ DependentsAreChildren /\ ParentsInv /\ CallsInv

-----------------------------------------------------------------------------
(* Who holds a handle *)

LEMMA SettledMeans ==
  ASSUME NEW h
  PROVE  Settled(h) <=> /\ object[h] # None
                        /\ \A t \in Thread : h \notin made[t]
                        /\ \A t \in Thread : InDriver(t, "destroy") => call[t].handle # h
BY DEF Settled, Unknown, BeingDestroyed, Live, DriverObject!Live

LEMMA TypeOfType == \A kind \in Kind : TypeOf(kind) \in Type
BY DEF TypeOf, Kind, Type

\* A handle is held through a call's stages alone: the same makers, the same destroyers.
LEMMA SettledFrame ==
  ASSUME UNCHANGED <<object, made>>,
         \A t \in Thread : InDriver(t, "destroy")' <=> InDriver(t, "destroy"),
         \A t \in Thread : InDriver(t, "destroy") => call'[t].handle = call[t].handle
  PROVE  /\ \A h : Settled(h)' <=> Settled(h)
         /\ \A h : Children(h)' = Children(h)
<1>1. ASSUME NEW h PROVE Settled(h)' <=> Settled(h)
  BY DEF Settled, Unknown, BeingDestroyed, Live, DriverObject!Live
<1>2. ASSUME NEW h PROVE Children(h)' = Children(h)
  BY DEF Children, DriverObject!Children, DriverObject!Live
<1>3. QED
  BY <1>1, <1>2

-----------------------------------------------------------------------------
(* Initial states *)

LEMMA HandleInit == Init => IInv
<1> SUFFICES ASSUME Init PROVE IInv
  OBVIOUS
<1>1. TypeOK
  BY DEF Init, TypeOK, DriverObject!TypeOK, Call, NoCall, Op, Kind
<1>2. \A h \in Handle : ~Settled(h) /\ ~Live(h)
  BY SettledMeans DEF Init, Live, DriverObject!Live
<1>3. \A h \in Handle : Children(h) = {}
  BY DEF Init, Children, DriverObject!Children, DriverObject!Live
<1>4. ValidWhileLive /\ DependentsAreChildren /\ ParentsInv
  BY <1>2, <1>3 DEF Init, ValidWhileLive, DependentsAreChildren, ParentsInv, isHandleValid
<1>5. CallsInv
  BY DEF Init, CallsInv, StageInv, Apart, InDriver
<1>6. QED
  BY <1>1, <1>4, <1>5 DEF IInv

-----------------------------------------------------------------------------
(* Calls that the prologue lets through and that change no map of handles *)

\* A call enters the driver and destroys nothing.
Enter(t, op, kind, h, others) ==
  /\ ToDriver(t, op, kind, h, others)
  /\ op \in Op \ {"destroy"} /\ kind \in Kind /\ h \in Handle \cup {None} /\ others \in SUBSET Handle
  /\ IF op = "create" THEN h = None \/ Settled(h) ELSE h \in Handle
  /\ UNCHANGED <<handleStateMap, dependentMap, object>>

LEMMA EnterStep ==
  ASSUME IInv, is_open' \in SUBSET Handle, recording' \in SUBSET Handle,
         NEW t \in Thread, NEW op, NEW kind, NEW h, NEW others, Enter(t, op, kind, h, others)
  PROVE  IInv'
<1> DEFINE c == [op |-> op, kind |-> kind, handle |-> h, others |-> others]
<1>1. /\ pc[t] = "idle" /\ pc' = [pc EXCEPT ![t] = "driver"] /\ call' = [call EXCEPT ![t] = c]
      /\ UNCHANGED <<made, object, handleStateMap, dependentMap>> /\ Undisturbed(t, c)
  BY DEF Enter, ToDriver
<1>2. c \in Call
  BY DEF Enter, Call
<1>3. TypeOK'
  BY <1>1, <1>2 DEF IInv, TypeOK, DriverObject!TypeOK
<1>4. \A u \in Thread : InDriver(u, "destroy")' <=> InDriver(u, "destroy")
  BY <1>1 DEF IInv, TypeOK, InDriver, Enter
<1>5. \A u \in Thread : u # t => call'[u] = call[u] /\ pc'[u] = pc[u]
  BY <1>1 DEF IInv, TypeOK
<1>6. call'[t] = c /\ pc'[t] = "driver"
  BY <1>1 DEF IInv, TypeOK
<1>7. \A u \in Thread : InDriver(u, "destroy") => call'[u].handle = call[u].handle
  BY <1>1, <1>5 DEF InDriver
<1>8. (\A x : Settled(x)' <=> Settled(x)) /\ (\A x : Children(x)' = Children(x))
  BY <1>1, <1>4, <1>7, SettledFrame
<1>9. \A x : Live(x)' <=> Live(x)
  BY <1>1 DEF Live, DriverObject!Live
<1>10. ValidWhileLive' /\ DependentsAreChildren' /\ ParentsInv'
  BY <1>1, <1>8, <1>9
  DEF IInv, ValidWhileLive, DependentsAreChildren, ParentsInv, isHandleValid, TypeOfObject
<1>11. \A u \in Thread : StageInv(u)'
  <2> TAKE u \in Thread
  <2>1. StageInv(u) /\ made[t] = {}
    BY <1>1 DEF IInv, CallsInv, StageInv
  <2>2. CASE u = t
    BY <2>1, <2>2, <1>1, <1>6, <1>8 DEF StageInv, InDriver, Enter
  <2>3. CASE u # t
    BY <2>1, <2>3, <1>1, <1>5, <1>8, <1>9 DEF StageInv, InDriver, ParentOf
  <2>4. QED BY <2>2, <2>3
<1>12. \A u, v \in Thread : u # v => Apart(u, v)'
  <2> SUFFICES ASSUME NEW u \in Thread, NEW v \in Thread, u # v PROVE Apart(u, v)'
    OBVIOUS
  <2>1. Apart(u, v) /\ made[t] = {}
    BY <1>1 DEF IInv, CallsInv, StageInv
  <2>2. CASE u = t
    BY <2>1, <2>2, <1>1, <1>4 DEF Apart, InDriver
  <2>3. CASE v = t
    <3>1. InDriver(u, "destroy") => Used(c) \cap Used(call[u]) = {}
      BY <2>3, <1>1 DEF Undisturbed, InDriver
    <3>2. InDriver(u, "destroy") => call[u].handle \in Used(call[u])
      BY NoneAssumption DEF IInv, CallsInv, StageInv, Used
    <3>3. QED
      BY <3>1, <3>2, <2>1, <2>3, <1>1, <1>4, <1>5, <1>6 DEF Apart
  <2>4. CASE u # t /\ v # t
    BY <2>1, <2>4, <1>1, <1>5 DEF Apart, InDriver
  <2>5. QED BY <2>2, <2>3, <2>4
<1>13. QED
  BY <1>3, <1>10, <1>11, <1>12 DEF IInv, CallsInv

\* A valid handle is settled.
LEMMA ValidSettled ==
  ASSUME IInv, NEW h, NEW type \in Type, isHandleValid(h, type)
  PROVE  h \in Handle /\ Settled(h) /\ TypeOfObject(h) = type
BY DEF IInv, ValidWhileLive, isHandleValid, TypeOK

-----------------------------------------------------------------------------
(* Calls that return having made and destroyed nothing *)

Leave(t) ==
  /\ Return(t)
  /\ made[t] = {} /\ ~InDriver(t, "destroy")
  /\ UNCHANGED <<handleStateMap, dependentMap, object>>

LEMMA LeaveStep ==
  ASSUME IInv, is_open' \in SUBSET Handle, recording' \in SUBSET Handle,
         NEW t \in Thread, Leave(t)
  PROVE  IInv'
<1>1. /\ pc' = [pc EXCEPT ![t] = "idle"] /\ call' = [call EXCEPT ![t] = NoCall]
      /\ UNCHANGED <<made, object, handleStateMap, dependentMap>>
  BY DEF Leave, Return, IInv, TypeOK
<1>2. NoCall \in Call
  BY DEF NoCall, Call, Op, Kind
<1>3. TypeOK'
  BY <1>1, <1>2 DEF IInv, TypeOK, DriverObject!TypeOK
<1>4. \A u \in Thread : u # t => call'[u] = call[u] /\ pc'[u] = pc[u]
  BY <1>1 DEF IInv, TypeOK
<1>5. pc'[t] = "idle"
  BY <1>1 DEF IInv, TypeOK
<1>6. \A u \in Thread : InDriver(u, "destroy")' <=> InDriver(u, "destroy")
  BY <1>4, <1>5 DEF InDriver, Leave
<1>7. \A u \in Thread : InDriver(u, "destroy") => call'[u].handle = call[u].handle
  BY <1>4 DEF Leave
<1>8. (\A x : Settled(x)' <=> Settled(x)) /\ (\A x : Children(x)' = Children(x))
  BY <1>1, <1>6, <1>7, SettledFrame
<1>9. \A x : Live(x)' <=> Live(x)
  BY <1>1 DEF Live, DriverObject!Live
<1>10. ValidWhileLive' /\ DependentsAreChildren' /\ ParentsInv'
  BY <1>1, <1>8, <1>9
  DEF IInv, ValidWhileLive, DependentsAreChildren, ParentsInv, isHandleValid, TypeOfObject
<1>11. \A u \in Thread : StageInv(u)'
  <2> TAKE u \in Thread
  <2>1. StageInv(u)
    BY DEF IInv, CallsInv
  <2>2. CASE u = t
    BY <2>2, <1>1, <1>5 DEF StageInv, InDriver, Leave
  <2>3. CASE u # t
    BY <2>1, <2>3, <1>1, <1>4, <1>8, <1>9 DEF StageInv, InDriver, ParentOf
  <2>4. QED BY <2>2, <2>3
<1>12. \A u, v \in Thread : u # v => Apart(u, v)'
  <2> SUFFICES ASSUME NEW u \in Thread, NEW v \in Thread, u # v PROVE Apart(u, v)'
    OBVIOUS
  <2>1. Apart(u, v)
    BY DEF IInv, CallsInv
  <2>2. QED
    BY <2>1, <1>1, <1>4, <1>5 DEF Apart, InDriver
<1>13. QED
  BY <1>3, <1>10, <1>11, <1>12 DEF IInv, CallsInv

-----------------------------------------------------------------------------
(* A destroy forgets the handle before the driver is called *)

LEMMA DestroyStep ==
  ASSUME IInv, NEW t \in Thread, NEW h \in Handle, NEW type \in Type, Destroy(t, h, type)
  PROVE  IInv'
<1> DEFINE c == [op |-> "destroy", kind |-> type, handle |-> h, others |-> {}]
<1>1. /\ pc[t] = "idle" /\ pc' = [pc EXCEPT ![t] = "driver"] /\ call' = [call EXCEPT ![t] = c]
      /\ Undisturbed(t, c) /\ UNCHANGED <<made, object, recording>>
      /\ handleStateMap' = [handleStateMap EXCEPT ![type] = @ \ {h}]
      /\ is_open' = is_open \ {h}
      /\ dependentMap' = [p \in Handle |-> dependentMap[p] \ {h}]
  BY DEF Destroy, ToDriver, removeDependent, driverVars
<1>2. c \in Call
  BY DEF Call, Op, Kind, Type
<1>3. TypeOK'
  BY <1>1, <1>2 DEF IInv, TypeOK, DriverObject!TypeOK
<1>4. \A u \in Thread : u # t => call'[u] = call[u] /\ pc'[u] = pc[u]
  BY <1>1 DEF IInv, TypeOK
<1>5. call'[t] = c /\ pc'[t] = "driver" /\ InDriver(t, "destroy")' /\ ~InDriver(t, "destroy")
  BY <1>1 DEF IInv, TypeOK, InDriver
<1>6. Settled(h) /\ TypeOfObject(h) = type /\ dependentMap[h] = {}
  BY ValidSettled DEF Destroy, Destroyable, hasDependents
<1>7. \A x : Settled(x)' <=> Settled(x) /\ x # h
  <2> TAKE x
  <2>1. \A u \in Thread : u # t => (InDriver(u, "destroy")' <=> InDriver(u, "destroy"))
    BY <1>4 DEF InDriver
  <2>2. (\A u \in Thread : InDriver(u, "destroy")' => call'[u].handle # x)
        <=> x # h /\ \A u \in Thread : InDriver(u, "destroy") => call[u].handle # x
    BY <2>1, <1>4, <1>5
  <2>3. QED
    BY <2>2, <1>1, SettledMeans DEF Settled, Unknown, BeingDestroyed, Live, DriverObject!Live
<1>8. (\A x : Children(x)' = Children(x)) /\ (\A x : Live(x)' <=> Live(x))
  BY <1>1 DEF Children, DriverObject!Children, Live, DriverObject!Live
(* Nothing is left of h: a settled child would be among its dependents, one   *)
(* that another call makes or destroys is ruled out by Undisturbed.           *)
<1>9. Children(h) = {}
  <2> SUFFICES ASSUME NEW x \in Children(h) PROVE FALSE
    OBVIOUS
  <2>1. x \in Handle /\ Live(x) /\ object[x].parent = h /\ h # None
    BY NoneAssumption DEF Children, DriverObject!Children, Live, DriverObject!Live
  <2>2. ~Settled(x)
    BY <1>6 DEF IInv, DependentsAreChildren
  <2>3. PICK u \in Thread :
             x \in made[u] \/ (InDriver(u, "destroy") /\ call[u].handle = x)
    BY <2>1, <2>2, SettledMeans DEF Live, DriverObject!Live
  <2>4. StageInv(u) /\ StageInv(t)
    BY DEF IInv, CallsInv
  <2>5. u # t /\ pc[u] # "idle"
    BY <2>3, <2>4, <1>1, <1>5 DEF StageInv, InDriver
  <2>6. h \notin Used(call[u]) /\ x \notin Used(call[u])
    BY <2>5, <1>1, <1>6, <2>1 DEF Undisturbed, Used
  <2>7. CASE x \in made[u]
    BY <2>1, <2>4, <2>6, <2>7 DEF StageInv, ParentOf, Used
  <2>8. CASE InDriver(u, "destroy") /\ call[u].handle = x
    BY <2>1, <2>6, <2>8, NoneAssumption DEF Used
  <2>9. QED BY <2>3, <2>7, <2>8
<1>10. ValidWhileLive'
  BY <1>1, <1>6, <1>7 DEF IInv, TypeOK, ValidWhileLive, isHandleValid, TypeOfObject
<1>11. DependentsAreChildren'
  BY <1>1, <1>7, <1>8 DEF IInv, TypeOK, DependentsAreChildren
<1>12. ParentsInv'
  <2> SUFFICES ASSUME NEW x \in Handle, Live(x)
               PROVE  (object[x].parent = None \/ Settled(object[x].parent))'
    BY <1>8 DEF ParentsInv
  <2>1. object[x].parent # h /\ object'[x] = object[x]
    BY <1>1, <1>9 DEF Children, DriverObject!Children, Live
  <2>2. object[x].parent = None \/ Settled(object[x].parent)
    BY DEF IInv, ParentsInv
  <2>3. QED
    BY <2>1, <2>2, <1>7
<1>13. \A u \in Thread : StageInv(u)'
  <2> TAKE u \in Thread
  <2>1. StageInv(u) /\ made[t] = {}
    BY <1>1 DEF IInv, CallsInv, StageInv
  <2>2. CASE u = t
    BY <2>1, <2>2, <1>1, <1>5, <1>6, <1>8, <1>9 DEF StageInv, InDriver, Settled
  <2>3. CASE u # t
    <3>1. pc[u] # "idle" => call[u].handle # h
      BY <2>3, <1>1, <1>6, SettledMeans, NoneAssumption DEF Undisturbed, Used
    <3>2. QED
      BY <3>1, <2>1, <2>3, <1>1, <1>4, <1>7, <1>8 DEF StageInv, InDriver, ParentOf
  <2>4. QED BY <2>2, <2>3
<1>14. \A u, v \in Thread : u # v => Apart(u, v)'
  <2> SUFFICES ASSUME NEW u \in Thread, NEW v \in Thread, u # v PROVE Apart(u, v)'
    OBVIOUS
  <2>1. Apart(u, v) /\ made[t] = {} /\ Apart(v, u)
    BY <1>1 DEF IInv, CallsInv, StageInv
  <2>2. h # None /\ Used(c) = {h}
    BY NoneAssumption DEF Used
  <2>3. CASE u = t
    <3>1. pc[v] # "idle" => h \notin Used(call[v])
      BY <2>2, <2>3, <1>1 DEF Undisturbed
    <3>2. h \notin made[v]
      BY <1>6, SettledMeans
    <3>3. QED
      BY <3>1, <3>2, <2>1, <2>3, <1>1, <1>4, <1>5 DEF Apart
  <2>4. CASE v = t
    <3>1. InDriver(u, "destroy") => call[u].handle # h
      BY <1>6, SettledMeans
    <3>2. QED
      BY <3>1, <2>1, <2>2, <2>4, <1>1, <1>4, <1>5 DEF Apart, InDriver
  <2>5. CASE u # t /\ v # t
    BY <2>1, <2>5, <1>1, <1>4 DEF Apart, InDriver
  <2>6. QED BY <2>3, <2>4, <2>5
<1>15. QED
  BY <1>3, <1>10, <1>11, <1>12, <1>13, <1>14 DEF IInv, CallsInv

-----------------------------------------------------------------------------
(* The driver *)

LEMMA DriverDestroysStep ==
  ASSUME IInv, NEW t \in Thread, DriverDestroys(t)
  PROVE  IInv'
<1> DEFINE h == call[t].handle
<1>1. /\ InDriver(t, "destroy") /\ pc[t] = "driver"
      /\ pc' = [pc EXCEPT ![t] = "idle"] /\ call' = [call EXCEPT ![t] = NoCall]
      /\ made' = [made EXCEPT ![t] = {}]
      /\ object' = [object EXCEPT ![h] = None]
      /\ recording' = recording \ {h}
      /\ UNCHANGED <<handleStateMap, is_open, dependentMap>>
  BY DEF DriverDestroys, Return, InDriver, layerVars
<1>2. made[t] = {} /\ h \in Handle /\ Live(h) /\ Children(h) = {}
  BY <1>1 DEF IInv, CallsInv, StageInv
<1>3. made' = made
  BY <1>1, <1>2 DEF IInv, TypeOK
<1>4. NoCall \in Call
  BY DEF NoCall, Call, Op, Kind
<1>5. TypeOK'
  BY <1>1, <1>3, <1>4 DEF IInv, TypeOK, DriverObject!TypeOK
<1>6. \A u \in Thread : u # t => call'[u] = call[u] /\ pc'[u] = pc[u]
  BY <1>1 DEF IInv, TypeOK
<1>7. pc'[t] = "idle" /\ ~InDriver(t, "destroy")'
  BY <1>1 DEF IInv, TypeOK, InDriver
<1>8. \A x \in Handle : object'[x] = IF x = h THEN None ELSE object[x]
  BY <1>1, <1>2 DEF IInv, TypeOK, DriverObject!TypeOK
<1>9. \A x \in Handle : Live(x)' <=> Live(x) /\ x # h
  BY <1>8 DEF Live, DriverObject!Live
<1>10. \A x \in Handle : Children(x)' = Children(x) \ {h}
  BY <1>8 DEF Children, DriverObject!Children, DriverObject!Live
<1>11. \A u \in Thread : u # t =>
         /\ InDriver(u, "destroy")' <=> InDriver(u, "destroy")
         /\ pc[u] # "idle" => call[u].handle # h
  <2> SUFFICES ASSUME NEW u \in Thread, u # t
               PROVE  /\ InDriver(u, "destroy")' <=> InDriver(u, "destroy")
                      /\ pc[u] # "idle" => call[u].handle # h
    OBVIOUS
  <2>1. Apart(t, u)
    BY DEF IInv, CallsInv
  <2>2. QED
    BY <2>1, <1>1, <1>2, <1>6, NoneAssumption DEF Apart, InDriver, Used
<1>12. \A x \in Handle : Settled(x)' <=> Settled(x)
  <2> TAKE x \in Handle
  <2>1. ~Settled(h)
    BY <1>1, SettledMeans
  <2>2. (\A u \in Thread : InDriver(u, "destroy")' => call'[u].handle # x)
        <=> \A u \in Thread \ {t} : InDriver(u, "destroy") => call[u].handle # x
    BY <1>6, <1>7, <1>11
  <2>3. CASE x = h
    BY <2>1, <2>3, <1>9 DEF Settled
  <2>4. CASE x # h
    BY <2>2, <2>4, <1>1, <1>3, <1>9, SettledMeans
    DEF Settled, Unknown, BeingDestroyed, Live, DriverObject!Live
  <2>5. QED BY <2>3, <2>4
<1>13. ~Settled(h)
  BY <1>1, SettledMeans
<1>14. ValidWhileLive'
  <2> SUFFICES ASSUME NEW x \in Handle, NEW type \in Type
               PROVE  (isHandleValid(x, type) <=> Settled(x) /\ TypeOfObject(x) = type)'
    BY DEF ValidWhileLive
  <2>1. isHandleValid(x, type) <=> Settled(x) /\ TypeOfObject(x) = type
    BY DEF IInv, ValidWhileLive
  <2>2. Settled(x) => TypeOfObject(x)' = TypeOfObject(x)
    BY <1>8, <1>13 DEF TypeOfObject
  <2>3. QED
    BY <2>1, <2>2, <1>1, <1>12 DEF isHandleValid
<1>15. DependentsAreChildren'
  <2> SUFFICES ASSUME NEW x \in Handle
               PROVE  dependentMap'[x] = {y \in Children(x)' : Settled(y)'}
    BY DEF DependentsAreChildren
  <2>1. dependentMap[x] = {y \in Children(x) : Settled(y)}
    BY DEF IInv, DependentsAreChildren
  <2>2. \A y \in Children(x) : y \in Handle
    BY DEF Children, DriverObject!Children
  <2>3. QED
    BY <2>1, <2>2, <1>1, <1>10, <1>12, <1>13
<1>16. ParentsInv'
  <2> SUFFICES ASSUME NEW x \in Handle, Live(x)'
               PROVE  (object[x].parent = None \/ Settled(object[x].parent))'
    BY DEF ParentsInv
  <2>1. Live(x) /\ object'[x] = object[x]
    BY <1>8, <1>9
  <2>2. object[x].parent \in Handle \cup {None}
    BY <2>1 DEF IInv, TypeOK, DriverObject!TypeOK, DriverObject!Object, Live, DriverObject!Live
  <2>3. QED
    BY <2>1, <2>2, <1>12 DEF IInv, ParentsInv
<1>17. \A u \in Thread : StageInv(u)'
  <2> TAKE u \in Thread
  <2>1. StageInv(u)
    BY DEF IInv, CallsInv
  <2>2. CASE u = t
    BY <2>2, <1>2, <1>3, <1>7 DEF StageInv, InDriver
  <2>3. CASE u # t
    <3>1. pc[u] # "idle" => call[u].handle # h
      BY <2>3, <1>11
    <3>2. h \notin made[u]
      BY <2>3, <1>1 DEF IInv, CallsInv, Apart, StageInv, InDriver
    <3>3. call[u].handle \in Handle \cup {None} /\ made[u] \subseteq Handle
      BY DEF IInv, TypeOK, Call
    <3>4. pc'[u] = pc[u] /\ call'[u] = call[u] /\ made'[u] = made[u]
      BY <2>3, <1>3, <1>6
    <3>5. (pc[u] # "idle" /\ call[u].op = "create" =>
             call[u].handle = None \/ Settled(call[u].handle))'
      BY <2>1, <3>3, <3>4, <1>12 DEF StageInv
    <3>6. (InDriver(u, "destroy") =>
             call[u].handle \in Handle /\ Live(call[u].handle) /\ Children(call[u].handle) = {})'
      BY <2>1, <3>1, <3>4, <1>9, <1>10 DEF StageInv, InDriver
    <3>7. \A x \in made[u] : Live(x)' /\ object'[x].parent = ParentOf(u)
      BY <2>1, <3>2, <3>3, <1>8, <1>9 DEF StageInv
    <3>8. QED
      BY <2>1, <3>4, <3>5, <3>6, <3>7 DEF StageInv, InDriver, ParentOf
  <2>4. QED BY <2>2, <2>3
<1>18. \A u, v \in Thread : u # v => Apart(u, v)'
  <2> SUFFICES ASSUME NEW u \in Thread, NEW v \in Thread, u # v PROVE Apart(u, v)'
    OBVIOUS
  <2>1. Apart(u, v)
    BY DEF IInv, CallsInv
  <2>2. QED
    BY <2>1, <1>3, <1>6, <1>7 DEF Apart, InDriver
<1>19. QED
  BY <1>5, <1>14, <1>15, <1>16, <1>17, <1>18 DEF IInv, CallsInv

LEMMA DriverCreatesStep ==
  ASSUME IInv, NEW t \in Thread, DriverCreates(t)
  PROVE  IInv'
<1> DEFINE c == call[t]
           parent == ParentOf(t)
<1> DEFINE Makes(main, log) ==
             /\ object' = [h \in Handle |->
                  CASE h = main -> [kind |-> c.kind, parent |-> parent]
                    [] h \in log -> [kind |-> "buildLog", parent |-> parent]
                    [] OTHER -> object[h]]
             /\ made' = [made EXCEPT ![t] = {main} \cup log]
             /\ recording' = IF c.kind \in {"list", "immediate"} THEN recording \cup {main}
                             ELSE recording
<1>0. PICK main \in Dead : \E log \in Logs(c, main) : Makes(main, log)
  BY DEF DriverCreates, ParentOf
<1>1. PICK log \in Logs(c, main) : Makes(main, log)
  BY <1>0
<1> DEFINE new == {main} \cup log
<1>2. /\ pc[t] = "driver" /\ c.op = "create" /\ InDriver(t, "create")
      /\ pc' = [pc EXCEPT ![t] = "register"]
      /\ UNCHANGED <<call, handleStateMap, is_open, dependentMap>>
  BY DEF DriverCreates, InDriver, layerVars
<1>3. new \subseteq Handle /\ main \notin log /\ \A h \in new : ~Live(h)
  BY <1>1 DEF Dead, Logs
<1>4. c \in Call /\ parent \in Handle \cup {None}
  BY DEF IInv, TypeOK, Call, ParentOf
<1>5. /\ \A h \in new : object'[h].parent = parent /\ object'[h] # None
                        /\ object'[h] \in DriverObject!Object
      /\ \A h \in Handle \ new : object'[h] = object[h]
  <2>1. object'[main] = [kind |-> c.kind, parent |-> parent]
    BY <1>1, <1>3
  <2>2. \A h \in log : object'[h] = [kind |-> "buildLog", parent |-> parent]
    BY <1>1, <1>3
  <2>3. \A h \in Handle \ new : object'[h] = object[h]
    BY <1>1
  <2>4. \A k \in Kind : /\ [kind |-> k, parent |-> parent] \in DriverObject!Object
                        /\ [kind |-> k, parent |-> parent] # None
    BY <1>4, NoneAssumption DEF DriverObject!Object
  <2>5. c.kind \in Kind /\ "buildLog" \in Kind
    BY <1>4 DEF Call, Kind
  <2>6. QED
    BY <2>1, <2>2, <2>3, <2>4, <2>5
<1>6. \A h \in Handle : Live(h)' <=> Live(h) \/ h \in new
  BY <1>3, <1>5 DEF Live, DriverObject!Live
<1>7. TypeOK'
  <2>1. object' \in [Handle -> DriverObject!Object \cup {None}]
    BY <1>1, <1>5 DEF IInv, TypeOK, DriverObject!TypeOK
  <2>2. made' \in [Thread -> SUBSET Handle] /\ recording' \in SUBSET Handle
    BY <1>1, <1>3 DEF IInv, TypeOK
  <2>3. QED
    BY <2>1, <2>2, <1>2 DEF IInv, TypeOK, DriverObject!TypeOK
<1>8. /\ made'[t] = new /\ pc'[t] = "register"
      /\ \A u \in Thread : u # t => made'[u] = made[u] /\ pc'[u] = pc[u]
      /\ \A u \in Thread : call'[u] = call[u]
  BY <1>1, <1>2 DEF IInv, TypeOK
<1>9. \A u \in Thread : InDriver(u, "destroy")' <=> InDriver(u, "destroy")
  BY <1>2, <1>8 DEF InDriver
(* What the driver has just made was dead: nobody holds it, nothing was made  *)
(* from it.                                                                   *)
<1>10. \A h \in new : /\ \A u \in Thread : h \notin made[u]
                      /\ \A u \in Thread : InDriver(u, "destroy") => call[u].handle # h
                      /\ Children(h) = {}
                      /\ parent # h
  <2> TAKE h \in new
  <2>1. ~Live(h) /\ ~Settled(h) /\ h \in Handle
    BY <1>3 DEF Settled
  <2>2. \A u \in Thread : h \notin made[u]
    BY <2>1 DEF IInv, CallsInv, StageInv
  <2>3. \A u \in Thread : InDriver(u, "destroy") => call[u].handle # h
    BY <2>1 DEF IInv, CallsInv, StageInv
  <2>4. Children(h) = {}
    BY <2>1, NoneAssumption DEF IInv, ParentsInv, Children, DriverObject!Children, Live
  <2>5. StageInv(t)
    BY DEF IInv, CallsInv
  <2>6. parent # h
    BY <2>1, <2>5, <1>2, NoneAssumption DEF StageInv, ParentOf
  <2>7. QED BY <2>2, <2>3, <2>4, <2>6
<1>11. \A h \in Handle : Settled(h)' <=> Settled(h)
  <2> TAKE h \in Handle
  <2>1. Settled(h)' <=> /\ Live(h)'
                        /\ \A u \in Thread : h \notin made'[u]
                        /\ \A u \in Thread : InDriver(u, "destroy")' => call'[u].handle # h
    BY DEF Settled, Unknown, BeingDestroyed
  <2>2. CASE h \in new
    BY <2>1, <2>2, <1>3, <1>8 DEF Settled
  <2>3. CASE h \notin new
    <3>1. made[t] = {}
      BY <1>2 DEF IInv, CallsInv, StageInv
    <3>2. \A u \in Thread : h \in made'[u] <=> h \in made[u]
      BY <2>3, <3>1, <1>8
    <3>3. QED
      BY <2>1, <2>3, <3>2, <1>6, <1>8, <1>9 DEF Settled, Unknown, BeingDestroyed
  <2>4. QED BY <2>2, <2>3
<1>12. \A h \in Handle : Children(h)' = Children(h) \cup IF parent = h THEN new ELSE {}
  <2> TAKE h \in Handle
  <2>1. \A x \in Handle : x \in Children(h)' <=> Live(x)' /\ object'[x].parent = h
    BY DEF Children, DriverObject!Children, Live
  <2>2. \A x \in Handle : x \in Children(h) <=> Live(x) /\ object[x].parent = h
    BY DEF Children, DriverObject!Children, Live
  <2>3. Children(h) \subseteq Handle /\ Children(h)' \subseteq Handle
    BY DEF Children, DriverObject!Children
  <2>4. QED
    BY <2>1, <2>2, <2>3, <1>3, <1>5, <1>6
<1>13. ValidWhileLive'
  <2> SUFFICES ASSUME NEW h \in Handle, NEW type \in Type
               PROVE  (isHandleValid(h, type) <=> Settled(h) /\ TypeOfObject(h) = type)'
    BY DEF ValidWhileLive
  <2>1. isHandleValid(h, type) <=> Settled(h) /\ TypeOfObject(h) = type
    BY DEF IInv, ValidWhileLive
  <2>2. Settled(h) => TypeOfObject(h)' = TypeOfObject(h)
    BY <1>3, <1>5 DEF TypeOfObject, Settled
  <2>3. QED
    BY <2>1, <2>2, <1>2, <1>11 DEF isHandleValid
<1>14. DependentsAreChildren'
  <2> SUFFICES ASSUME NEW h \in Handle
               PROVE  dependentMap'[h] = {x \in Children(h)' : Settled(x)'}
    BY DEF DependentsAreChildren
  <2>1. dependentMap[h] = {x \in Children(h) : Settled(x)}
    BY DEF IInv, DependentsAreChildren
  <2>2. \A x \in Children(h) : x \in Handle
    BY DEF Children, DriverObject!Children
  <2>3. \A x \in new : ~Settled(x) /\ x \in Handle
    BY <1>3 DEF Settled
  <2>4. QED
    BY <2>1, <2>2, <2>3, <1>2, <1>11, <1>12
<1>15. parent = None \/ Settled(parent)
  BY <1>2 DEF IInv, CallsInv, StageInv, ParentOf
<1>16. ParentsInv'
  <2> SUFFICES ASSUME NEW x \in Handle, Live(x)'
               PROVE  (object[x].parent = None \/ Settled(object[x].parent))'
    BY DEF ParentsInv
  <2>1. CASE x \in new
    BY <2>1, <1>4, <1>5, <1>11, <1>15
  <2>2. CASE x \notin new
    <3>1. Live(x) /\ object'[x] = object[x]
      BY <2>2, <1>5, <1>6
    <3>2. object[x].parent \in Handle \cup {None}
      BY <3>1 DEF IInv, TypeOK, DriverObject!TypeOK, DriverObject!Object, Live, DriverObject!Live
    <3>3. QED
      BY <3>1, <3>2, <1>11 DEF IInv, ParentsInv
  <2>3. QED BY <2>1, <2>2
<1>17. \A u \in Thread : StageInv(u)'
  <2> TAKE u \in Thread
  <2>1. StageInv(u)
    BY DEF IInv, CallsInv
  <2>2. CASE u = t
    <3>1. ParentOf(t)' = parent
      BY <1>8 DEF ParentOf
    <3>2. (call[t].handle = None \/ Settled(call[t].handle))'
      BY <2>1, <2>2, <1>2, <1>4, <1>8, <1>11 DEF StageInv, Call
    <3>3. \A h \in new : Live(h)' /\ object'[h].parent = parent
      BY <1>3, <1>5, <1>6
    <3>4. QED
      BY <2>2, <3>1, <3>2, <3>3, <1>2, <1>8 DEF StageInv, InDriver
  <2>3. CASE u # t
    <3>1. call[u].handle \in Handle \cup {None} /\ made[u] \subseteq Handle
      BY DEF IInv, TypeOK, Call
    <3>2. pc'[u] = pc[u] /\ call'[u] = call[u] /\ made'[u] = made[u]
      BY <2>3, <1>8
    <3>3. (pc[u] # "idle" /\ call[u].op = "create" =>
             call[u].handle = None \/ Settled(call[u].handle))'
      BY <2>1, <3>1, <3>2, <1>11 DEF StageInv
    <3>4. InDriver(u, "destroy") => parent # call[u].handle
      BY <1>15, <2>1, NoneAssumption, SettledMeans DEF StageInv
    <3>5. (InDriver(u, "destroy") =>
             call[u].handle \in Handle /\ Live(call[u].handle) /\ Children(call[u].handle) = {})'
      BY <2>1, <3>2, <3>4, <1>6, <1>9, <1>12 DEF StageInv
    <3>6. \A h \in made[u] : Live(h)' /\ object'[h].parent = ParentOf(u)
      BY <2>1, <3>1, <1>5, <1>6, <1>10 DEF StageInv
    <3>7. QED
      BY <2>1, <3>2, <3>3, <3>5, <3>6 DEF StageInv, InDriver, ParentOf
  <2>4. QED BY <2>2, <2>3
<1>18. \A u, v \in Thread : u # v => Apart(u, v)'
  <2> SUFFICES ASSUME NEW u \in Thread, NEW v \in Thread, u # v PROVE Apart(u, v)'
    OBVIOUS
  <2>1. Apart(u, v)
    BY DEF IInv, CallsInv
  <2>2. CASE u = t
    <3>1. ~InDriver(u, "destroy")'
      BY <2>2, <1>8 DEF InDriver
    <3>2. made'[u] \cap made'[v] = {}
      BY <2>2, <1>8, <1>10
    <3>3. QED BY <3>1, <3>2 DEF Apart
  <2>3. CASE v = t
    BY <2>1, <2>3, <1>2, <1>8, <1>9, <1>10 DEF Apart
  <2>4. CASE u # t /\ v # t
    BY <2>1, <2>4, <1>8 DEF Apart, InDriver
  <2>5. QED BY <2>2, <2>3, <2>4
<1>19. QED
  BY <1>7, <1>13, <1>14, <1>16, <1>17, <1>18 DEF IInv, CallsInv

-----------------------------------------------------------------------------
(* What was made becomes known *)

LEMMA RegisterStep ==
  ASSUME IInv, NEW t \in Thread, Register(t)
  PROVE  IInv'
<1> DEFINE c == call[t]
           parent == ParentOf(t)
           new == made[t]
<1>1. /\ pc[t] = "register" /\ pc' = [pc EXCEPT ![t] = "idle"]
      /\ call' = [call EXCEPT ![t] = NoCall] /\ made' = [made EXCEPT ![t] = {}]
      /\ handleStateMap' = [type \in Type |-> handleStateMap[type]
                              \cup {h \in new : TypeOf(object[h].kind) = type}]
      /\ is_open' = IF c.kind \in {"list", "clone"} THEN is_open \cup new ELSE is_open
      /\ dependentMap' = addDependent(parent, new)
      /\ UNCHANGED <<object, recording>>
  BY DEF Register, Return, ParentOf, driverVars
<1>2. new \subseteq Handle /\ c.op = "create" /\ parent \in Handle \cup {None}
  BY <1>1 DEF IInv, TypeOK, CallsInv, StageInv, Call, ParentOf
<1>3. \A h \in new : Live(h) /\ object[h].parent = parent
  BY DEF IInv, CallsInv, StageInv
<1>4. NoCall \in Call
  BY DEF NoCall, Call, Op, Kind
<1>5. dependentMap' \in [Handle -> SUBSET Handle]
      /\ \A h \in Handle : dependentMap'[h] = dependentMap[h] \cup IF h = parent THEN new ELSE {}
  BY <1>1, <1>2, NoneAssumption DEF IInv, TypeOK, addDependent
<1>6. TypeOK'
  <2>1. handleStateMap' \in [Type -> SUBSET Handle]
    BY <1>1, <1>2 DEF IInv, TypeOK
  <2>2. QED
    BY <2>1, <1>1, <1>2, <1>4, <1>5 DEF IInv, TypeOK, DriverObject!TypeOK
<1>7. /\ pc'[t] = "idle" /\ made'[t] = {}
      /\ \A u \in Thread : u # t => made'[u] = made[u] /\ pc'[u] = pc[u] /\ call'[u] = call[u]
  BY <1>1 DEF IInv, TypeOK
<1>8. \A u \in Thread : /\ InDriver(u, "destroy")' <=> InDriver(u, "destroy")
                        /\ InDriver(u, "destroy") => u # t
  BY <1>1, <1>7 DEF InDriver
<1>9. (\A x : Children(x)' = Children(x)) /\ (\A x : Live(x)' <=> Live(x))
  BY <1>1 DEF Children, DriverObject!Children, Live, DriverObject!Live
<1>10. \A h \in new : \A u \in Thread : /\ u # t => h \notin made[u]
                                        /\ InDriver(u, "destroy") => call[u].handle # h
  BY <1>1, <1>8 DEF IInv, CallsInv, Apart
<1>11. \A h \in Handle : Settled(h)' <=> Settled(h) \/ h \in new
  <2> TAKE h \in Handle
  <2>1. Settled(h)' <=> /\ Live(h)'
                        /\ \A u \in Thread : h \notin made'[u]
                        /\ \A u \in Thread : InDriver(u, "destroy")' => call'[u].handle # h
    BY DEF Settled, Unknown, BeingDestroyed
  <2>2. CASE h \in new
    BY <2>1, <2>2, <1>3, <1>7, <1>8, <1>9, <1>10
  <2>3. CASE h \notin new
    BY <2>1, <2>3, <1>7, <1>8, <1>9 DEF Settled, Unknown, BeingDestroyed
  <2>4. QED BY <2>2, <2>3
<1>12. \A h \in new : ~Settled(h)
  BY SettledMeans
<1>13. ValidWhileLive'
  <2> SUFFICES ASSUME NEW h \in Handle, NEW type \in Type
               PROVE  (isHandleValid(h, type) <=> Settled(h) /\ TypeOfObject(h) = type)'
    BY DEF ValidWhileLive
  <2>1. isHandleValid(h, type) <=> Settled(h) /\ TypeOfObject(h) = type
    BY DEF IInv, ValidWhileLive
  <2>2. handleStateMap'[type] = handleStateMap[type] \cup {x \in new : TypeOf(object[x].kind) = type}
    BY <1>1
  <2>3. QED
    BY <2>1, <2>2, <1>1, <1>11, <1>12 DEF isHandleValid, TypeOfObject
<1>14. DependentsAreChildren'
  <2> SUFFICES ASSUME NEW h \in Handle
               PROVE  dependentMap'[h] = {x \in Children(h)' : Settled(x)'}
    BY DEF DependentsAreChildren
  <2>1. dependentMap[h] = {x \in Children(h) : Settled(x)}
    BY DEF IInv, DependentsAreChildren
  <2>2. \A x \in Children(h) : x \in Handle /\ object[x].parent = h
    BY DEF Children, DriverObject!Children
  <2>3. h = parent => new \subseteq Children(h)
    BY <1>2, <1>3 DEF Children, DriverObject!Children, Live
  <2>4. h # parent => new \cap Children(h) = {}
    BY <2>2, <1>3
  <2>5. QED
    BY <2>1, <2>2, <2>3, <2>4, <1>5, <1>9, <1>11
<1>15. ParentsInv'
  <2> SUFFICES ASSUME NEW x \in Handle, Live(x)
               PROVE  (object[x].parent = None \/ Settled(object[x].parent))'
    BY <1>9 DEF ParentsInv
  <2>1. object[x].parent \in Handle \cup {None}
    BY DEF IInv, TypeOK, DriverObject!TypeOK, DriverObject!Object, Live, DriverObject!Live
  <2>2. QED
    BY <2>1, <1>1, <1>11 DEF IInv, ParentsInv
<1>16. \A u \in Thread : StageInv(u)'
  <2> TAKE u \in Thread
  <2>1. StageInv(u)
    BY DEF IInv, CallsInv
  <2>2. CASE u = t
    BY <2>2, <1>7 DEF StageInv, InDriver
  <2>3. CASE u # t
    <3>1. call[u].handle \in Handle \cup {None}
      BY DEF IInv, TypeOK, Call
    <3>2. pc'[u] = pc[u] /\ call'[u] = call[u] /\ made'[u] = made[u]
      BY <2>3, <1>7
    <3>3. (pc[u] # "idle" /\ call[u].op = "create" =>
             call[u].handle = None \/ Settled(call[u].handle))'
      BY <2>1, <3>1, <3>2, <1>11 DEF StageInv
    <3>4. QED
      BY <2>1, <3>2, <3>3, <1>1, <1>8, <1>9 DEF StageInv, InDriver, ParentOf
  <2>4. QED BY <2>2, <2>3
<1>17. \A u, v \in Thread : u # v => Apart(u, v)'
  <2> SUFFICES ASSUME NEW u \in Thread, NEW v \in Thread, u # v PROVE Apart(u, v)'
    OBVIOUS
  <2>1. Apart(u, v)
    BY DEF IInv, CallsInv
  <2>2. QED
    BY <2>1, <1>7, <1>8 DEF Apart, InDriver
<1>18. QED
  BY <1>6, <1>13, <1>14, <1>15, <1>16, <1>17 DEF IInv, CallsInv

-----------------------------------------------------------------------------
(* Every step *)

LEMMA MakeStep ==
  ASSUME IInv, NEW t \in Thread, NEW kind \in Kind, NEW h \in Handle, NEW type \in Type,
         Make(t, kind, h, type)
  PROVE  IInv'
<1>1. Settled(h)
  BY ValidSettled DEF Make
<1>2. Enter(t, "create", kind, h, {}) /\ UNCHANGED <<is_open, recording>>
  BY <1>1 DEF Make, Enter, Op, layerVars, driverVars
<1>3. QED
  BY <1>2, EnterStep DEF IInv, TypeOK

LEMMA CreateCallStep ==
  ASSUME IInv, NEW t \in Thread, NEW h \in Handle, CreateCall(t, h)
  PROVE  IInv'
<1>1. \E kind \in Kind, type \in Type : Make(t, kind, h, type)
  BY DEF CreateCall, Kind, Type, zeCommandQueueCreate, zeCommandListCreate,
         zeCommandListCreateCloneExp, zeCommandListCreateImmediate, zeEventPoolCreate,
         zeEventCreate, zeEventCounterBasedCreate, zeFenceCreate, zeModuleCreate,
         zeKernelCreate, zeImageCreate, zeSamplerCreate, zePhysicalMemCreate
<1>2. QED
  BY <1>1, MakeStep

LEMMA DestroyCallStep ==
  ASSUME IInv, NEW t \in Thread, NEW h \in Handle, DestroyCall(t, h)
  PROVE  IInv'
<1>1. \E type \in Type : Destroy(t, h, type)
  BY DEF DestroyCall, Type, zeContextDestroy, zeCommandQueueDestroy, zeCommandListDestroy,
         zeEventPoolDestroy, zeEventDestroy, zeFenceDestroy, zeModuleDestroy,
         zeModuleBuildLogDestroy, zeKernelDestroy, zeImageDestroy, zeSamplerDestroy
<1>2. QED
  BY <1>1, DestroyStep

LEMMA ListCallStep ==
  ASSUME IInv, NEW t \in Thread, NEW h \in Handle, ListCall(t, h)
  PROVE  IInv'
<1> USE DEF Enter, Op, Kind, layerVars, driverVars
<1>1. CASE zeCommandListClose(t, h)
  <2>1. Enter(t, "close", "list", h, {}) /\ is_open' = is_open \ {h} /\ recording' = recording
    BY <1>1 DEF zeCommandListClose
  <2>2. QED
    BY <2>1, EnterStep DEF IInv, TypeOK
<1>2. CASE zeCommandListReset(t, h)
  <2>1. Enter(t, "reset", "list", h, {}) /\ is_open' = is_open \cup {h} /\ recording' = recording
    BY <1>2 DEF zeCommandListReset
  <2>2. QED
    BY <2>1, EnterStep DEF IInv, TypeOK
<1>3. ASSUME NEW e \in Handle, zeCommandListAppendSignalEvent(t, h, e) PROVE IInv'
  <2>1. Enter(t, "append", "list", h, {e}) /\ UNCHANGED <<is_open, recording>>
    BY <1>3 DEF zeCommandListAppendSignalEvent
  <2>2. QED
    BY <2>1, EnterStep DEF IInv, TypeOK
<1>4. ASSUME NEW lists \in SUBSET Handle, zeCommandQueueExecuteCommandLists(t, h, lists)
      PROVE  IInv'
  <2>1. Enter(t, "execute", "queue", h, lists) /\ UNCHANGED <<is_open, recording>>
    BY <1>4 DEF zeCommandQueueExecuteCommandLists
  <2>2. QED
    BY <2>1, EnterStep DEF IInv, TypeOK
<1>5. QED
  BY <1>1, <1>2, <1>3, <1>4 DEF ListCall

LEMMA ReturnStep ==
  ASSUME IInv, NEW t \in Thread, DriverRefuses(t) \/ DriverChangesList(t)
  PROVE  IInv'
<1>1. StageInv(t)
  BY DEF IInv, CallsInv
<1>2. Leave(t) /\ UNCHANGED is_open /\ recording' \in SUBSET Handle
  <2>1. CASE DriverRefuses(t)
    BY <1>1, <2>1 DEF DriverRefuses, Leave, StageInv, InDriver, layerVars, driverVars, IInv, TypeOK
  <2>2. CASE DriverChangesList(t)
    BY <1>1, <2>2 DEF DriverChangesList, Leave, StageInv, InDriver, layerVars, IInv, TypeOK
  <2>3. QED BY <2>1, <2>2
<1>3. QED
  BY <1>2, LeaveStep DEF IInv, TypeOK

LEMMA NextStep == IInv /\ [Next]_vars => IInv'
<1> SUFFICES ASSUME IInv, [Next]_vars PROVE IInv'
  OBVIOUS
<1>1. ASSUME NEW t \in Thread, zeContextCreate(t) PROVE IInv'
  <2>1. Enter(t, "create", "context", None, {}) /\ UNCHANGED <<is_open, recording>>
    BY <1>1 DEF zeContextCreate, Enter, Op, Kind, layerVars, driverVars
  <2>2. QED
    BY <2>1, EnterStep DEF IInv, TypeOK
<1>2. CASE UNCHANGED vars
  <2>1. UNCHANGED <<handleStateMap, is_open, dependentMap, object, recording, pc, call, made>>
    BY <1>2 DEF vars, layerVars, driverVars, callVars
  <2>2. QED
    BY <2>1
    DEF IInv, TypeOK, DriverObject!TypeOK, ValidWhileLive, DependentsAreChildren, ParentsInv,
        CallsInv, StageInv, Apart, InDriver, ParentOf, isHandleValid, TypeOfObject, Settled,
        Unknown, BeingDestroyed, Live, Children, DriverObject!Live, DriverObject!Children
<1>3. QED
  BY <1>1, <1>2, CreateCallStep, DestroyCallStep, ListCallStep, ReturnStep, DriverCreatesStep,
     RegisterStep, DriverDestroysStep DEF Next

-----------------------------------------------------------------------------
(* The theorems *)

LEMMA Inductive == Spec => []IInv
<1>1. Init => IInv
  BY HandleInit
<1>2. IInv /\ [Next]_vars => IInv'
  BY NextStep
<1>3. QED
  BY <1>1, <1>2, PTL DEF Spec

(* For any number of threads and handles: the layer's maps say of every      *)
(* handle what the driver's objects say, and no destroy reaches the driver   *)
(* while something made from the object is left.                             *)
THEOREM HandlesTracked ==
  Spec => [](TypeOK /\ ValidWhileLive /\ DependentsAreChildren /\ DestroysAreLegal)
<1>1. IInv => TypeOK /\ ValidWhileLive /\ DependentsAreChildren /\ DestroysAreLegal
  BY DEF IInv, CallsInv, StageInv, DestroysAreLegal
<1>2. QED
  BY <1>1, Inductive, PTL

LEMMA ObjectsStep == IInv /\ [Next]_vars => [DriverObject!Next]_object
<1> SUFFICES ASSUME IInv, Next, object' # object PROVE DriverObject!Next
  BY DEF vars, driverVars
<1>1. PICK t \in Thread : DriverCreates(t) \/ DriverDestroys(t)
  <2> USE DEF layerVars, driverVars
  <2>1. \A t \in Thread : ~zeContextCreate(t)
    BY DEF zeContextCreate
  <2>2. \A t \in Thread, h \in Handle : ~CreateCall(t, h)
    <3>1. \A t, kind, h, type : ~Make(t, kind, h, type)
      BY DEF Make
    <3>2. QED
      BY <3>1
      DEF CreateCall, zeCommandQueueCreate, zeCommandListCreate, zeCommandListCreateCloneExp,
          zeCommandListCreateImmediate, zeEventPoolCreate, zeEventCreate,
          zeEventCounterBasedCreate, zeFenceCreate, zeModuleCreate, zeKernelCreate,
          zeImageCreate, zeSamplerCreate, zePhysicalMemCreate
  <2>3. \A t \in Thread, h \in Handle : ~DestroyCall(t, h)
    <3>1. \A t, h, type : ~Destroy(t, h, type)
      BY DEF Destroy
    <3>2. QED
      BY <3>1
      DEF DestroyCall, zeContextDestroy, zeCommandQueueDestroy, zeCommandListDestroy,
          zeEventPoolDestroy, zeEventDestroy, zeFenceDestroy, zeModuleDestroy,
          zeModuleBuildLogDestroy, zeKernelDestroy, zeImageDestroy, zeSamplerDestroy
  <2>4. \A t \in Thread, h \in Handle : ~ListCall(t, h)
    BY DEF ListCall, zeCommandListClose, zeCommandListReset, zeCommandListAppendSignalEvent,
           zeCommandQueueExecuteCommandLists
  <2>5. \A t \in Thread : ~DriverRefuses(t) /\ ~Register(t) /\ ~DriverChangesList(t)
    BY DEF DriverRefuses, Register, DriverChangesList
  <2>6. QED
    BY <2>1, <2>2, <2>3, <2>4, <2>5 DEF Next
<1>2. CASE DriverDestroys(t)
  <2>1. LET h == call[t].handle IN h \in Handle /\ Live(h) /\ Children(h) = {}
    BY <1>2 DEF DriverDestroys, IInv, CallsInv, StageInv
  <2>2. QED
    BY <1>2, <2>1 DEF DriverDestroys, DriverObject!Next, DriverObject!Destroy, Live, Children
<1>3. CASE DriverCreates(t)
  <2> DEFINE c == call[t]
             parent == ParentOf(t)
  <2>1. PICK main \in Dead : \E log \in Logs(c, main) :
          object' = [h \in Handle |-> CASE h = main -> [kind |-> c.kind, parent |-> parent]
                                        [] h \in log -> [kind |-> "buildLog", parent |-> parent]
                                        [] OTHER -> object[h]]
    BY <1>3 DEF DriverCreates, ParentOf
  <2>2. PICK log \in Logs(c, main) :
          object' = [h \in Handle |-> CASE h = main -> [kind |-> c.kind, parent |-> parent]
                                        [] h \in log -> [kind |-> "buildLog", parent |-> parent]
                                        [] OTHER -> object[h]]
    BY <2>1
  <2> DEFINE new == {main} \cup log
             kinds == [h \in new |-> IF h = main THEN c.kind ELSE "buildLog"]
  <2>3. new \in (SUBSET Handle) \ {{}} /\ main \notin log /\ \A h \in new : ~Live(h)
    BY DEF Dead, Logs
  <2>4. parent \in Handle \cup {None} /\ (parent # None => Live(parent))
    <3>1. StageInv(t) /\ pc[t] = "driver" /\ c.op = "create" /\ c \in Call
      BY <1>3 DEF DriverCreates, InDriver, IInv, CallsInv, TypeOK
    <3>2. QED
      BY <3>1 DEF StageInv, ParentOf, Settled, Call
  <2>5. kinds \in [new -> Kind]
    BY DEF IInv, TypeOK, Call, Kind
  <2>6. object' = [h \in Handle |-> IF h \in new THEN [kind |-> kinds[h], parent |-> parent]
                                    ELSE object[h]]
    BY <2>2, <2>3
  <2>7. QED
    BY <2>3, <2>4, <2>5, <2>6 DEF DriverObject!Next, DriverObject!Create, Live
<1>4. QED
  BY <1>1, <1>2, <1>3

(* Whatever the application passes, and however its calls overlap within     *)
(* what the API allows, the driver sees only creates from objects that are   *)
(* there and destroys of objects from which nothing is left.                 *)
THEOREM DriverIsProtected == Spec => ImplementsDriverObjects
<1>1. Init => DriverObject!Init
  BY DEF Init, DriverObject!Init
<1>2. IInv /\ [Next]_vars => [DriverObject!Next]_object
  BY ObjectsStep
<1>3. QED
  BY <1>1, <1>2, Inductive, PTL DEF Spec, ImplementsDriverObjects, DriverObject!Spec

-----------------------------------------------------------------------------
(* Command lists *)

\* Two calls use the same object only if both make something from it.
Exclusive ==
  \A t, u \in Thread : t # u /\ pc[t] # "idle" /\ pc[u] # "idle" =>
    \/ Used(call[t]) \cap Used(call[u]) = {}
    \/ call[t].op = "create" /\ call[u].op = "create"

ListOps == {"close", "reset", "append", "execute"}

\* What a call on a command list uses stays settled.
UsesSettled ==
  \A t \in Thread : pc[t] = "driver" /\ call[t].op \in ListOps =>
    \A x \in Used(call[t]) : Settled(x)

\* A list that is made takes commands.
MadeRecording ==
  \A t \in Thread : \A h \in made[t] : object[h].kind = "list" =>
    call[t].kind = "list" /\ h \in recording

\* The driver is about to close or to reset it.
Changing(h) == \E t \in Thread : (InDriver(t, "close") \/ InDriver(t, "reset")) /\ call[t].handle = h

\* The layer and the driver agree on the lists that take commands.
OpenIsRecording ==
  \A h \in Handle : Settled(h) /\ object[h].kind = "list" /\ ~Changing(h) =>
    (h \in is_open <=> h \in recording)

\* The layer is ahead of the driver.
Ahead ==
  \A t \in Thread : /\ InDriver(t, "close") => call[t].handle \notin is_open
                    /\ InDriver(t, "reset") => call[t].handle \in is_open

ListInv == Exclusive /\ UsesSettled /\ MadeRecording /\ OpenIsRecording /\ Ahead /\ ListCallsAreLegal

LEMMA ListInit == Init => ListInv
BY DEF Init, ListInv, Exclusive, UsesSettled, MadeRecording, OpenIsRecording, Ahead,
       ListCallsAreLegal, InDriver, Settled, Live, DriverObject!Live

\* A call that makes something, or a call on a list, enters the driver.
LEMMA ListEnter ==
  ASSUME IInv, ListInv,
         NEW t \in Thread, NEW op, NEW kind, NEW h, NEW others, Enter(t, op, kind, h, others),
         recording' = recording,
         op \in ListOps => h \in Handle /\ \A x \in {h} \cup others : Settled(x),
         CASE op = "close" -> is_open' = is_open \ {h}
           [] op = "reset" -> is_open' = is_open \cup {h}
           [] OTHER -> is_open' = is_open,
         op = "append" => h \in is_open,
         op = "execute" => \A l \in others : l \notin is_open
  PROVE  ListInv'
<1> DEFINE c == [op |-> op, kind |-> kind, handle |-> h, others |-> others]
<1>1. /\ pc[t] = "idle" /\ pc' = [pc EXCEPT ![t] = "driver"] /\ call' = [call EXCEPT ![t] = c]
      /\ UNCHANGED <<made, object>> /\ Undisturbed(t, c)
      /\ op \in Op \ {"destroy"} /\ h \in Handle \cup {None} /\ others \in SUBSET Handle
  BY DEF Enter, ToDriver
<1>2. \A u \in Thread : u # t => call'[u] = call[u] /\ pc'[u] = pc[u]
  BY <1>1 DEF IInv, TypeOK
<1>3. call'[t] = c /\ pc'[t] = "driver"
  BY <1>1 DEF IInv, TypeOK
<1>4. \A x : Settled(x)' <=> Settled(x)
  <2>1. \A u \in Thread : InDriver(u, "destroy")' <=> InDriver(u, "destroy")
    BY <1>1, <1>2, <1>3 DEF InDriver
  <2>2. \A u \in Thread : InDriver(u, "destroy") => call'[u].handle = call[u].handle
    BY <1>1, <1>2 DEF InDriver
  <2>. QED  BY <1>1, <2>1, <2>2, SettledFrame
<1>5. made[t] = {}
  BY <1>1 DEF IInv, CallsInv, StageInv
<1>6. \A u \in Thread : u # t /\ pc[u] # "idle" =>
        \/ Used(c) \cap Used(call[u]) = {}
        \/ op = "create" /\ call[u].op = "create"
  BY <1>1 DEF Undisturbed
<1>7. \A u \in Thread : InDriver(u, "close") \/ InDriver(u, "reset") =>
        u # t /\ call[u].handle \in Handle /\ call[u].handle \in Used(call[u])
  BY <1>1, NoneAssumption DEF IInv, CallsInv, StageInv, InDriver, Used
<1>8. op \in ListOps => h \in Used(c) /\ others \subseteq Used(c)
  BY NoneAssumption DEF Used
<1>9. \A x \in Used(c) : op \in ListOps => ~Changing(x)
  BY <1>6, <1>7 DEF Changing, InDriver, ListOps
<1>10. \A x : Changing(x)' <=> Changing(x) \/ (op \in {"close", "reset"} /\ x = h)
  BY <1>1, <1>2, <1>3 DEF Changing, InDriver
<1>11. Exclusive'
  <2> SUFFICES ASSUME NEW u \in Thread, NEW v \in Thread, u # v, pc'[u] # "idle", pc'[v] # "idle"
               PROVE  \/ Used(call'[u]) \cap Used(call'[v]) = {}
                      \/ call'[u].op = "create" /\ call'[v].op = "create"
    BY DEF Exclusive, Used
  <2>1. CASE u = t
    BY <1>2, <1>3, <1>6, <2>1
  <2>2. CASE v = t
    BY <1>2, <1>3, <1>6, <2>2
  <2>3. CASE u # t /\ v # t
    BY <1>2, <2>3 DEF ListInv, Exclusive
  <2>. QED  BY <2>1, <2>2, <2>3
<1>12. UsesSettled'
  <2> SUFFICES ASSUME NEW u \in Thread, pc'[u] = "driver", call'[u].op \in ListOps,
                      NEW x \in Used(call'[u])
               PROVE  Settled(x)
    BY <1>4 DEF UsesSettled, Used
  <2>1. CASE u = t
    BY <1>3, <2>1 DEF Used
  <2>2. CASE u # t
    BY <1>2, <2>2 DEF ListInv, UsesSettled
  <2>. QED  BY <2>1, <2>2
<1>13. MadeRecording'
  <2> SUFFICES ASSUME NEW u \in Thread, NEW x \in made[u], object[x].kind = "list"
               PROVE  call'[u].kind = "list" /\ x \in recording
    BY <1>1 DEF MadeRecording
  <2>1. u # t
    BY <1>5
  <2>. QED  BY <1>2, <2>1 DEF ListInv, MadeRecording
<1>14. OpenIsRecording'
  <2> SUFFICES ASSUME NEW x \in Handle, Settled(x)', object'[x].kind = "list", ~Changing(x)'
               PROVE  x \in is_open' <=> x \in recording'
    BY DEF OpenIsRecording
  <2>1. Settled(x) /\ ~Changing(x) /\ (op \in {"close", "reset"} => x # h)
    BY <1>4, <1>10
  <2>2. x \in is_open' <=> x \in is_open
    BY <2>1
  <2>. QED  BY <1>1, <2>1, <2>2 DEF ListInv, OpenIsRecording
<1>15. Ahead'
  <2> SUFFICES ASSUME NEW u \in Thread
               PROVE  /\ InDriver(u, "close")' => call'[u].handle \notin is_open'
                      /\ InDriver(u, "reset")' => call'[u].handle \in is_open'
    BY DEF Ahead
  <2>1. CASE u = t
    BY <1>3, <2>1 DEF InDriver
  <2>2. CASE u # t
    <3>1. InDriver(u, "close") \/ InDriver(u, "reset") => call[u].handle # h \/ op \notin ListOps
      BY <1>6, <1>7, <1>8 DEF InDriver, ListOps
    <3>. QED  BY <1>2, <2>2, <3>1 DEF ListInv, Ahead, InDriver, ListOps
  <2>. QED  BY <2>1, <2>2
<1>16. ListCallsAreLegal'
  <2> SUFFICES ASSUME NEW u \in Thread
               PROVE  /\ InDriver(u, "append")' /\ object'[call'[u].handle].kind = "list"
                           => call'[u].handle \in recording'
                      /\ InDriver(u, "execute")' =>
                           \A l \in call'[u].others : object'[l].kind # "list" \/ l \notin recording'
    BY DEF ListCallsAreLegal
  <2>1. CASE u # t
    BY <1>1, <1>2, <2>1 DEF ListInv, ListCallsAreLegal, InDriver
  <2>2. CASE u = t
    <3>1. op \in ListOps => \A x \in {h} \cup others :
            x \in Handle /\ object[x].kind = "list" => (x \in is_open <=> x \in recording)
      BY <1>8, <1>9 DEF ListInv, OpenIsRecording
    <3>. QED  BY <1>1, <1>3, <2>2, <3>1 DEF InDriver, ListOps
  <2>. QED  BY <2>1, <2>2
<1>. QED  BY <1>11, <1>12, <1>13, <1>14, <1>15, <1>16 DEF ListInv

\* A call that has changed no map of handles returns; the driver may have changed the list.
LEMMA ListReturn ==
  ASSUME IInv, ListInv, NEW t \in Thread, DriverRefuses(t) \/ DriverChangesList(t)
  PROVE  ListInv'
<1> DEFINE h == call[t].handle
<1>1. /\ pc[t] = "driver" /\ call[t].op \in {"create"} \cup ListOps
      /\ pc' = [pc EXCEPT ![t] = "idle"] /\ call' = [call EXCEPT ![t] = NoCall]
      /\ made' = [made EXCEPT ![t] = {}] /\ UNCHANGED <<object, is_open>>
  BY DEF DriverRefuses, DriverChangesList, InDriver, Return, layerVars, driverVars, ListOps
<1>2. /\ recording' = CASE InDriver(t, "close") -> recording \ {h}
                        [] InDriver(t, "reset") -> recording \cup {h}
                        [] OTHER -> recording
  BY DEF DriverRefuses, DriverChangesList, InDriver, driverVars
<1>3. pc'[t] = "idle" /\ \A u \in Thread : u # t => pc'[u] = pc[u] /\ call'[u] = call[u]
  BY <1>1 DEF IInv, TypeOK
<1>4. made' = made
  BY <1>1 DEF IInv, TypeOK, CallsInv, StageInv
<1>5. \A x : Settled(x)' <=> Settled(x)
  <2>1. \A u \in Thread : InDriver(u, "destroy")' <=> InDriver(u, "destroy")
    BY <1>1, <1>3 DEF InDriver, ListOps
  <2>2. \A u \in Thread : InDriver(u, "destroy") => call'[u].handle = call[u].handle
    BY <1>1, <1>3 DEF InDriver, ListOps
  <2>. QED  BY <1>1, <1>4, <2>1, <2>2, SettledFrame
<1>6. \A x : ~Changing(x)' => ~Changing(x) \/ (x = h /\ (InDriver(t, "close") \/ InDriver(t, "reset")))
  BY <1>3 DEF Changing, InDriver
<1>7. InDriver(t, "close") \/ InDriver(t, "reset") => h \in Handle /\ h \in Used(call[t]) /\ Settled(h)
  BY NoneAssumption DEF IInv, CallsInv, StageInv, InDriver, Used, ListInv, UsesSettled, ListOps
<1>8. Exclusive'
  <2> SUFFICES ASSUME NEW u \in Thread, NEW v \in Thread, u # v, pc'[u] # "idle", pc'[v] # "idle"
               PROVE  \/ Used(call'[u]) \cap Used(call'[v]) = {}
                      \/ call'[u].op = "create" /\ call'[v].op = "create"
    BY DEF Exclusive, Used
  <2>. QED  BY <1>3 DEF ListInv, Exclusive
<1>9. UsesSettled'
  <2> SUFFICES ASSUME NEW u \in Thread, pc'[u] = "driver", call'[u].op \in ListOps,
                      NEW x \in Used(call'[u])
               PROVE  Settled(x)
    BY <1>5 DEF UsesSettled, Used
  <2>. QED  BY <1>3 DEF ListInv, UsesSettled
<1>10. MadeRecording'
  <2> SUFFICES ASSUME NEW u \in Thread, NEW x \in made[u], object[x].kind = "list"
               PROVE  call'[u].kind = "list" /\ x \in recording'
    BY <1>1, <1>4 DEF MadeRecording
  <2>1. u # t
    BY <1>1 DEF IInv, CallsInv, StageInv
  <2>2. InDriver(t, "close") => x # h
    BY <1>7, SettledMeans
  <2>. QED  BY <1>2, <1>3, <2>1, <2>2 DEF ListInv, MadeRecording, InDriver
<1>11. OpenIsRecording'
  <2> SUFFICES ASSUME NEW x \in Handle, Settled(x)', object'[x].kind = "list", ~Changing(x)'
               PROVE  x \in is_open' <=> x \in recording'
    BY DEF OpenIsRecording
  <2>1. CASE x = h /\ (InDriver(t, "close") \/ InDriver(t, "reset"))
    BY <1>1, <1>2, <2>1 DEF ListInv, Ahead, InDriver
  <2>2. CASE ~(x = h /\ (InDriver(t, "close") \/ InDriver(t, "reset")))
    <3>1. x \in is_open <=> x \in recording
      BY <1>1, <1>5, <1>6, <2>2 DEF ListInv, OpenIsRecording
    <3>. QED  BY <1>1, <1>2, <2>2, <3>1 DEF InDriver
  <2>. QED  BY <2>1, <2>2
<1>12. Ahead'
  BY <1>1, <1>3 DEF ListInv, Ahead, InDriver
<1>13. ListCallsAreLegal'
  <2> SUFFICES ASSUME NEW u \in Thread, u # t
               PROVE  /\ InDriver(u, "append") /\ object[call[u].handle].kind = "list"
                           => call[u].handle \in recording'
                      /\ InDriver(u, "execute") =>
                           \A l \in call[u].others : object[l].kind # "list" \/ l \notin recording'
    BY <1>1, <1>3 DEF ListCallsAreLegal, InDriver
  <2>1. InDriver(t, "close") \/ InDriver(t, "reset") =>
          (InDriver(u, "append") \/ InDriver(u, "execute") => h \notin Used(call[u]))
    BY <1>7 DEF ListInv, Exclusive, InDriver
  <2>2. InDriver(u, "append") => call[u].handle \in Used(call[u])
    BY NoneAssumption DEF IInv, CallsInv, StageInv, InDriver, Used
  <2>3. call[u].others \subseteq Used(call[u])
    BY DEF Used
  <2>. QED  BY <1>2, <2>1, <2>2, <2>3 DEF ListInv, ListCallsAreLegal, InDriver
<1>. QED  BY <1>8, <1>9, <1>10, <1>11, <1>12, <1>13 DEF ListInv

\* The driver makes something.
LEMMA ListDriverCreates ==
  ASSUME IInv, ListInv, NEW t \in Thread, DriverCreates(t)
  PROVE  ListInv'
<1> DEFINE c == call[t]
           Makes(main, log) ==
             /\ object' = [h \in Handle |->
                  CASE h = main -> [kind |-> c.kind, parent |-> ParentOf(t)]
                    [] h \in log -> [kind |-> "buildLog", parent |-> ParentOf(t)]
                    [] OTHER -> object[h]]
             /\ made' = [made EXCEPT ![t] = {main} \cup log]
             /\ recording' = IF c.kind \in {"list", "immediate"} THEN recording \cup {main}
                             ELSE recording
<1>0. PICK main \in Dead : \E log \in Logs(c, main) : Makes(main, log)
  BY DEF DriverCreates, ParentOf
<1>1. PICK log \in Logs(c, main) : Makes(main, log)
  BY <1>0
<1>2. /\ InDriver(t, "create") /\ pc' = [pc EXCEPT ![t] = "register"]
      /\ UNCHANGED <<handleStateMap, is_open, dependentMap, call>>
  BY DEF DriverCreates, layerVars
<1>3. main \in Handle /\ log \subseteq Handle /\ \A h \in {main} \cup log : h \in Handle /\ ~Live(h)
  BY <1>1 DEF Dead, Logs
<1>4. pc'[t] = "register" /\ (\A u \in Thread : u # t => pc'[u] = pc[u] /\ made'[u] = made[u])
  BY <1>1, <1>2 DEF IInv, TypeOK
<1>5. made'[t] = {main} \cup log /\ made[t] = {}
  BY <1>1, <1>2 DEF IInv, TypeOK, CallsInv, StageInv, InDriver
<1>6. \A x \in Handle : Live(x) => x \notin {main} \cup log /\ object'[x] = object[x]
  BY <1>1, <1>3
<1>7. \A x \in Handle : Settled(x)' <=> Settled(x)
  <2>1. \A u \in Thread : InDriver(u, "destroy")' <=> InDriver(u, "destroy")
    BY <1>2, <1>4 DEF InDriver
  <2>2. ASSUME NEW x \in Handle
        PROVE  /\ Settled(x)' <=> /\ object'[x] # None
                                  /\ \A u \in Thread : x \notin made'[u]
                                  /\ \A u \in Thread : InDriver(u, "destroy")' => call'[u].handle # x
    BY DEF Settled, Unknown, BeingDestroyed, Live, DriverObject!Live
  <2>3. ASSUME NEW x \in Handle
        PROVE  Settled(x)' <=> Settled(x)
    <3>1. CASE Live(x)
      BY <1>2, <1>4, <1>5, <1>6, <2>1, <2>2, <3>1, SettledMeans DEF Live, DriverObject!Live
    <3>2. CASE ~Live(x)
      <4>1. ~Settled(x)
        BY <3>2 DEF Settled
      <4>2. CASE x \in {main} \cup log
        BY <1>5, <2>2, <4>1, <4>2
      <4>3. CASE x \notin {main} \cup log
        BY <1>1, <2>2, <3>2, <4>1, <4>3 DEF Live, DriverObject!Live
      <4>. QED  BY <4>2, <4>3
    <3>. QED  BY <3>1, <3>2
  <2>. QED  BY <2>3
<1>8. \A x : Settled(x) /\ x \in Handle => x # main /\ object'[x] = object[x]
  BY <1>6 DEF Settled
<1>9. \A x : Changing(x)' <=> Changing(x)
  BY <1>2, <1>4 DEF Changing, InDriver
<1>10. Exclusive'
  <2> SUFFICES ASSUME NEW u \in Thread, NEW v \in Thread, u # v, pc'[u] # "idle", pc'[v] # "idle"
               PROVE  \/ Used(call[u]) \cap Used(call[v]) = {}
                      \/ call[u].op = "create" /\ call[v].op = "create"
    BY <1>2 DEF Exclusive, Used
  <2>. QED  BY <1>2, <1>4 DEF ListInv, Exclusive, InDriver
<1>11. \A u \in Thread : Used(call[u]) \subseteq Handle
  BY DEF IInv, TypeOK, Call, Used
<1>12. UsesSettled'
  <2> SUFFICES ASSUME NEW u \in Thread, pc'[u] = "driver", call[u].op \in ListOps,
                      NEW x \in Used(call[u])
               PROVE  Settled(x)
    BY <1>2, <1>7, <1>11 DEF UsesSettled, Used
  <2>. QED  BY <1>4 DEF ListInv, UsesSettled
<1>13. MadeRecording'
  <2> SUFFICES ASSUME NEW u \in Thread, NEW x \in made'[u], object'[x].kind = "list"
               PROVE  call[u].kind = "list" /\ x \in recording'
    BY <1>2 DEF MadeRecording
  <2>1. CASE u = t
    <3>1. x \in {main} \cup log /\ x \in Handle
      BY <1>3, <1>5, <2>1
    <3>2. x = main
      <4>1. x # main => object'[x].kind = "buildLog"
        BY <1>1, <3>1
      <4>. QED  BY <4>1
    <3>3. object'[x].kind = c.kind
      BY <1>1, <3>1, <3>2
    <3>. QED  BY <1>1, <2>1, <3>2, <3>3
  <2>2. CASE u # t
    <3>1. x \in made[u] /\ x \in Handle /\ Live(x)
      BY <1>4, <2>2 DEF IInv, TypeOK, CallsInv, StageInv
    <3>. QED  BY <1>1, <1>6, <3>1 DEF ListInv, MadeRecording
  <2>. QED  BY <2>1, <2>2
<1>14. OpenIsRecording'
  <2> SUFFICES ASSUME NEW x \in Handle, Settled(x)', object'[x].kind = "list", ~Changing(x)'
               PROVE  x \in is_open' <=> x \in recording'
    BY DEF OpenIsRecording
  <2>1. Settled(x) /\ ~Changing(x) /\ x # main /\ object[x].kind = "list"
    BY <1>7, <1>8, <1>9
  <2>. QED  BY <1>1, <1>2, <2>1 DEF ListInv, OpenIsRecording
<1>15. Ahead'
  BY <1>2, <1>4 DEF ListInv, Ahead, InDriver
<1>16. ListCallsAreLegal'
  <2> SUFFICES ASSUME NEW u \in Thread, u # t
               PROVE  /\ InDriver(u, "append") /\ object'[call[u].handle].kind = "list"
                           => call[u].handle \in recording'
                      /\ InDriver(u, "execute") =>
                           \A l \in call[u].others : object'[l].kind # "list" \/ l \notin recording'
    BY <1>2, <1>4 DEF ListCallsAreLegal, InDriver
  <2>1. InDriver(u, "append") \/ InDriver(u, "execute") =>
          \A x \in Used(call[u]) : object'[x] = object[x] /\ x # main
    BY <1>8, <1>11 DEF ListInv, UsesSettled, InDriver, ListOps
  <2>2. InDriver(u, "append") => call[u].handle \in Used(call[u])
    BY NoneAssumption DEF IInv, CallsInv, StageInv, InDriver, Used
  <2>3. call[u].others \subseteq Used(call[u])
    BY DEF Used
  <2>. QED  BY <1>1, <2>1, <2>2, <2>3 DEF ListInv, ListCallsAreLegal
<1>. QED  BY <1>10, <1>12, <1>13, <1>14, <1>15, <1>16 DEF ListInv

\* What was made is registered: a list that takes commands as open.
LEMMA ListRegister ==
  ASSUME IInv, ListInv, NEW t \in Thread, Register(t)
  PROVE  ListInv'
<1> DEFINE c == call[t]
<1>1. /\ pc[t] = "register" /\ c.op = "create"
      /\ is_open' = IF c.kind \in {"list", "clone"} THEN is_open \cup made[t] ELSE is_open
      /\ pc' = [pc EXCEPT ![t] = "idle"] /\ call' = [call EXCEPT ![t] = NoCall]
      /\ made' = [made EXCEPT ![t] = {}] /\ UNCHANGED <<object, recording>>
  BY DEF Register, Return, driverVars, IInv, CallsInv, StageInv
<1>2. /\ pc'[t] = "idle" /\ made'[t] = {}
      /\ \A u \in Thread : u # t => pc'[u] = pc[u] /\ call'[u] = call[u] /\ made'[u] = made[u]
  BY <1>1 DEF IInv, TypeOK
<1>3. \A u \in Thread : InDriver(u, "destroy")' <=> InDriver(u, "destroy")
  BY <1>1, <1>2 DEF InDriver
<1>4. ASSUME NEW x
      PROVE  Settled(x)' <=> /\ object[x] # None
                             /\ \A u \in Thread : x \notin made'[u]
                             /\ \A u \in Thread : InDriver(u, "destroy")' => call'[u].handle # x
  BY <1>1 DEF Settled, Unknown, BeingDestroyed, Live, DriverObject!Live
<1>5. \A x : Settled(x) => Settled(x)' /\ x \notin made[t]
  BY <1>1, <1>2, <1>3, <1>4, SettledMeans DEF InDriver
<1>6. \A x : Settled(x)' => Settled(x) \/ x \in made[t]
  BY <1>1, <1>2, <1>3, <1>4, SettledMeans DEF InDriver
<1>7. \A x : Changing(x)' <=> Changing(x)
  BY <1>1, <1>2 DEF Changing, InDriver
<1>8. Exclusive'
  <2> SUFFICES ASSUME NEW u \in Thread, NEW v \in Thread, u # v, pc'[u] # "idle", pc'[v] # "idle"
               PROVE  \/ Used(call'[u]) \cap Used(call'[v]) = {}
                      \/ call'[u].op = "create" /\ call'[v].op = "create"
    BY DEF Exclusive, Used
  <2>. QED  BY <1>2 DEF ListInv, Exclusive
<1>9. UsesSettled'
  <2> SUFFICES ASSUME NEW u \in Thread, pc'[u] = "driver", call'[u].op \in ListOps,
                      NEW x \in Used(call'[u])
               PROVE  Settled(x)'
    BY DEF UsesSettled, Used
  <2>. QED  BY <1>2, <1>5 DEF ListInv, UsesSettled
<1>10. MadeRecording'
  <2> SUFFICES ASSUME NEW u \in Thread, NEW x \in made'[u], object[x].kind = "list"
               PROVE  call'[u].kind = "list" /\ x \in recording
    BY <1>1 DEF MadeRecording
  <2>. QED  BY <1>2 DEF ListInv, MadeRecording
<1>11. OpenIsRecording'
  <2> SUFFICES ASSUME NEW x \in Handle, Settled(x)', object[x].kind = "list", ~Changing(x)'
               PROVE  x \in is_open' <=> x \in recording
    BY <1>1 DEF OpenIsRecording
  <2>1. CASE Settled(x)
    BY <1>1, <1>5, <1>7, <2>1 DEF ListInv, OpenIsRecording
  <2>2. CASE x \in made[t]
    BY <1>1, <2>2 DEF ListInv, MadeRecording
  <2>. QED  BY <1>6, <2>1, <2>2
<1>12. Ahead'
  <2>1. \A u \in Thread : InDriver(u, "close") => call[u].handle \notin made[t]
    BY <1>5, NoneAssumption
    DEF ListInv, UsesSettled, ListOps, InDriver, Used, IInv, CallsInv, StageInv
  <2>. QED  BY <1>1, <1>2, <2>1 DEF ListInv, Ahead, InDriver
<1>13. ListCallsAreLegal'
  BY <1>1, <1>2 DEF ListInv, ListCallsAreLegal, InDriver
<1>. QED  BY <1>8, <1>9, <1>10, <1>11, <1>12, <1>13 DEF ListInv

\* A destroy forgets the list before the driver is called.
LEMMA ListDestroy ==
  ASSUME IInv, ListInv, NEW t \in Thread, NEW h \in Handle, NEW type \in Type, Destroy(t, h, type)
  PROVE  ListInv'
<1> DEFINE c == [op |-> "destroy", kind |-> type, handle |-> h, others |-> {}]
<1>1. /\ pc[t] = "idle" /\ pc' = [pc EXCEPT ![t] = "driver"] /\ call' = [call EXCEPT ![t] = c]
      /\ is_open' = is_open \ {h}
      /\ UNCHANGED <<made, object, recording>> /\ Undisturbed(t, c)
  BY DEF Destroy, ToDriver, driverVars
<1>2. /\ call'[t] = c /\ pc'[t] = "driver"
      /\ \A u \in Thread : u # t => call'[u] = call[u] /\ pc'[u] = pc[u]
  BY <1>1 DEF IInv, TypeOK
<1>3. \A x : Settled(x)' <=> Settled(x) /\ x # h
  <2>1. ASSUME NEW x
        PROVE  Settled(x)' <=> /\ object[x] # None
                               /\ \A u \in Thread : x \notin made[u]
                               /\ \A u \in Thread : InDriver(u, "destroy")' => call'[u].handle # x
    BY <1>1 DEF Settled, Unknown, BeingDestroyed, Live, DriverObject!Live
  <2>. QED  BY <1>1, <1>2, <2>1, SettledMeans DEF InDriver
<1>4. \A u \in Thread : u # t /\ pc[u] # "idle" => Used(c) \cap Used(call[u]) = {}
  BY <1>1 DEF Undisturbed
<1>5. h \in Used(c)
  BY NoneAssumption DEF Used
<1>6. \A x : Changing(x)' <=> Changing(x)
  BY <1>1, <1>2 DEF Changing, InDriver
<1>7. made[t] = {}
  BY <1>1 DEF IInv, CallsInv, StageInv
<1>8. Exclusive'
  <2> SUFFICES ASSUME NEW u \in Thread, NEW v \in Thread, u # v, pc'[u] # "idle", pc'[v] # "idle"
               PROVE  \/ Used(call'[u]) \cap Used(call'[v]) = {}
                      \/ call'[u].op = "create" /\ call'[v].op = "create"
    BY DEF Exclusive, Used
  <2>1. CASE u = t
    BY <1>2, <1>4, <2>1
  <2>2. CASE v = t
    BY <1>2, <1>4, <2>2
  <2>3. CASE u # t /\ v # t
    BY <1>2, <2>3 DEF ListInv, Exclusive
  <2>. QED  BY <2>1, <2>2, <2>3
<1>9. UsesSettled'
  <2> SUFFICES ASSUME NEW u \in Thread, pc'[u] = "driver", call'[u].op \in ListOps,
                      NEW x \in Used(call'[u])
               PROVE  Settled(x)'
    BY DEF UsesSettled, Used
  <2>1. u # t
    BY <1>2 DEF ListOps
  <2>2. Settled(x)
    BY <1>2, <2>1 DEF ListInv, UsesSettled
  <2>. QED  BY <1>2, <1>3, <1>4, <1>5, <2>1, <2>2
<1>10. MadeRecording'
  <2> SUFFICES ASSUME NEW u \in Thread, NEW x \in made[u], object[x].kind = "list"
               PROVE  call'[u].kind = "list" /\ x \in recording
    BY <1>1 DEF MadeRecording
  <2>. QED  BY <1>2, <1>7 DEF ListInv, MadeRecording
<1>11. OpenIsRecording'
  <2> SUFFICES ASSUME NEW x \in Handle, Settled(x)', object[x].kind = "list", ~Changing(x)'
               PROVE  x \in is_open' <=> x \in recording
    BY <1>1 DEF OpenIsRecording
  <2>. QED  BY <1>1, <1>3, <1>6 DEF ListInv, OpenIsRecording
<1>12. Ahead'
  <2>1. \A u \in Thread : InDriver(u, "reset") => call[u].handle \in Used(call[u])
    BY NoneAssumption DEF IInv, CallsInv, StageInv, InDriver, Used
  <2>2. \A u \in Thread : u # t /\ InDriver(u, "reset") => call[u].handle # h
    BY <1>4, <1>5, <2>1 DEF InDriver
  <2>. QED  BY <1>1, <1>2, <2>2 DEF ListInv, Ahead, InDriver
<1>13. ListCallsAreLegal'
  BY <1>1, <1>2 DEF ListInv, ListCallsAreLegal, InDriver
<1>. QED  BY <1>8, <1>9, <1>10, <1>11, <1>12, <1>13 DEF ListInv

\* The driver destroys it.
LEMMA ListDriverDestroys ==
  ASSUME IInv, ListInv, NEW t \in Thread, DriverDestroys(t)
  PROVE  ListInv'
<1> DEFINE h == call[t].handle
<1>1. /\ InDriver(t, "destroy")
      /\ object' = [object EXCEPT ![h] = None] /\ recording' = recording \ {h}
      /\ pc' = [pc EXCEPT ![t] = "idle"] /\ call' = [call EXCEPT ![t] = NoCall]
      /\ made' = [made EXCEPT ![t] = {}] /\ UNCHANGED is_open
  BY DEF DriverDestroys, Return, layerVars
<1>2. /\ pc'[t] = "idle" /\ made' = made /\ h \in Handle /\ pc[t] # "idle"
      /\ \A u \in Thread : u # t => pc'[u] = pc[u] /\ call'[u] = call[u]
  BY <1>1 DEF IInv, TypeOK, CallsInv, StageInv, InDriver
<1>3. object'[h] = None /\ \A x \in Handle : x # h => object'[x] = object[x]
  BY <1>1, <1>2 DEF IInv, TypeOK, DriverObject!TypeOK
<1>4. \A x \in Handle : Settled(x)' <=> Settled(x)
  <2>1. ASSUME NEW x \in Handle
        PROVE  Settled(x)' <=> /\ object'[x] # None
                               /\ \A u \in Thread : x \notin made[u]
                               /\ \A u \in Thread : InDriver(u, "destroy")' => call'[u].handle # x
    BY <1>2 DEF Settled, Unknown, BeingDestroyed, Live, DriverObject!Live
  <2>. QED  BY <1>1, <1>2, <1>3, <2>1, SettledMeans DEF InDriver
<1>5. \A x : Settled(x) => x # h
  BY <1>1, SettledMeans
<1>6. \A x : Changing(x)' <=> Changing(x)
  BY <1>1, <1>2 DEF Changing, InDriver
<1>7. \A u \in Thread : Used(call[u]) \subseteq Handle
  BY DEF IInv, TypeOK, Call, Used
<1>8. \A u \in Thread : h \notin made[u]
  <2>1. ASSUME NEW u \in Thread, h \in made[u] PROVE FALSE
    <3>1. u # t
      BY <1>1, <2>1 DEF IInv, CallsInv, StageInv, InDriver
    <3>2. pc[u] # "idle"
      BY <2>1 DEF IInv, CallsInv, StageInv
    <3>. QED  BY <1>1, <2>1, <3>1, <3>2 DEF IInv, CallsInv, Apart
  <2>. QED  BY <2>1
<1>9. Exclusive'
  <2> SUFFICES ASSUME NEW u \in Thread, NEW v \in Thread, u # v, pc'[u] # "idle", pc'[v] # "idle"
               PROVE  \/ Used(call'[u]) \cap Used(call'[v]) = {}
                      \/ call'[u].op = "create" /\ call'[v].op = "create"
    BY DEF Exclusive, Used
  <2>. QED  BY <1>2 DEF ListInv, Exclusive
<1>10. UsesSettled'
  <2> SUFFICES ASSUME NEW u \in Thread, pc'[u] = "driver", call'[u].op \in ListOps,
                      NEW x \in Used(call'[u])
               PROVE  Settled(x)'
    BY DEF UsesSettled, Used
  <2>. QED  BY <1>2, <1>4, <1>7 DEF ListInv, UsesSettled
<1>11. MadeRecording'
  <2> SUFFICES ASSUME NEW u \in Thread, NEW x \in made[u], object'[x].kind = "list"
               PROVE  call'[u].kind = "list" /\ x \in recording'
    BY <1>2 DEF MadeRecording
  <2>1. x \in Handle /\ u # t
    BY <1>1 DEF IInv, TypeOK, CallsInv, StageInv, InDriver
  <2>. QED  BY <1>1, <1>2, <1>3, <1>8, <2>1 DEF ListInv, MadeRecording
<1>12. OpenIsRecording'
  <2> SUFFICES ASSUME NEW x \in Handle, Settled(x)', object'[x].kind = "list", ~Changing(x)'
               PROVE  x \in is_open' <=> x \in recording'
    BY DEF OpenIsRecording
  <2>. QED  BY <1>1, <1>3, <1>4, <1>5, <1>6 DEF ListInv, OpenIsRecording
<1>13. Ahead'
  BY <1>1, <1>2 DEF ListInv, Ahead, InDriver
<1>14. ListCallsAreLegal'
  <2> SUFFICES ASSUME NEW u \in Thread, u # t
               PROVE  /\ InDriver(u, "append") /\ object'[call[u].handle].kind = "list"
                           => call[u].handle \in recording'
                      /\ InDriver(u, "execute") =>
                           \A l \in call[u].others : object'[l].kind # "list" \/ l \notin recording'
    BY <1>2 DEF ListCallsAreLegal, InDriver
  <2>1. InDriver(u, "append") \/ InDriver(u, "execute") =>
          \A x \in Used(call[u]) : object'[x] = object[x] /\ x # h
    BY <1>3, <1>5, <1>7 DEF ListInv, UsesSettled, InDriver, ListOps
  <2>2. InDriver(u, "append") => call[u].handle \in Used(call[u])
    BY NoneAssumption DEF IInv, CallsInv, StageInv, InDriver, Used
  <2>3. call[u].others \subseteq Used(call[u])
    BY DEF Used
  <2>. QED  BY <1>1, <2>1, <2>2, <2>3 DEF ListInv, ListCallsAreLegal
<1>. QED  BY <1>9, <1>10, <1>11, <1>12, <1>13, <1>14 DEF ListInv

LEMMA ListStep == IInv /\ ListInv /\ [Next]_vars => ListInv'
<1> SUFFICES ASSUME IInv, ListInv, [Next]_vars PROVE ListInv'
  OBVIOUS
<1> USE DEF Enter, Op, Kind, ListOps, layerVars, driverVars
<1>1. ASSUME NEW t \in Thread, zeContextCreate(t) PROVE ListInv'
  <2>1. Enter(t, "create", "context", None, {}) /\ UNCHANGED <<is_open, recording>>
    BY <1>1 DEF zeContextCreate
  <2>. QED  BY <2>1, ListEnter
<1>2. ASSUME NEW t \in Thread, NEW h \in Handle, CreateCall(t, h) PROVE ListInv'
  <2>1. PICK kind \in Kind, type \in Type : Make(t, kind, h, type)
    BY <1>2
    DEF CreateCall, Type, zeCommandQueueCreate, zeCommandListCreate,
        zeCommandListCreateCloneExp, zeCommandListCreateImmediate, zeEventPoolCreate,
        zeEventCreate, zeEventCounterBasedCreate, zeFenceCreate, zeModuleCreate,
        zeKernelCreate, zeImageCreate, zeSamplerCreate, zePhysicalMemCreate
  <2>2. Settled(h)
    BY <2>1, ValidSettled DEF Make
  <2>3. Enter(t, "create", kind, h, {}) /\ UNCHANGED <<is_open, recording>>
    BY <2>1, <2>2 DEF Make
  <2>. QED  BY <2>3, ListEnter
<1>3. ASSUME NEW t \in Thread, NEW h \in Handle, DestroyCall(t, h) PROVE ListInv'
  <2>1. \E type \in Type : Destroy(t, h, type)
    BY <1>3
    DEF DestroyCall, Type, zeContextDestroy, zeCommandQueueDestroy, zeCommandListDestroy,
        zeEventPoolDestroy, zeEventDestroy, zeFenceDestroy, zeModuleDestroy,
        zeModuleBuildLogDestroy, zeKernelDestroy, zeImageDestroy, zeSamplerDestroy
  <2>. QED  BY <2>1, ListDestroy
<1>4. ASSUME NEW t \in Thread, NEW h \in Handle, zeCommandListClose(t, h) PROVE ListInv'
  <2>1. Enter(t, "close", "list", h, {}) /\ is_open' = is_open \ {h} /\ recording' = recording
    BY <1>4 DEF zeCommandListClose
  <2>2. Settled(h)
    BY <1>4, ValidSettled DEF zeCommandListClose, Type
  <2>. QED  BY <2>1, <2>2, ListEnter
<1>5. ASSUME NEW t \in Thread, NEW h \in Handle, zeCommandListReset(t, h) PROVE ListInv'
  <2>1. Enter(t, "reset", "list", h, {}) /\ is_open' = is_open \cup {h} /\ recording' = recording
    BY <1>5 DEF zeCommandListReset
  <2>2. Settled(h)
    BY <1>5, ValidSettled DEF zeCommandListReset, Type
  <2>. QED  BY <2>1, <2>2, ListEnter
<1>6. ASSUME NEW t \in Thread, NEW h \in Handle, NEW e \in Handle,
             zeCommandListAppendSignalEvent(t, h, e)
      PROVE  ListInv'
  <2>1. Enter(t, "append", "list", h, {e}) /\ UNCHANGED <<is_open, recording>>
    BY <1>6 DEF zeCommandListAppendSignalEvent
  <2>2. Settled(h) /\ Settled(e) /\ h \in is_open
    BY <1>6, ValidSettled DEF zeCommandListAppendSignalEvent, Appendable, isOpen, Type
  <2>. QED  BY <2>1, <2>2, ListEnter
<1>7. ASSUME NEW t \in Thread, NEW h \in Handle, NEW lists \in SUBSET Handle,
             zeCommandQueueExecuteCommandLists(t, h, lists)
      PROVE  ListInv'
  <2>1. Enter(t, "execute", "queue", h, lists) /\ UNCHANGED <<is_open, recording>>
    BY <1>7 DEF zeCommandQueueExecuteCommandLists
  <2>2. Settled(h) /\ \A l \in lists : Settled(l) /\ l \notin is_open
    BY <1>7, ValidSettled DEF zeCommandQueueExecuteCommandLists, Executable, isOpen, Type
  <2>. QED  BY <2>1, <2>2, ListEnter
<1>8. CASE UNCHANGED vars
  <2>1. UNCHANGED <<handleStateMap, is_open, dependentMap, object, recording, pc, call, made>>
    BY <1>8 DEF vars, callVars
  <2>. QED
    BY <2>1
    DEF ListInv, Exclusive, UsesSettled, MadeRecording, OpenIsRecording, Changing, Ahead,
        ListCallsAreLegal, InDriver, Used, Settled, Unknown, BeingDestroyed, Live,
        DriverObject!Live
<1>. QED
  BY <1>1, <1>2, <1>3, <1>4, <1>5, <1>6, <1>7, <1>8, ListReturn, ListDriverCreates, ListRegister,
     ListDriverDestroys DEF Next, ListCall

(* However calls of several threads overlap, and whatever the application     *)
(* passes to them: commands reach a list only while the driver takes commands *)
(* for it, and a queue gets closed lists only, although the layer changes its *)
(* own flag before the driver has closed or reset the list.                   *)
THEOREM ListsTracked == Spec => []ListCallsAreLegal
<1>1. Init => IInv /\ ListInv
  BY HandleInit, ListInit
<1>2. (IInv /\ ListInv) /\ [Next]_vars => (IInv /\ ListInv)'
  BY NextStep, ListStep
<1>3. ListInv => ListCallsAreLegal
  BY DEF ListInv
<1>. QED  BY <1>1, <1>2, <1>3, PTL DEF Spec

=============================================================================

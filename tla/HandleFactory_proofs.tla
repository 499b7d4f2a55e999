------------------------ MODULE HandleFactory_proofs ------------------------
(***************************************************************************)
(* Proofs about HandleFactory, for any threads, drivers and addresses, when *)
(* no driver uses an address again before its loader object is released.   *)
(* Every address is then the business of one call at most (OneCall), and a *)
(* factory's entry is of the object that is there, or of a call that is    *)
(* about to release it (MapInv).                                           *)
(***************************************************************************)
EXTENDS HandleFactory, TLAPS

Creatable == {"context"} \cup Arguments

Releases(t, type, n) == At(t, "release") /\ call[t].handle = n /\ TypeOf(call[t].kind) = type

OneCall ==
  \A t, u \in Thread : ~At(t, "idle") /\ ~At(u, "idle") /\ t # u => call[t].handle # call[u].handle

\* What a call may count on at each of its stages.
StageInv(t) ==
  LET c == call[t] IN
  /\ ~At(t, "idle") => c \in Call
  /\ At(t, "wrap") \/ At(t, "insert") =>
       object[c.handle] = [driver |-> c.driver, kind |-> c.kind] /\ held[c.handle] = None
  /\ At(t, "wrap") => \A type \in Type : map[type][c.handle] = None
  /\ At(t, "insert") =>
       /\ c.kind \in Arguments /\ c.wrapper \in Wrapper
       /\ map[TypeOf(c.kind)][c.handle] = c.wrapper
  /\ At(t, "destroy") =>
       /\ held[c.handle] # None /\ object[c.handle].kind = c.kind
       /\ c.kind \in Arguments => argument_map[held[c.handle]] = None
  /\ At(t, "release") => object[c.handle] = None /\ map[TypeOf(c.kind)][c.handle] # None

\* The entry of n is a loader object for n, of n's type.
EntryInv(type, n) ==
  /\ wrapper[map[type][n]] # None /\ wrapper[map[type][n]].handle = n
  /\ IF object[n] = None THEN \E t \in Thread : Releases(t, type, n)
     ELSE TypeOf(object[n].kind) = type /\ wrapper[map[type][n]].dditable = object[n].driver

MapInv == \A type \in Type, n \in Native : map[type][n] # None => EntryInv(type, n)

HeapInv == \A w \in Wrapper : wrapper[w] # None => \E type \in Type, n \in Native : map[type][n] = w

ObjectInv == \A n \in Native : object[n] # None => object[n].kind \in Creatable

HeldInv ==
  \A n \in Native : held[n] # None => object[n] # None /\ map[TypeOf(object[n].kind)][n] = held[n]

\* Only images and samplers are arguments.
ArgumentKinds ==
  \A w \in Wrapper : argument_map[w] # None => object[argument_map[w]].kind \in Arguments

IInv ==
  /\ TypeOK /\ OneCall /\ (\A t \in Thread : StageInv(t))
  /\ MapInv /\ HeapInv /\ ObjectInv /\ HeldInv
  /\ NoStaleArguments /\ ArgumentsTranslated /\ ArgumentKinds

-----------------------------------------------------------------------------

LEMMA TypeOfKind == \A kind \in Kind : TypeOf(kind) \in Type
BY DEF TypeOf, Kind, Type

LEMMA CreatableKinds ==
  /\ Creatable \subseteq Kind
  /\ \A kind \in Creatable : TypeOf(kind) \in {"image", "sampler"} <=> kind \in Arguments
BY DEF Creatable, Arguments, Kind, TypeOf

LEMMA Start == Init => IInv
BY NoneAssumption
   DEF Init, IInv, TypeOK, OneCall, StageInv, At, MapInv, HeapInv, ObjectInv, HeldInv,
       NoStaleArguments, ArgumentsTranslated, ArgumentKinds

\* No two entries share a loader object.
LEMMA EntriesDiffer ==
  ASSUME IInv, NEW type \in Type, NEW n \in Native, NEW type2 \in Type, NEW n2 \in Native,
         map[type][n] # None, map[type][n] = map[type2][n2]
  PROVE  type = type2 /\ n = n2
<1>1. EntryInv(type, n) /\ EntryInv(type2, n2)  BY DEF IInv, MapInv
<1>2. n = n2  BY <1>1 DEF EntryInv
<1>3. CASE object[n] # None  BY <1>1, <1>2, <1>3 DEF EntryInv
<1>4. CASE object[n] = None
  <2>1. PICK t \in Thread : Releases(t, type, n)  BY <1>1, <1>4 DEF EntryInv
  <2>2. PICK u \in Thread : Releases(u, type2, n)  BY <1>1, <1>2, <1>4 DEF EntryInv
  <2>3. t = u  BY <2>1, <2>2 DEF IInv, OneCall, Releases, At
  <2>. QED  BY <1>2, <2>1, <2>2, <2>3 DEF Releases
<1>. QED  BY <1>3, <1>4

\* Whoever is at an address: the object, the factory's entry and the call go together.
LEMMA FreeAddress ==
  ASSUME IInv, NEW n \in Native, object[n] = None, n \notin BeingReleased
  PROVE  /\ held[n] = None
         /\ \A type \in Type : map[type][n] = None
         /\ \A u \in Thread : ~At(u, "idle") => call[u].handle # n
<1>1. held[n] = None  BY DEF IInv, HeldInv
<1>2. ASSUME NEW u \in Thread PROVE ~Releases(u, TypeOf(call[u].kind), n)
  BY DEF Releases, BeingReleased, At
<1>3. ASSUME NEW type \in Type, map[type][n] # None PROVE FALSE
  <2>1. EntryInv(type, n)  BY <1>3 DEF IInv, MapInv
  <2>. QED  BY <2>1, <1>2 DEF EntryInv, Releases
<1>4. ASSUME NEW u \in Thread, ~At(u, "idle"), call[u].handle = n PROVE FALSE
  <2>1. StageInv(u)  BY DEF IInv
  <2>2. pc[u] \in {"wrap", "insert", "destroy", "release"}  BY <1>4 DEF IInv, TypeOK, At
  <2>3. ~At(u, "release")  BY <1>2, <1>4 DEF Releases
  <2>4. call[u] \in Call  BY <1>4, <2>1 DEF StageInv
  <2>5. [driver |-> call[u].driver, kind |-> call[u].kind] # None
    BY <2>4, NoneAssumption DEF Call
  <2>. QED  BY <1>1, <1>4, <2>1, <2>2, <2>3, <2>5 DEF StageInv, At
<1>. QED  BY <1>1, <1>3, <1>4

LEMMA CreateStep ==
  ASSUME IInv, ~Recycle, NEW t \in Thread, NEW kind \in Creatable, NEW d \in Driver, Create(t, kind, d)
  PROVE  IInv'
<1>1. PICK n \in Native :
        /\ object[n] = None
        /\ n \notin BeingReleased
        /\ object' = [object EXCEPT ![n] = [driver |-> d, kind |-> kind]]
        /\ pc' = [pc EXCEPT ![t] = "wrap"]
        /\ call' = [call EXCEPT ![t] = [kind |-> kind, driver |-> d, handle |-> n, wrapper |-> None]]
  BY DEF Create, Go
<1>2. At(t, "idle") /\ UNCHANGED <<map, wrapper, argument_map, held, kept>>
  BY DEF Create, loaderVars, appVars
<1>3. /\ held[n] = None
      /\ \A type \in Type : map[type][n] = None
      /\ \A u \in Thread : ~At(u, "idle") => call[u].handle # n
  BY <1>1, FreeAddress
<1>4. kind \in Kind  BY CreatableKinds
<1>5. [driver |-> d, kind |-> kind] # None  BY <1>4, NoneAssumption
<1>6. TypeOK /\ \A u \in Thread : StageInv(u)  BY DEF IInv
<1>7. /\ object'[n] = [driver |-> d, kind |-> kind]
      /\ \A x \in Native : x # n => object'[x] = object[x]
  BY <1>1, <1>6 DEF TypeOK
<1>8. /\ call'[t] = [kind |-> kind, driver |-> d, handle |-> n, wrapper |-> None] /\ pc'[t] = "wrap"
      /\ \A u \in Thread : u # t => call'[u] = call[u] /\ pc'[u] = pc[u]
  BY <1>1, <1>6 DEF TypeOK
<1>9. TypeOK'  BY <1>1, <1>2, <1>4, <1>6 DEF TypeOK, Call
<1>10. OneCall'  BY <1>3, <1>8 DEF IInv, OneCall, At
<1>11. ASSUME NEW u \in Thread PROVE StageInv(u)'
  <2>1. CASE u = t  BY <1>2, <1>3, <1>4, <1>7, <1>8, <2>1 DEF StageInv, At, Call
  <2>2. CASE u # t
    <3>1. ~At(u, "idle") => call[u].handle \in Native /\ call[u].handle # n
      BY <1>3, <1>6 DEF StageInv, Call
    <3>. QED  BY <1>2, <1>6, <1>7, <1>8, <2>2, <3>1 DEF StageInv, At
  <2>. QED  BY <2>1, <2>2
<1>12. MapInv'
  <2> SUFFICES ASSUME NEW type \in Type, NEW x \in Native, map[type][x] # None PROVE EntryInv(type, x)'
    BY <1>2 DEF MapInv
  <2>1. EntryInv(type, x) /\ x # n  BY <1>3 DEF IInv, MapInv
  <2>2. \A u \in Thread : Releases(u, type, x) => Releases(u, type, x)'
    BY <1>2, <1>8 DEF Releases, At
  <2>. QED  BY <1>2, <1>7, <2>1, <2>2 DEF EntryInv
<1>13. HeapInv'  BY <1>2 DEF IInv, HeapInv
<1>14. ObjectInv'  BY <1>7 DEF IInv, ObjectInv
<1>15. HeldInv'  BY <1>2, <1>3, <1>7 DEF IInv, HeldInv
<1>16. NoStaleArguments' /\ ArgumentKinds'
  <2> SUFFICES ASSUME NEW w \in Wrapper, argument_map[w] # None
               PROVE  object'[argument_map[w]] = object[argument_map[w]]
    BY <1>2 DEF IInv, NoStaleArguments, ArgumentKinds
  <2>1. argument_map[w] \in Native  BY <1>6 DEF TypeOK
  <2>. QED  BY <1>1, <1>7, <2>1 DEF IInv, NoStaleArguments
<1>17. ArgumentsTranslated'
  <2>1. BeingDestroyed \subseteq BeingDestroyed'
    BY <1>2, <1>8 DEF BeingDestroyed, At
  <2>. QED  BY <1>2, <1>3, <1>7, <2>1 DEF IInv, ArgumentsTranslated, internalArgValue
<1>. QED  BY <1>9, <1>10, <1>11, <1>12, <1>13, <1>14, <1>15, <1>16, <1>17 DEF IInv

-----------------------------------------------------------------------------
(* The steps of a create *)

LEMMA WrapStep ==
  ASSUME IInv, NEW t \in Thread, Wrap(t)
  PROVE  IInv'
<1> DEFINE c == call[t]
           n == c.handle
           type0 == TypeOf(c.kind)
<1>1. TypeOK /\ At(t, "wrap") /\ \A u \in Thread : StageInv(u)  BY DEF IInv, Wrap
<1>2. /\ c \in Call /\ held[n] = None /\ \A type \in Type : map[type][n] = None
      /\ object[n] = [driver |-> c.driver, kind |-> c.kind]
  BY <1>1 DEF StageInv, At
<1>3. n \in Native /\ type0 \in Type /\ c.kind \in Kind /\ c.driver \in Driver
  BY <1>2, TypeOfKind DEF Call
<1>4. PICK w \in Wrapper :
        /\ getInstance(type0, n, c.driver, w)
        /\ IF c.kind \in Arguments
           THEN Go(t, "insert", [c EXCEPT !.wrapper = w]) /\ UNCHANGED held
           ELSE Return(t) /\ held' = [held EXCEPT ![n] = w]
  BY DEF Wrap
<1>5. UNCHANGED <<argument_map, object, kept>>  BY DEF Wrap
<1>6. /\ wrapper[w] = None
      /\ map' = [map EXCEPT ![type0][n] = w]
      /\ wrapper' = [wrapper EXCEPT ![w] = [handle |-> n, dditable |-> c.driver]]
  BY <1>2, <1>3, <1>4 DEF getInstance, hasInstance
<1>7. /\ \A type \in Type, x \in Native :
           map'[type][x] = IF type = type0 /\ x = n THEN w ELSE map[type][x]
      /\ wrapper'[w] = [handle |-> n, dditable |-> c.driver]
      /\ \A v \in Wrapper : v # w => wrapper'[v] = wrapper[v]
  BY <1>1, <1>3, <1>6 DEF TypeOK
<1>8. /\ \A u \in Thread : u # t => call'[u] = call[u] /\ pc'[u] = pc[u]
      /\ IF c.kind \in Arguments
         THEN pc'[t] = "insert" /\ call'[t] = [c EXCEPT !.wrapper = w] /\ held' = held
         ELSE pc'[t] = "idle" /\ call'[t] = None /\ held' = [held EXCEPT ![n] = w]
  BY <1>1, <1>4 DEF TypeOK, Go, Return
<1>9. \A x \in Native : x # n => held'[x] = held[x]  BY <1>1, <1>8 DEF TypeOK
<1>10. \A u \in Thread : u # t /\ ~At(u, "idle") => call[u].handle \in Native /\ call[u].handle # n
  BY <1>1 DEF IInv, OneCall, StageInv, Call, At
<1>11. w # None /\ \A x \in Native : x # None  BY NoneAssumption
<1>12. TypeOK'
  <2>1. map' \in [Type -> [Native -> Wrapper \cup {None}]]  BY <1>1, <1>6 DEF TypeOK
  <2>2. wrapper' \in [Wrapper -> [handle : Native, dditable : Driver] \cup {None}]
    BY <1>1, <1>3, <1>6 DEF TypeOK
  <2>3. held' \in [Native -> Wrapper \cup {None}]  BY <1>1, <1>8 DEF TypeOK
  <2>4. /\ pc' \in [Thread -> {"idle", "wrap", "insert", "destroy", "release"}]
        /\ call' \in [Thread -> Call \cup {None}]
    <3>1. [c EXCEPT !.wrapper = w] \in Call  BY <1>2 DEF Call
    <3>. QED  BY <1>1, <1>4, <3>1 DEF TypeOK, Go, Return
  <2>. QED  BY <1>1, <1>5, <2>1, <2>2, <2>3, <2>4 DEF TypeOK
<1>13. OneCall'
  <2>1. pc'[t] # "idle" => call'[t].handle = n  BY <1>2, <1>8 DEF Call
  <2>. QED  BY <1>8, <1>10, <2>1 DEF IInv, OneCall, At
<1>14. ASSUME NEW u \in Thread PROVE StageInv(u)'
  <2>1. CASE u = t
    <3>1. CASE c.kind \in Arguments
      <4>1. /\ call'[t] \in Call /\ call'[t].handle = n /\ call'[t].wrapper = w
            /\ call'[t].kind = c.kind /\ call'[t].driver = c.driver
        BY <1>2, <1>8, <3>1 DEF Call
      <4>. QED  BY <1>2, <1>3, <1>5, <1>7, <1>8, <2>1, <3>1, <4>1 DEF StageInv, At
    <3>2. CASE c.kind \notin Arguments  BY <1>8, <2>1, <3>2 DEF StageInv, At
    <3>. QED  BY <3>1, <3>2
  <2>2. CASE u # t
    <3>1. ~At(u, "idle") => \A type \in Type : map'[type][call[u].handle] = map[type][call[u].handle]
      BY <1>7, <1>10, <2>2
    <3>2. ~At(u, "idle") => TypeOf(call[u].kind) \in Type  BY <1>1, TypeOfKind DEF StageInv, Call
    <3>3. ~At(u, "idle") => held'[call[u].handle] = held[call[u].handle]  BY <1>9, <1>10, <2>2
    <3>. QED  BY <1>1, <1>5, <1>8, <2>2, <3>1, <3>2, <3>3 DEF StageInv, At
  <2>. QED  BY <2>1, <2>2
<1>15. MapInv'
  <2> SUFFICES ASSUME NEW type \in Type, NEW x \in Native, map'[type][x] # None
               PROVE  EntryInv(type, x)'
    BY DEF MapInv
  <2>1. CASE type = type0 /\ x = n
    <3>1. map'[type][x] = w /\ object'[x] # None  BY <1>2, <1>3, <1>5, <1>7, <2>1, NoneAssumption
    <3>2. wrapper'[w] # None  BY <1>3, <1>7, NoneAssumption
    <3>. QED  BY <1>2, <1>5, <1>7, <2>1, <3>1, <3>2 DEF EntryInv
  <2>2. CASE ~(type = type0 /\ x = n)
    <3>1. map'[type][x] = map[type][x] /\ EntryInv(type, x)  BY <1>7, <2>2 DEF IInv, MapInv
    <3>2. map[type][x] \in Wrapper /\ map[type][x] # w
      BY <1>1, <1>6, <3>1 DEF TypeOK, EntryInv
    <3>3. \A u \in Thread : Releases(u, type, x) => Releases(u, type, x)'
      BY <1>1, <1>8 DEF Releases, At
    <3>. QED  BY <1>5, <1>7, <3>1, <3>2, <3>3 DEF EntryInv
  <2>. QED  BY <2>1, <2>2
<1>16. HeapInv'
  <2> SUFFICES ASSUME NEW v \in Wrapper, wrapper'[v] # None
               PROVE  \E type \in Type, x \in Native : map'[type][x] = v
    BY DEF HeapInv
  <2>1. CASE v = w  BY <1>3, <1>7, <2>1
  <2>2. CASE v # w
    <3>1. PICK type \in Type, x \in Native : map[type][x] = v  BY <1>7, <2>2 DEF IInv, HeapInv
    <3>2. x # n  BY <1>2, <3>1, NoneAssumption
    <3>. QED  BY <1>7, <3>1, <3>2
  <2>. QED  BY <2>1, <2>2
<1>17. ObjectInv' /\ ArgumentKinds'  BY <1>5 DEF IInv, ObjectInv, ArgumentKinds
<1>18. HeldInv'
  <2> SUFFICES ASSUME NEW x \in Native, held'[x] # None
               PROVE  object[x] # None /\ map'[TypeOf(object[x].kind)][x] = held'[x]
    BY <1>5 DEF HeldInv
  <2>1. CASE x = n
    <3>1. held'[n] = w  BY <1>1, <1>2, <1>3, <1>8, <2>1 DEF TypeOK
    <3>. QED  BY <1>2, <1>3, <1>7, <2>1, <3>1, NoneAssumption
  <2>2. CASE x # n
    <3>1. object[x] # None /\ map[TypeOf(object[x].kind)][x] = held[x] /\ held'[x] = held[x]
      BY <1>9, <2>2 DEF IInv, HeldInv
    <3>2. TypeOf(object[x].kind) \in Type  BY <1>1, <3>1, TypeOfKind DEF TypeOK
    <3>. QED  BY <1>7, <2>2, <3>1, <3>2
  <2>. QED  BY <2>1, <2>2
<1>19. NoStaleArguments'
  <2> SUFFICES ASSUME NEW v \in Wrapper, argument_map[v] # None
               PROVE  /\ object[argument_map[v]] # None
                      /\ map'[TypeOf(object[argument_map[v]].kind)][argument_map[v]] = v
    BY <1>5 DEF NoStaleArguments
  <2>1. /\ argument_map[v] \in Native /\ object[argument_map[v]] # None
        /\ map[TypeOf(object[argument_map[v]].kind)][argument_map[v]] = v
    BY <1>1 DEF IInv, NoStaleArguments, TypeOK
  <2>2. TypeOf(object[argument_map[v]].kind) \in Type  BY <1>1, <2>1, TypeOfKind DEF TypeOK
  <2>3. argument_map[v] # n  BY <1>2, <2>1, <2>2, NoneAssumption
  <2>. QED  BY <1>7, <2>1, <2>2, <2>3
<1>20. ArgumentsTranslated'
  <2>1. BeingDestroyed \subseteq BeingDestroyed'  BY <1>1, <1>8 DEF BeingDestroyed, At
  <2>2. held'[n] # None => TypeOf(object[n].kind) \notin {"image", "sampler"}
    <3>1. object[n] # None /\ object[n].kind = c.kind  BY <1>2, <1>3, NoneAssumption
    <3>. QED  BY <1>2, <1>3, <1>8, <3>1, CreatableKinds DEF IInv, ObjectInv
  <2>. QED  BY <1>5, <1>9, <2>1, <2>2 DEF IInv, ArgumentsTranslated, internalArgValue
<1>. QED  BY <1>12, <1>13, <1>14, <1>15, <1>16, <1>17, <1>18, <1>19, <1>20 DEF IInv

\* The loader object found for the key is the one the call has wrapped the handle in.
LEMMA InsertStep ==
  ASSUME IInv, NEW t \in Thread, InsertArgument(t)
  PROVE  IInv'
<1> DEFINE c == call[t]
           n == c.handle
           w == c.wrapper
           type0 == TypeOf(c.kind)
<1>1. TypeOK /\ At(t, "insert") /\ \A u \in Thread : StageInv(u)  BY DEF IInv, InsertArgument
<1>2. /\ c \in Call /\ held[n] = None /\ w \in Wrapper /\ c.kind \in Arguments
      /\ map[type0][n] = w /\ object[n] = [driver |-> c.driver, kind |-> c.kind]
  BY <1>1 DEF StageInv, At
<1>3. n \in Native /\ type0 \in Type /\ c.kind \in Kind /\ c.driver \in Driver
  BY <1>2, TypeOfKind DEF Call
<1>4. w # None /\ \A x \in Native : x # None  BY <1>2, NoneAssumption
<1>5. object[n] # None /\ object[n].kind = c.kind  BY <1>2, <1>3, NoneAssumption
<1>6. /\ UNCHANGED <<map, wrapper, object, kept>>
      /\ argument_map' = [argument_map EXCEPT ![w] = IF @ = None THEN n ELSE @]
      /\ held' = [held EXCEPT ![n] = w]
      /\ Return(t)
  BY <1>2, <1>4 DEF InsertArgument, getInstance, hasInstance
\* Whoever has w's entry is n.
<1>7. ASSUME NEW x \in Native, object[x] # None, map[TypeOf(object[x].kind)][x] = w
      PROVE  x = n
  <2>1. TypeOf(object[x].kind) \in Type  BY <1>1, <1>7, TypeOfKind DEF TypeOK
  <2>. QED  BY <1>2, <1>3, <1>4, <1>7, <2>1, EntriesDiffer
<1>8. argument_map[w] \in {None, n}
  BY <1>1, <1>2, <1>7 DEF IInv, NoStaleArguments, TypeOK
<1>9. argument_map'[w] = n /\ \A v \in Wrapper : v # w => argument_map'[v] = argument_map[v]
  BY <1>1, <1>2, <1>6, <1>8 DEF TypeOK
<1>10. held'[n] = w /\ \A x \in Native : x # n => held'[x] = held[x]
  BY <1>1, <1>3, <1>6 DEF TypeOK
<1>11. pc'[t] = "idle" /\ \A u \in Thread : u # t => call'[u] = call[u] /\ pc'[u] = pc[u]
  BY <1>1, <1>6 DEF TypeOK, Return, Go
<1>12. TypeOK'
  <2>1. argument_map' \in [Wrapper -> Native \cup {None}]  BY <1>1, <1>3, <1>6 DEF TypeOK
  <2>. QED  BY <1>1, <1>2, <1>6, <2>1 DEF TypeOK, Return, Go
<1>13. OneCall'  BY <1>11 DEF IInv, OneCall, At
<1>14. ASSUME NEW x \in Native, held[x] # None
       PROVE  x # n /\ held[x] \in Wrapper /\ held[x] # w
  BY <1>1, <1>2, <1>7, <1>14 DEF IInv, HeldInv, TypeOK
<1>15. ASSUME NEW u \in Thread PROVE StageInv(u)'
  <2>1. CASE u = t  BY <1>11, <2>1 DEF StageInv, At
  <2>2. CASE u # t
    <3>1. ~At(u, "idle") => call[u].handle \in Native /\ call[u].handle # n
      BY <1>1, <2>2 DEF IInv, OneCall, StageInv, Call, At
    <3>2. ~At(u, "idle") => held'[call[u].handle] = held[call[u].handle]  BY <1>10, <3>1
    <3>3. ~At(u, "idle") /\ held[call[u].handle] # None =>
            argument_map'[held[call[u].handle]] = argument_map[held[call[u].handle]]
      BY <1>9, <1>14, <3>1
    <3>. QED  BY <1>1, <1>6, <1>11, <2>2, <3>2, <3>3 DEF StageInv, At
  <2>. QED  BY <2>1, <2>2
<1>16. MapInv'
  <2>1. \A u \in Thread, type \in Type, x \in Native : Releases(u, type, x) => Releases(u, type, x)'
    BY <1>1, <1>11 DEF Releases, At
  <2>. QED  BY <1>6, <2>1 DEF IInv, MapInv, EntryInv
<1>17. HeapInv' /\ ObjectInv'  BY <1>6 DEF IInv, HeapInv, ObjectInv
<1>18. HeldInv'  BY <1>2, <1>5, <1>6, <1>10 DEF IInv, HeldInv
<1>19. NoStaleArguments' /\ ArgumentKinds'
  <2> SUFFICES ASSUME NEW v \in Wrapper, argument_map'[v] # None
               PROVE  LET a == argument_map'[v] IN
                      /\ object[a] # None /\ map[TypeOf(object[a].kind)][a] = v
                      /\ object[a].kind \in Arguments
    BY <1>6 DEF NoStaleArguments, ArgumentKinds
  <2>1. CASE v = w  BY <1>2, <1>5, <1>9, <2>1
  <2>2. CASE v # w  BY <1>9, <2>2 DEF IInv, NoStaleArguments, ArgumentKinds
  <2>. QED  BY <2>1, <2>2
<1>20. ArgumentsTranslated'
  <2> SUFFICES ASSUME NEW x \in Native \ (kept \cup BeingDestroyed'), held'[x] # None,
                      TypeOf(object[x].kind) \in {"image", "sampler"}
               PROVE  internalArgValue(held[x])' = x
    BY <1>6 DEF ArgumentsTranslated, internalArgValue
  <2>1. BeingDestroyed \subseteq BeingDestroyed'  BY <1>1, <1>11 DEF BeingDestroyed, At
  <2>2. CASE x = n  BY <1>4, <1>3, <1>9, <1>10, <2>2 DEF internalArgValue
  <2>3. CASE x # n
    <3>1. held'[x] = held[x] /\ argument_map'[held[x]] = argument_map[held[x]]
      BY <1>9, <1>10, <1>14, <2>3
    <3>. QED  BY <2>1, <3>1 DEF IInv, ArgumentsTranslated, internalArgValue
  <2>. QED  BY <2>2, <2>3
<1>. QED  BY <1>12, <1>13, <1>15, <1>16, <1>17, <1>18, <1>19, <1>20 DEF IInv

-----------------------------------------------------------------------------
(* The steps of a destroy *)

LEMMA DestroyStep ==
  ASSUME IInv, NEW t \in Thread, NEW type0 \in Type, NEW n \in Native, Destroy(t, type0, n)
  PROVE  IInv'
<1> DEFINE w == held[n]
<1>1. TypeOK /\ At(t, "idle") /\ \A u \in Thread : StageInv(u)  BY DEF IInv, Destroy
<1>2. /\ w # None /\ n \notin BeingDestroyed /\ TypeOf(object[n].kind) = type0
      /\ argument_map' = Erased(type0, w)
      /\ Go(t, "destroy", [kind |-> object[n].kind, driver |-> wrapper[w].dditable,
                           handle |-> wrapper[w].handle, wrapper |-> w])
      /\ UNCHANGED <<map, wrapper, object, held, kept>>
  BY DEF Destroy, appVars
<1>3. /\ w \in Wrapper /\ object[n] # None /\ map[type0][n] = w
      /\ object[n] \in [driver : Driver, kind : Kind]
  BY <1>1, <1>2 DEF IInv, HeldInv, TypeOK
<1>4. wrapper[w].handle = n /\ wrapper[w].dditable = object[n].driver
  BY <1>2, <1>3 DEF IInv, MapInv, EntryInv
<1>5. /\ pc'[t] = "destroy"
      /\ call'[t] = [kind |-> object[n].kind, driver |-> object[n].driver, handle |-> n, wrapper |-> w]
      /\ \A u \in Thread : u # t => call'[u] = call[u] /\ pc'[u] = pc[u]
  BY <1>1, <1>2, <1>4 DEF TypeOK, Go
<1>6. call'[t] \in Call  BY <1>3, <1>5 DEF Call
<1>7. /\ argument_map' \in [Wrapper -> Native \cup {None}]
      /\ \A v \in Wrapper : argument_map'[v] \in {None, argument_map[v]}
      /\ \A v \in Wrapper : v # w => argument_map'[v] = argument_map[v]
      /\ type0 \in {"image", "sampler"} => argument_map'[w] = None
  BY <1>1, <1>2, <1>3 DEF TypeOK, Erased
<1>8. object[n].kind \in Arguments => type0 \in {"image", "sampler"}
  BY <1>2, <1>3, CreatableKinds DEF IInv, ObjectInv
<1>9. TypeOK'  BY <1>1, <1>2, <1>4, <1>6, <1>7, <1>5 DEF TypeOK, Go
<1>10. ASSUME NEW u \in Thread, ~At(u, "idle") PROVE call[u].handle # n
  <2>1. StageInv(u) /\ pc[u] \in {"wrap", "insert", "destroy", "release"}
    BY <1>1, <1>10 DEF TypeOK, At
  <2>. QED  BY <1>2, <1>3, <2>1 DEF StageInv, At, BeingDestroyed
<1>11. OneCall'  BY <1>1, <1>5, <1>10 DEF IInv, OneCall, At
\* No other handle the application holds is w.
<1>12. ASSUME NEW x \in Native, held[x] # None, x # n
       PROVE  held[x] \in Wrapper /\ held[x] # w
  <2>1. object[x] # None /\ map[TypeOf(object[x].kind)][x] = held[x]
    BY <1>12 DEF IInv, HeldInv
  <2>2. TypeOf(object[x].kind) \in Type  BY <1>1, <2>1, TypeOfKind DEF TypeOK
  <2>. QED  BY <1>1, <1>2, <1>3, <1>12, <2>1, <2>2, EntriesDiffer DEF TypeOK
<1>13. ASSUME NEW u \in Thread PROVE StageInv(u)'
  <2>1. CASE u = t  BY <1>2, <1>5, <1>6, <1>7, <1>8, <2>1 DEF StageInv, At
  <2>2. CASE u # t
    <3>1. ~At(u, "idle") => call[u].handle \in Native /\ call[u].handle # n
      BY <1>1, <1>10 DEF StageInv, Call
    <3>2. ~At(u, "idle") /\ held[call[u].handle] # None =>
            argument_map'[held[call[u].handle]] = argument_map[held[call[u].handle]]
      BY <1>7, <1>12, <3>1
    <3>. QED  BY <1>1, <1>2, <1>5, <2>2, <3>2 DEF StageInv, At
  <2>. QED  BY <2>1, <2>2
<1>14. MapInv'
  <2>1. \A u \in Thread, type \in Type, x \in Native : Releases(u, type, x) => Releases(u, type, x)'
    BY <1>1, <1>5 DEF Releases, At
  <2>. QED  BY <1>2, <2>1 DEF IInv, MapInv, EntryInv
<1>15. HeapInv' /\ ObjectInv' /\ HeldInv'  BY <1>2 DEF IInv, HeapInv, ObjectInv, HeldInv
<1>16. NoStaleArguments' /\ ArgumentKinds'
  BY <1>2, <1>7 DEF IInv, NoStaleArguments, ArgumentKinds
<1>17. ArgumentsTranslated'
  <2>1. BeingDestroyed \subseteq BeingDestroyed' /\ n \in BeingDestroyed'
    BY <1>1, <1>5 DEF BeingDestroyed, At
  <2>. QED  BY <1>2, <1>7, <1>12, <2>1 DEF IInv, ArgumentsTranslated, internalArgValue
<1>. QED  BY <1>9, <1>11, <1>13, <1>14, <1>15, <1>16, <1>17 DEF IInv

LEMMA RefuseStep ==
  ASSUME IInv, NEW t \in Thread, DriverRefuses(t)
  PROVE  IInv'
<1>1. TypeOK /\ At(t, "destroy") /\ \A u \in Thread : StageInv(u)  BY DEF IInv, DriverRefuses
<1>2. /\ UNCHANGED <<map, wrapper, argument_map, object, held>>
      /\ kept' = kept \cup {call[t].handle} /\ Return(t)
  BY DEF DriverRefuses, loaderVars
<1>3. pc'[t] = "idle" /\ \A u \in Thread : u # t => call'[u] = call[u] /\ pc'[u] = pc[u]
  BY <1>1, <1>2 DEF TypeOK, Return, Go
<1>4. call[t].handle \in Native  BY <1>1 DEF StageInv, At, Call
<1>5. TypeOK'  BY <1>1, <1>2, <1>4 DEF TypeOK, Return, Go
<1>6. OneCall'  BY <1>3 DEF IInv, OneCall, At
<1>7. ASSUME NEW u \in Thread PROVE StageInv(u)'
  BY <1>1, <1>2, <1>3 DEF StageInv, At
<1>8. MapInv'
  <2>1. \A u \in Thread, type \in Type, x \in Native : Releases(u, type, x) => Releases(u, type, x)'
    BY <1>1, <1>3 DEF Releases, At
  <2>. QED  BY <1>2, <2>1 DEF IInv, MapInv, EntryInv
<1>9. /\ HeapInv' /\ ObjectInv' /\ HeldInv'
      /\ NoStaleArguments' /\ ArgumentKinds'
  BY <1>2 DEF IInv, HeapInv, ObjectInv, HeldInv, NoStaleArguments, ArgumentKinds
<1>10. ArgumentsTranslated'
  <2>1. BeingDestroyed \cup kept \subseteq BeingDestroyed' \cup kept'
    BY <1>1, <1>2, <1>3 DEF BeingDestroyed, At
  <2>. QED  BY <1>2, <2>1 DEF IInv, ArgumentsTranslated, internalArgValue
<1>. QED  BY <1>5, <1>6, <1>7, <1>8, <1>9, <1>10 DEF IInv

LEMMA DriverDestroysStep ==
  ASSUME IInv, NEW t \in Thread, DriverDestroys(t)
  PROVE  IInv'
<1> DEFINE n == call[t].handle
<1>1. TypeOK /\ At(t, "destroy") /\ \A u \in Thread : StageInv(u)  BY DEF IInv, DriverDestroys
<1>2. /\ UNCHANGED <<map, wrapper, argument_map>>
      /\ object' = [object EXCEPT ![n] = None] /\ held' = [held EXCEPT ![n] = None]
      /\ kept' = kept \ {n} /\ Go(t, "release", call[t])
  BY DEF DriverDestroys, Gone, loaderVars
<1>3. /\ call[t] \in Call /\ held[n] # None /\ object[n].kind = call[t].kind
      /\ call[t].kind \in Arguments => argument_map[held[n]] = None
  BY <1>1 DEF StageInv, At
<1>4. n \in Native /\ TypeOf(call[t].kind) \in Type  BY <1>3, TypeOfKind DEF Call
<1>5. /\ held[n] \in Wrapper /\ object[n] # None /\ map[TypeOf(call[t].kind)][n] = held[n]
  BY <1>1, <1>3, <1>4 DEF IInv, HeldInv, TypeOK
<1>6. /\ object'[n] = None /\ held'[n] = None
      /\ \A x \in Native : x # n => object'[x] = object[x] /\ held'[x] = held[x]
  BY <1>1, <1>2, <1>4 DEF TypeOK
<1>7. /\ pc'[t] = "release" /\ \A u \in Thread : call'[u] = call[u]
      /\ \A u \in Thread : u # t => pc'[u] = pc[u]
  BY <1>1, <1>2 DEF TypeOK, Go
<1>8. TypeOK'  BY <1>1, <1>2, <1>3 DEF TypeOK, Go
<1>9. OneCall'  BY <1>1, <1>7 DEF IInv, OneCall, At
<1>10. ASSUME NEW u \in Thread PROVE StageInv(u)'
  <2>1. CASE u = t  BY <1>2, <1>3, <1>5, <1>6, <1>7, <2>1 DEF StageInv, At
  <2>2. CASE u # t
    <3>1. ~At(u, "idle") => call[u].handle \in Native /\ call[u].handle # n
      BY <1>1, <2>2 DEF IInv, OneCall, StageInv, Call, At
    <3>. QED  BY <1>1, <1>2, <1>6, <1>7, <2>2, <3>1 DEF StageInv, At
  <2>. QED  BY <2>1, <2>2
<1>11. MapInv'
  <2> SUFFICES ASSUME NEW type \in Type, NEW x \in Native, map[type][x] # None PROVE EntryInv(type, x)'
    BY <1>2 DEF MapInv
  <2>1. EntryInv(type, x)  BY DEF IInv, MapInv
  <2>2. \A u \in Thread : Releases(u, type, x) => Releases(u, type, x)'
    BY <1>1, <1>7 DEF Releases, At
  <2>3. CASE x = n
    <3>1. Releases(t, type, x)'  BY <1>3, <1>5, <1>7, <2>1, <2>3 DEF EntryInv, Releases, At
    <3>. QED  BY <1>2, <1>6, <2>1, <2>3, <3>1 DEF EntryInv
  <2>4. CASE x # n  BY <1>2, <1>6, <2>1, <2>2, <2>4 DEF EntryInv
  <2>. QED  BY <2>3, <2>4
<1>12. HeapInv' /\ ObjectInv' /\ HeldInv'  BY <1>2, <1>6 DEF IInv, HeapInv, ObjectInv, HeldInv
\* The object's argument was erased when the call began.
<1>13. ASSUME NEW w \in Wrapper, argument_map[w] # None
       PROVE  argument_map[w] \in Native /\ argument_map[w] # n
  <2>1. /\ argument_map[w] \in Native
        /\ map[TypeOf(object[argument_map[w]].kind)][argument_map[w]] = w
        /\ object[argument_map[w]].kind \in Arguments
    BY <1>1, <1>13 DEF IInv, TypeOK, NoStaleArguments, ArgumentKinds
  <2>. QED  BY <1>3, <1>5, <1>13, <2>1
<1>14. NoStaleArguments' /\ ArgumentKinds'
  BY <1>2, <1>6, <1>13 DEF IInv, NoStaleArguments, ArgumentKinds
<1>15. ArgumentsTranslated'
  <2>1. BeingDestroyed \ {n} \subseteq BeingDestroyed'  BY <1>1, <1>7 DEF BeingDestroyed, At
  <2>. QED  BY <1>2, <1>6, <2>1 DEF IInv, ArgumentsTranslated, internalArgValue
<1>. QED  BY <1>8, <1>9, <1>10, <1>11, <1>12, <1>14, <1>15 DEF IInv

LEMMA ReleaseStep ==
  ASSUME IInv, NEW t \in Thread, Release(t)
  PROVE  IInv'
<1> DEFINE n == call[t].handle
           type0 == TypeOf(call[t].kind)
           w == map[type0][n]
<1>1. TypeOK /\ At(t, "release") /\ \A u \in Thread : StageInv(u)  BY DEF IInv, Release
<1>2. call[t] \in Call /\ object[n] = None /\ w # None  BY <1>1 DEF StageInv, At
<1>3. n \in Native /\ type0 \in Type  BY <1>2, TypeOfKind DEF Call
<1>4. w \in Wrapper  BY <1>1, <1>2, <1>3 DEF TypeOK
<1>5. /\ map' = [map EXCEPT ![type0][n] = None] /\ wrapper' = [wrapper EXCEPT ![w] = None]
      /\ UNCHANGED <<argument_map, object, held, kept>> /\ Return(t)
  BY <1>2 DEF Release, release, hasInstance, appVars
<1>6. /\ \A type \in Type, x \in Native :
           map'[type][x] = IF type = type0 /\ x = n THEN None ELSE map[type][x]
      /\ wrapper'[w] = None /\ \A v \in Wrapper : v # w => wrapper'[v] = wrapper[v]
  BY <1>1, <1>3, <1>4, <1>5 DEF TypeOK
<1>7. pc'[t] = "idle" /\ \A u \in Thread : u # t => call'[u] = call[u] /\ pc'[u] = pc[u]
  BY <1>1, <1>5 DEF TypeOK, Return, Go
<1>8. TypeOK'
  <2>1. map' \in [Type -> [Native -> Wrapper \cup {None}]]  BY <1>1, <1>5 DEF TypeOK
  <2>2. wrapper' \in [Wrapper -> [handle : Native, dditable : Driver] \cup {None}]
    BY <1>1, <1>5 DEF TypeOK
  <2>. QED  BY <1>1, <1>5, <2>1, <2>2 DEF TypeOK, Return, Go
<1>9. OneCall'  BY <1>7 DEF IInv, OneCall, At
<1>10. ASSUME NEW u \in Thread PROVE StageInv(u)'
  <2>1. CASE u = t  BY <1>7, <2>1 DEF StageInv, At
  <2>2. CASE u # t
    <3>1. ~At(u, "idle") => call[u].handle \in Native /\ call[u].handle # n
      BY <1>1, <2>2 DEF IInv, OneCall, StageInv, Call, At
    <3>2. ~At(u, "idle") => \A type \in Type : map'[type][call[u].handle] = map[type][call[u].handle]
      BY <1>6, <3>1
    <3>3. ~At(u, "idle") => TypeOf(call[u].kind) \in Type  BY <1>1, TypeOfKind DEF StageInv, Call
    <3>. QED  BY <1>1, <1>5, <1>7, <2>2, <3>2, <3>3 DEF StageInv, At
  <2>. QED  BY <2>1, <2>2
<1>11. MapInv'
  <2> SUFFICES ASSUME NEW type \in Type, NEW x \in Native, map'[type][x] # None
               PROVE  EntryInv(type, x)'
    BY DEF MapInv
  <2>1. ~(type = type0 /\ x = n) /\ map'[type][x] = map[type][x]  BY <1>6
  <2>2. EntryInv(type, x)  BY <2>1 DEF IInv, MapInv
  <2>3. map[type][x] \in Wrapper /\ map[type][x] # w
    BY <1>1, <1>2, <1>3, <2>1, EntriesDiffer DEF TypeOK
  <2>4. \A u \in Thread : Releases(u, type, x) => Releases(u, type, x)'
    BY <1>7, <2>1 DEF Releases, At
  <2>. QED  BY <1>5, <1>6, <2>1, <2>2, <2>3, <2>4 DEF EntryInv
<1>12. HeapInv'
  <2> SUFFICES ASSUME NEW v \in Wrapper, wrapper'[v] # None
               PROVE  \E type \in Type, x \in Native : map'[type][x] = v
    BY DEF HeapInv
  <2>1. v # w /\ wrapper[v] # None  BY <1>6
  <2>2. PICK type \in Type, x \in Native : map[type][x] = v  BY <2>1 DEF IInv, HeapInv
  <2>. QED  BY <1>6, <2>1, <2>2
<1>13. ObjectInv' /\ ArgumentKinds'  BY <1>5 DEF IInv, ObjectInv, ArgumentKinds
\* The entry of an object that is there is not touched.
<1>14. ASSUME NEW x \in Native, object[x] # None
       PROVE  map'[TypeOf(object[x].kind)][x] = map[TypeOf(object[x].kind)][x]
  <2>1. TypeOf(object[x].kind) \in Type  BY <1>1, <1>14, TypeOfKind DEF TypeOK
  <2>. QED  BY <1>2, <1>6, <1>14, <2>1
<1>15. HeldInv'  BY <1>5, <1>14 DEF IInv, HeldInv
<1>16. NoStaleArguments'
  <2>1. \A v \in Wrapper : argument_map[v] # None => argument_map[v] \in Native  BY <1>1 DEF TypeOK
  <2>. QED  BY <1>5, <1>14, <2>1 DEF IInv, NoStaleArguments
<1>17. ArgumentsTranslated'
  <2>1. BeingDestroyed \subseteq BeingDestroyed'  BY <1>1, <1>7 DEF BeingDestroyed, At
  <2>. QED  BY <1>5, <2>1 DEF IInv, ArgumentsTranslated, internalArgValue
<1>. QED  BY <1>8, <1>9, <1>10, <1>11, <1>12, <1>13, <1>15, <1>16, <1>17 DEF IInv

-----------------------------------------------------------------------------
(* The theorem *)

LEMMA Step ==
  ASSUME IInv, ~Recycle, [Next]_vars
  PROVE  IInv'
<1>1. ASSUME NEW t \in Thread, NEW d \in Driver, CreateCall(t, d) PROVE IInv'
  BY <1>1, CreateStep DEF CreateCall, zeContextCreate, zeImageCreate, zeImageViewCreateExp,
                          zeSamplerCreate, Creatable, Arguments
<1>2. ASSUME NEW t \in Thread, NEW n \in Native, DestroyCall(t, n) PROVE IInv'
  BY <1>2, DestroyStep DEF DestroyCall, zeContextDestroy, zeImageDestroy, zeSamplerDestroy, Type
<1>3. CASE UNCHANGED vars
  BY <1>3 DEF vars, loaderVars, appVars, IInv, TypeOK, OneCall, StageInv, At, MapInv, EntryInv,
              Releases, HeapInv, ObjectInv, HeldInv, NoStaleArguments, ArgumentsTranslated,
              ArgumentKinds, BeingDestroyed, internalArgValue
<1>. QED  BY <1>1, <1>2, <1>3, WrapStep, InsertStep, DriverDestroysStep, RefuseStep, ReleaseStep DEF Next

\* What the invariant says of the properties.
LEMMA Properties == IInv => HandlesResolve /\ NothingLeftBehind
<1> SUFFICES ASSUME IInv PROVE HandlesResolve /\ NothingLeftBehind  OBVIOUS
<1>1. TypeOK  BY DEF IInv
<1>2. ASSUME NEW n \in Native, held[n] # None
      PROVE  /\ object[n] # None /\ map[TypeOf(object[n].kind)][n] = held[n]
             /\ wrapper[held[n]] = [handle |-> n, dditable |-> object[n].driver]
  <2>1. object[n] # None /\ map[TypeOf(object[n].kind)][n] = held[n] /\ held[n] \in Wrapper
    BY <1>1, <1>2 DEF IInv, HeldInv, TypeOK
  <2>2. TypeOf(object[n].kind) \in Type  BY <1>1, <2>1, TypeOfKind DEF TypeOK
  <2>3. /\ wrapper[held[n]] # None /\ wrapper[held[n]].handle = n
        /\ wrapper[held[n]].dditable = object[n].driver
    BY <1>2, <2>1, <2>2 DEF IInv, MapInv, EntryInv
  <2>4. wrapper[held[n]] \in [handle : Native, dditable : Driver]  BY <1>1, <2>1, <2>3 DEF TypeOK
  <2>. QED  BY <2>1, <2>3, <2>4
<1>3. HandlesResolve  BY <1>2 DEF HandlesResolve
<1>4. NothingLeftBehind
  BY DEF IInv, MapInv, EntryInv, HeapInv, NothingLeftBehind, hasInstance, Releases
<1>. QED  BY <1>3, <1>4

(* With drivers that do not use an address again before its loader object   *)
(* is released, every handle of the application leads to its object, no     *)
(* loader object is left behind, and kernel arguments are translated.       *)
THEOREM HandlesAreTranslated ==
  ASSUME ~Recycle
  PROVE  Spec => [](TypeOK /\ HandlesResolve /\ NothingLeftBehind
                      /\ ArgumentsTranslated /\ NoStaleArguments)
<1>1. Init => IInv  BY Start
<1>2. IInv /\ [Next]_vars => IInv'  BY Step
<1>3. IInv => TypeOK /\ HandlesResolve /\ NothingLeftBehind /\ ArgumentsTranslated /\ NoStaleArguments
  BY Properties DEF IInv
<1>. QED  BY <1>1, <1>2, <1>3, PTL DEF Spec

=============================================================================

------------------------- MODULE GraphCycles_proofs -------------------------
(***************************************************************************)
(* Proofs about GraphCycles, for any number of nodes.  The two searches are *)
(* right because of what they leave out: with the nodes found forward, the  *)
(* nodes above the source are closed under the edges (Forwards), so that    *)
(* the source cannot be reached when it was not met; and a node found       *)
(* backward was then not found forward, so that the marks of the first      *)
(* search do not stop the second.  The new ranks keep the order because     *)
(* what is moved down moves down, and what is moved up moves up             *)
(* (ReorderMoves), which is a matter of counting.                           *)
(***************************************************************************)
EXTENDS GraphCycles, FiniteSetTheorems, TLAPS

Reaches(x, y) == Graph!Reaches(Edges, x, y)

IsEdge(x, y) == y \in out[x] /\ (phase = "idle" \/ x # from \/ y # to)

\* The nodes found forward, and those still to look at.
ForwardOpen == IF phase = "forward" THEN stack_ ELSE {}

Ranks ==
  /\ \A x \in nodes : rank[x] \in nodes
  /\ \A x, y \in nodes : rank[x] = rank[y] => x = y

Lists ==
  /\ \A x \in Node \ nodes : out[x] = {} /\ in[x] = {}
  /\ \A x, y \in nodes : y \in out[x] <=> x \in in[y]

Ordered == \A x, y \in nodes : IsEdge(x, y) => rank[x] < rank[y]

Rest == phase = "idle" => visited = {} /\ stack_ = {} /\ deltaf_ = {} /\ deltab_ = {}

Search ==
  phase # "idle" =>
    /\ from \in nodes /\ to \in nodes
    /\ to \in out[from] /\ rank[to] < rank[from]
    /\ visited = deltaf_ \cup deltab_

Forwards ==
  phase # "idle" =>
    /\ to \in deltaf_ \cup ForwardOpen
    /\ \A n \in deltaf_ \cup ForwardOpen :
         rank[to] <= rank[n] /\ rank[n] < rank[from] /\ Reaches(to, n)
    /\ \A n \in deltaf_ : \A w \in out[n] : w \in deltaf_ \cup ForwardOpen \/ rank[from] < rank[w]
    /\ phase = "forward" => deltab_ = {}

Backwards ==
  phase = "backward" =>
    /\ from \in deltab_ \cup stack_
    /\ \A n \in deltab_ \cup stack_ :
         rank[to] < rank[n] /\ rank[n] <= rank[from] /\ Reaches(n, from)
    /\ \A n \in deltab_ : \A w \in in[n] : w \in deltab_ \cup stack_ \/ rank[w] <= rank[to]

IInv == GraphTypeOK /\ Ranks /\ Lists /\ Ordered /\ Rest /\ Search /\ Forwards /\ Backwards

-----------------------------------------------------------------------------
(* Paths *)

LEMMA ReachesSelf ==
  ASSUME NEW E, NEW x
  PROVE  Graph!Reaches(E, x, x)
BY DEF Graph!Reaches

LEMMA ReachesOn ==
  ASSUME NEW E, NEW x, NEW y, NEW z, Graph!Reaches(E, x, y), <<y, z>> \in E
  PROVE  Graph!Reaches(E, x, z)
BY DEF Graph!Reaches

LEMMA ReachesBack ==
  ASSUME NEW E, NEW x, NEW y, NEW z, <<x, y>> \in E, Graph!Reaches(E, y, z)
  PROVE  Graph!Reaches(E, x, z)
BY DEF Graph!Reaches

LEMMA OutOfReach ==
  ASSUME NEW E, NEW x, NEW y, NEW S \in SUBSET Node, x \in S, y \notin S,
         \A e \in E : e[1] \in S => e[2] \in S
  PROVE  ~Graph!Reaches(E, x, y)
BY DEF Graph!Reaches

LEMMA EdgesAre ==
  /\ \A x, y : <<x, y>> \in Edges <=> x \in nodes /\ y \in nodes /\ IsEdge(x, y)
  /\ \A e \in Edges : e = <<e[1], e[2]>> /\ e[1] \in nodes /\ e[2] \in nodes /\ IsEdge(e[1], e[2])
BY DEF Edges, IsEdge

LEMMA NodesAre ==
  ASSUME GraphTypeOK
  PROVE  /\ nodes \subseteq Node /\ Node \subseteq Int
         /\ \A x \in Node : rank[x] \in Int /\ rank[x] \in Node
BY MaxNodesAssumption DEF GraphTypeOK, nodes, Node

-----------------------------------------------------------------------------
(* Reorder *)

\* Ranks r of D are handed out again, as new, in an order that puts b first.
HandedOut(D, b, r, new) ==
  /\ IsFiniteSet(D) /\ b \in SUBSET D
  /\ \A u \in D : r[u] \in Int /\ new[u] \in Int
  /\ \A u, v \in D : r[u] = r[v] => u = v
  /\ \A u \in D : \E w \in D : new[w] = r[u]
  /\ \A u, v \in D : (IF u \in b <=> v \in b THEN r[u] < r[v] ELSE u \in b) => new[u] < new[v]

\* Then b moves down, and the rest up.
LEMMA ReorderMoves ==
  ASSUME NEW D, NEW b, NEW r, NEW new, HandedOut(D, b, r, new)
  PROVE  /\ \A u \in b : new[u] <= r[u]
         /\ \A u \in D \ b : r[u] <= new[u]
         /\ \A u, v \in D : new[u] = new[v] => u = v
<1>0. /\ IsFiniteSet(D) /\ b \in SUBSET D
      /\ \A u \in D : r[u] \in Int /\ new[u] \in Int
      /\ \A u, v \in D : r[u] = r[v] => u = v
      /\ \A u \in D : \E w \in D : new[w] = r[u]
      /\ \A u, v \in D : (IF u \in b <=> v \in b THEN r[u] < r[v] ELSE u \in b) => new[u] < new[v]
  BY DEF HandedOut
<1> USE <1>0
<1>1. ASSUME NEW u \in b, r[u] < new[u] PROVE FALSE
  <2> DEFINE B == {w \in b : r[w] <= r[u]}
             m == [w \in B |-> CHOOSE x \in D : new[x] = r[w]]
  <2>1. ASSUME NEW w \in B PROVE m[w] \in B \ {u} /\ new[m[w]] = r[w]
    <3>1. m[w] \in D /\ new[m[w]] = r[w]  OBVIOUS
    <3>2. new[m[w]] < new[u]  BY <1>1, <3>1
    <3>3. ASSUME m[w] \notin B PROVE new[u] <= new[m[w]]
      <4> HIDE DEF m
      <4>1. m[w] \in b => r[u] < r[m[w]]  BY <3>1, <3>3
      <4>. QED  BY <3>1, <4>1
    <3>. QED
      <4> HIDE DEF m, B
      <4>1. m[w] \in B  BY <3>1, <3>2, <3>3
      <4>2. m[w] # u  BY <3>1, <3>2
      <4>. QED  BY <3>1, <4>1, <4>2
  <2>2. IsFiniteSet(B)  BY FS_Subset
  <2>3. IsFiniteSet(B \ {u}) /\ Cardinality(B \ {u}) < Cardinality(B)
    <3>1. u \in B  OBVIOUS
    <3>2. Cardinality(B) \in Nat  BY <2>2, FS_CardinalityType
    <3> HIDE DEF m, B
    <3> DEFINE less == Cardinality(B \ {u})
    <3>3. IsFiniteSet(B \ {u}) /\ less = Cardinality(B) - 1
      BY <2>2, <3>1, FS_RemoveElement, Zenon
    <3> HIDE DEF less
    <3>4. less < Cardinality(B)  BY <3>2, <3>3
    <3>. QED  BY <3>3, <3>4 DEF less
  <2>4. m \in [B -> B \ {u}]  BY <2>1
  <2>5. PICK x, y \in B : x # y /\ m[x] = m[y]
    <3> HIDE DEF B, m
    <3>. QED  BY <2>2, <2>3, <2>4, FS_PigeonHole
  <2>. QED
    <3> HIDE DEF m
    <3>. QED  BY <2>1, <2>5
<1>2. ASSUME NEW u \in D \ b, new[u] < r[u] PROVE FALSE
  <2> DEFINE F == {w \in D \ b : r[u] <= r[w]}
             m == [w \in F |-> CHOOSE x \in D : new[x] = r[w]]
  <2>1. ASSUME NEW w \in F PROVE m[w] \in F \ {u} /\ new[m[w]] = r[w]
    <3>1. m[w] \in D /\ new[m[w]] = r[w]  OBVIOUS
    <3>2. new[u] < new[m[w]]  BY <1>2, <3>1
    <3>3. ASSUME m[w] \notin F PROVE new[m[w]] <= new[u]
      <4> HIDE DEF m
      <4>1. m[w] \notin b => r[m[w]] < r[u]  BY <3>1, <3>3
      <4>. QED  BY <3>1, <4>1
    <3>. QED
      <4> HIDE DEF m, F
      <4>1. m[w] \in F  BY <3>1, <3>2, <3>3
      <4>2. m[w] # u  BY <3>1, <3>2
      <4>. QED  BY <3>1, <4>1, <4>2
  <2>2. IsFiniteSet(F)  BY FS_Subset
  <2>3. IsFiniteSet(F \ {u}) /\ Cardinality(F \ {u}) < Cardinality(F)
    <3>1. u \in F  OBVIOUS
    <3>2. Cardinality(F) \in Nat  BY <2>2, FS_CardinalityType
    <3> HIDE DEF m, F
    <3> DEFINE less == Cardinality(F \ {u})
    <3>3. IsFiniteSet(F \ {u}) /\ less = Cardinality(F) - 1
      BY <2>2, <3>1, FS_RemoveElement, Zenon
    <3> HIDE DEF less
    <3>4. less < Cardinality(F)  BY <3>2, <3>3
    <3>. QED  BY <3>3, <3>4 DEF less
  <2>4. m \in [F -> F \ {u}]  BY <2>1
  <2>5. PICK x, y \in F : x # y /\ m[x] = m[y]
    <3> HIDE DEF F, m
    <3>. QED  BY <2>2, <2>3, <2>4, FS_PigeonHole
  <2>. QED
    <3> HIDE DEF m
    <3>. QED  BY <2>1, <2>5
<1>3. ASSUME NEW u \in D, NEW v \in D, new[u] = new[v] PROVE u = v
  BY <1>3
<1>. QED  BY <1>1, <1>2, <1>3

-----------------------------------------------------------------------------
(* What cannot be reached *)

\* Edges lead up.
LEMMA NotDown ==
  ASSUME IInv, NEW x \in nodes, NEW y \in nodes, rank[x] < rank[y]
  PROVE  ~Reaches(y, x)
<1> DEFINE S == {v \in nodes : rank[y] <= rank[v]}
<1>1. S \in SUBSET Node  BY NodesAre DEF IInv
<1>2. y \in S /\ x \notin S  BY NodesAre DEF IInv
<1>3. ASSUME NEW e \in Edges, e[1] \in S PROVE e[2] \in S
  <2>1. e[1] \in nodes /\ e[2] \in nodes /\ IsEdge(e[1], e[2])  BY EdgesAre
  <2>2. rank[e[1]] < rank[e[2]]  BY <2>1 DEF IInv, Ordered
  <2>. QED  BY <1>3, <2>1, <2>2, NodesAre DEF IInv
<1> HIDE DEF S
<1>. QED  BY <1>1, <1>2, <1>3, OutOfReach DEF Reaches

\* The first search has looked at all that could lead to the source.
LEMMA NoWayBack ==
  ASSUME IInv, phase # "idle", ForwardOpen = {}
  PROVE  \A n \in deltaf_ : ~Reaches(n, from)
<1> SUFFICES ASSUME NEW n \in deltaf_ PROVE ~Reaches(n, from)
  OBVIOUS
<1> DEFINE S == deltaf_ \cup {v \in nodes : rank[from] < rank[v]}
<1>0. deltaf_ \in SUBSET nodes  BY DEF IInv, GraphTypeOK
<1>1. S \in SUBSET Node  BY <1>0, NodesAre DEF IInv
<1>2. n \in S /\ from \notin S  BY NodesAre DEF IInv, Forwards, Search
<1>3. ASSUME NEW e \in Edges, e[1] \in S PROVE e[2] \in S
  <2>1. e[1] \in nodes /\ e[2] \in nodes /\ IsEdge(e[1], e[2])  BY EdgesAre
  <2>2. e[2] \in out[e[1]]  BY <2>1 DEF IsEdge
  <2>3. CASE e[1] \in deltaf_  BY <2>1, <2>2, <2>3 DEF IInv, Forwards
  <2>4. CASE rank[from] < rank[e[1]]
    <3>1. rank[e[1]] < rank[e[2]]  BY <2>1 DEF IInv, Ordered
    <3>. QED  BY <2>1, <2>4, <3>1, NodesAre DEF IInv, Search
  <2>. QED  BY <1>3, <2>3, <2>4
<1> HIDE DEF S
<1>. QED  BY <1>1, <1>2, <1>3, OutOfReach DEF Reaches

-----------------------------------------------------------------------------
(* The steps keep the invariant, and each is one of AcyclicGraph's or none *)

Step == Graph!Next \/ UNCHANGED <<nodes, Edges, answer>>

\* The abstract graph stays while the edges are the same, for a search as well.
LEMMA SameEdges ==
  ASSUME nodes' = nodes,
         \A x, y \in nodes : IsEdge(x, y)' <=> IsEdge(x, y)
  PROVE  Edges' = Edges
<1>1. Edges = {e \in nodes \X nodes : IsEdge(e[1], e[2])}  BY DEF Edges, IsEdge
<1>2. Edges' = {e \in nodes' \X nodes' : IsEdge(e[1], e[2])'}  BY DEF Edges, IsEdge
<1>. QED  BY <1>1, <1>2

LEMMA Initial == GraphInit => IInv /\ Graph!Init
<1> SUFFICES ASSUME GraphInit PROVE IInv /\ Graph!Init
  OBVIOUS
<1> USE DEF GraphInit
<1>0. nodes = {}  BY DEF nodes
<1>1. GraphTypeOK  BY <1>0, MaxNodesAssumption DEF GraphTypeOK, Node
<1>2. Ranks /\ Lists /\ Ordered  BY <1>0 DEF Ranks, Lists, Ordered
<1>3. Rest /\ Search /\ Forwards /\ Backwards  BY DEF Rest, Search, Forwards, Backwards
<1>4. Graph!Init  BY <1>0 DEF Graph!Init, Edges
<1>. QED  BY <1>1, <1>2, <1>3, <1>4 DEF IInv

LEMMA NewNodeStep ==
  ASSUME IInv, NewNode
  PROVE  IInv' /\ Step
<1> USE DEF NewNode
<1>0. /\ size \in Nat /\ size \in Node
      /\ nodes' = nodes \cup {size} /\ size \notin nodes
      /\ size + 1 \in 0 .. MaxNodes
  BY MaxNodesAssumption DEF IInv, GraphTypeOK, nodes, Node
<1>1. rank' = [n \in Node |-> IF n = size THEN size ELSE rank[n]]
  BY DEF IInv, GraphTypeOK
<1>2. GraphTypeOK'
  <2>1. rank' \in [Node -> Node]  BY <1>0, <1>1 DEF IInv, GraphTypeOK
  <2>. QED  BY <1>0, <2>1 DEF IInv, GraphTypeOK
<1>3. Ranks'  BY <1>0, <1>1, NodesAre DEF IInv, Ranks
<1>4. \A x \in nodes' : size \notin out[x] /\ size \notin in[x]
  <2>1. \A x \in Node : out[x] \in SUBSET nodes /\ in[x] \in SUBSET nodes
    BY DEF IInv, GraphTypeOK
  <2>. QED  BY <1>0, <2>1, NodesAre DEF IInv
<1>5. out[size] = {} /\ in[size] = {}  BY <1>0 DEF IInv, Lists
<1>6. Lists'  BY <1>0, <1>4, <1>5 DEF IInv, Lists
<1>7. \A x, y : IsEdge(x, y)' <=> IsEdge(x, y)  BY DEF IsEdge
<1>8. Ordered'
  <2>1. \A x, y \in nodes' : IsEdge(x, y) => x \in nodes /\ y \in nodes
    BY <1>0, <1>4, <1>5 DEF IsEdge
  <2>. QED  BY <1>0, <1>1, <1>7, <2>1, NodesAre DEF IInv, Ordered
<1>9. (Rest /\ Search /\ Forwards /\ Backwards)'
  BY DEF IInv, Rest, Search, Forwards, Backwards
<1>10. Edges' = Edges
  <2>1. Edges = {e \in nodes \X nodes : IsEdge(e[1], e[2])}  BY DEF Edges, IsEdge
  <2>2. Edges' = {e \in nodes' \X nodes' : IsEdge(e[1], e[2])}  BY DEF Edges, IsEdge
  <2>3. \A x, y \in nodes' : IsEdge(x, y) => x \in nodes /\ y \in nodes
    BY <1>0, <1>4, <1>5 DEF IsEdge
  <2>. QED  BY <1>0, <2>1, <2>2, <2>3
<1>11. Step  BY <1>0, <1>10 DEF Step, Graph!Next, Graph!NewNode
<1>. QED  BY <1>2, <1>3, <1>6, <1>8, <1>9, <1>11 DEF IInv

LEMMA InsertEdgeStep ==
  ASSUME IInv, NEW x \in nodes, NEW y \in nodes, InsertEdge(x, y)
  PROVE  IInv' /\ Step
<1> USE DEF InsertEdge
<1>0. /\ x \in Node /\ y \in Node /\ nodes' = nodes
      /\ rank[x] \in Int /\ rank[y] \in Int
  BY NodesAre DEF IInv, nodes
<1>1. CASE x = y
  <2> USE <1>1 DEF Return
  <2>1. GraphTypeOK'
    <3>0. \E b \in BOOLEAN : answer' = [from |-> x, to |-> y, accepted |-> b]  OBVIOUS
    <3> HIDE DEF InsertEdge
    <3>1. answer' \in [from : Node, to : Node, accepted : BOOLEAN]  BY <1>0, <3>0
    <3> USE DEF InsertEdge
    <3>2. {} \in SUBSET nodes  OBVIOUS
    <3>. QED  BY <1>0, <3>1, <3>2 DEF IInv, GraphTypeOK
  <2>2. (Ranks /\ Lists)'  BY <1>0 DEF IInv, Ranks, Lists
  <2>3. \A u, v : IsEdge(u, v)' <=> IsEdge(u, v)  BY DEF IsEdge
  <2>4. Ordered'  BY <1>0, <2>3 DEF IInv, Ordered
  <2>5. (Rest /\ Search /\ Forwards /\ Backwards)'
    BY DEF IInv, Rest, Search, Forwards, Backwards
  <2>6. Edges' = Edges  BY <1>0, <2>3, SameEdges
  <2>7. Graph!Reaches(Edges, y, x)  BY ReachesSelf
  <2>8. Step  BY <1>0, <2>6, <2>7 DEF Step, Graph!Next, Graph!InsertEdge
  <2>. QED  BY <2>1, <2>2, <2>4, <2>5, <2>8 DEF IInv
<1>2. ASSUME x # y
      PROVE  /\ out' \in [Node -> SUBSET nodes] /\ in' \in [Node -> SUBSET nodes]
             /\ \A u \in Node : /\ out'[u] = IF u = x THEN out[u] \cup {y} ELSE out[u]
                               /\ in'[u] = IF u = y THEN in[u] \cup {x} ELSE in[u]
             /\ Ranks' /\ Lists'
  <2>1. /\ out' \in [Node -> SUBSET nodes] /\ in' \in [Node -> SUBSET nodes]
        /\ \A u \in Node : /\ out'[u] = IF u = x THEN out[u] \cup {y} ELSE out[u]
                          /\ in'[u] = IF u = y THEN in[u] \cup {x} ELSE in[u]
    BY <1>0, <1>2 DEF IInv, GraphTypeOK
  <2>2. Ranks'  BY <1>0, <1>2 DEF IInv, Ranks
  <2>3. Lists'  BY <1>0, <2>1, NodesAre DEF IInv, Lists
  <2>. QED  BY <2>1, <2>2, <2>3
<1>3. CASE x # y /\ (y \in out[x] \/ rank[x] <= rank[y])
  <2> USE <1>3 DEF Return
  <2>1. GraphTypeOK'
    <3>0. \E b \in BOOLEAN : answer' = [from |-> x, to |-> y, accepted |-> b]  OBVIOUS
    <3> HIDE DEF InsertEdge
    <3>1. answer' \in [from : Node, to : Node, accepted : BOOLEAN]  BY <1>0, <3>0
    <3> USE DEF InsertEdge
    <3>2. {} \in SUBSET nodes  OBVIOUS
    <3>. QED  BY <1>0, <1>2, <3>1, <3>2 DEF IInv, GraphTypeOK
  <2>2. rank[x] < rank[y]
    <3>1. rank[x] # rank[y]  BY DEF IInv, Ranks
    <3>2. y \in out[x] => rank[x] < rank[y]  BY DEF IInv, Ordered, IsEdge
    <3>. QED  BY <1>0, <3>1, <3>2
  <2>3. \A u, v \in nodes : IsEdge(u, v)' <=> IsEdge(u, v) \/ (u = x /\ v = y)
    BY <1>0, <1>2, NodesAre DEF IsEdge, IInv
  <2>4. Ordered'  BY <1>0, <2>2, <2>3 DEF IInv, Ordered
  <2>5. (Rest /\ Search /\ Forwards /\ Backwards)'
    BY DEF IInv, Rest, Search, Forwards, Backwards
  <2>6. Edges' = Edges \cup {<<x, y>>}
    <3>1. Edges = {e \in nodes \X nodes : IsEdge(e[1], e[2])}  BY DEF Edges, IsEdge
    <3>2. Edges' = {e \in nodes \X nodes : IsEdge(e[1], e[2])'}  BY <1>0 DEF Edges, IsEdge
    <3>. QED  BY <2>3, <3>1, <3>2
  <2>7. ~Graph!Reaches(Edges, y, x)  BY <2>2, NotDown DEF Reaches
  <2>8. Step  BY <1>0, <2>6, <2>7 DEF Step, Graph!Next, Graph!InsertEdge
  <2>. QED  BY <1>2, <2>1, <2>4, <2>5, <2>8 DEF IInv
<1>4. CASE x # y /\ y \notin out[x] /\ ~(rank[x] <= rank[y])
  <2> USE <1>4
  <2>0. /\ phase' = "forward" /\ from' = x /\ to' = y /\ phase = "idle" /\ stack_' = {y}
        /\ UNCHANGED <<deltaf_, deltab_, answer, size, rank, visited>>
    OBVIOUS
  <2> HIDE DEF InsertEdge
  <2>1. GraphTypeOK'
    <3>1. {y} \in SUBSET nodes  OBVIOUS
    <3>. QED  BY <1>0, <1>2, <2>0, <3>1 DEF IInv, GraphTypeOK
  <2>2. \A u, v \in nodes : IsEdge(u, v)' <=> IsEdge(u, v)
    BY <1>0, <1>2, <2>0, NodesAre DEF IsEdge, IInv
  <2>3. Ordered'  BY <1>0, <2>0, <2>2 DEF IInv, Ordered
  <2>4. Edges' = Edges  BY <1>0, <2>2, SameEdges
  <2>5. (Rest /\ Search)'
    <3>1. y \in out'[x] /\ rank[y] < rank[x]  BY <1>0, <1>2
    <3>2. visited = {} /\ deltaf_ = {} /\ deltab_ = {}  BY <2>0 DEF IInv, Rest
    <3>. QED  BY <1>0, <2>0, <3>1, <3>2 DEF Rest, Search
  <2>6. Forwards'
    <3>1. Reaches(to, y)'  BY <2>0, ReachesSelf DEF Reaches
    <3>2. ForwardOpen' = {y} /\ deltaf_' = {} /\ deltab_' = {}
      BY <2>0 DEF IInv, Rest, ForwardOpen
    <3>3. rank[y] <= rank[y] /\ rank[y] < rank[x]  BY <1>0
    <3>. QED  BY <1>0, <2>0, <3>1, <3>2, <3>3 DEF Forwards
  <2>7. Backwards'  BY <2>0 DEF Backwards
  <2>8. Step  BY <1>0, <2>0, <2>4 DEF Step
  <2>. QED  BY <1>2, <2>1, <2>3, <2>5, <2>6, <2>7, <2>8 DEF IInv
<1>. QED  BY <1>1, <1>3, <1>4

\* While a search goes on, the edges and the order stay.
LEMMA SearchFrame ==
  ASSUME IInv, UNCHANGED <<size, rank, in, out, from, to, answer>>,
         phase # "idle", phase' # "idle"
  PROVE  /\ (Ranks /\ Lists /\ Ordered /\ Rest)'
         /\ nodes' = nodes /\ Edges' = Edges /\ Step
         /\ \A x, y : Reaches(x, y)' <=> Reaches(x, y)
<1>1. nodes' = nodes  BY DEF nodes
<1>2. \A x, y : IsEdge(x, y)' <=> IsEdge(x, y)  BY DEF IsEdge
<1>3. Edges' = Edges  BY <1>1, <1>2, SameEdges
<1>4. (Ranks /\ Lists /\ Ordered /\ Rest)'
  BY <1>1, <1>2 DEF IInv, Ranks, Lists, Ordered, Rest
<1>5. \A x, y : Reaches(x, y)' <=> Reaches(x, y)  BY <1>3 DEF Reaches
<1>. QED  BY <1>1, <1>3, <1>4, <1>5 DEF Step

\* An edge of a node found forward is not the one that is being looked at.
LEMMA ForwardEdge ==
  ASSUME IInv, phase # "idle",
         NEW n \in nodes, rank[n] < rank[from], NEW w \in out[n]
  PROVE  w \in nodes /\ <<n, w>> \in Edges /\ rank[n] < rank[w]
<1>1. w \in nodes  BY NodesAre DEF IInv, GraphTypeOK
<1>2. n # from  BY NodesAre DEF IInv
<1>3. IsEdge(n, w)  BY <1>2 DEF IsEdge
<1>. QED  BY <1>1, <1>3, EdgesAre DEF IInv, Ordered

\* Nor is one into a node found backward.
LEMMA BackwardEdge ==
  ASSUME IInv, phase # "idle",
         NEW n \in nodes, rank[to] < rank[n], NEW w \in in[n]
  PROVE  w \in nodes /\ <<w, n>> \in Edges /\ rank[w] < rank[n]
<1>1. w \in nodes  BY NodesAre DEF IInv, GraphTypeOK
<1>2. n # to  BY NodesAre DEF IInv
<1>3. n \in out[w]  BY <1>1 DEF IInv, Lists
<1>4. IsEdge(w, n)  BY <1>2, <1>3 DEF IsEdge
<1>. QED  BY <1>1, <1>4, EdgesAre DEF IInv, Ordered

LEMMA ForwardDFSStep ==
  ASSUME IInv, ForwardDFS
  PROVE  IInv' /\ Step
<1> PICK n \in stack_ :
       /\ \A w \in out[n] : rank[w] # rank[from]
       /\ visited' = visited \cup {n}
       /\ deltaf_' = deltaf_ \cup {n}
       /\ stack_' = (stack_ \ {n}) \cup {w \in out[n] : w \notin visited' /\ rank[w] < rank[from]}
  BY DEF ForwardDFS
<1>0. /\ phase = "forward" /\ phase' = "forward"
      /\ UNCHANGED <<size, rank, in, out, deltab_, from, to, answer>>
  BY DEF ForwardDFS
<1>1. /\ (Ranks /\ Lists /\ Ordered /\ Rest)' /\ nodes' = nodes /\ Step
      /\ Edges' = Edges /\ \A x, y : Reaches(x, y)' <=> Reaches(x, y)
  BY <1>0, SearchFrame
<1>2. /\ stack_ \in SUBSET nodes /\ n \in nodes /\ deltaf_ \in SUBSET nodes
      /\ visited \in SUBSET nodes
  BY DEF IInv, GraphTypeOK
<1>3. /\ deltab_ = {} /\ visited = deltaf_ /\ ForwardOpen = stack_ /\ ForwardOpen' = stack_'
      /\ from \in nodes /\ to \in nodes /\ to \in out[from] /\ rank[to] < rank[from]
      /\ to \in deltaf_ \cup stack_
      /\ rank[to] <= rank[n] /\ rank[n] < rank[from] /\ Reaches(to, n)
  BY <1>0 DEF IInv, Search, Forwards, ForwardOpen
<1>4. \A w \in out[n] : /\ w \in nodes /\ rank[n] < rank[w] /\ Reaches(to, w)
                        /\ rank[w] \in Int /\ rank[n] \in Int /\ rank[to] \in Int /\ rank[from] \in Int
  <2> SUFFICES ASSUME NEW w \in out[n]
               PROVE  /\ w \in nodes /\ rank[n] < rank[w] /\ Reaches(to, w)
                      /\ rank[w] \in Int /\ rank[n] \in Int /\ rank[to] \in Int /\ rank[from] \in Int
    OBVIOUS
  <2>1. w \in nodes /\ <<n, w>> \in Edges /\ rank[n] < rank[w]
    BY <1>0, <1>2, <1>3, ForwardEdge
  <2>2. Reaches(to, w)  BY <1>3, <2>1, ReachesOn DEF Reaches
  <2>. QED  BY <1>2, <1>3, <2>1, <2>2, NodesAre DEF IInv
<1>5. GraphTypeOK'
  <2>1. stack_' \in SUBSET nodes  BY <1>2, <1>4
  <2>. QED  BY <1>0, <1>1, <1>2, <2>1 DEF IInv, GraphTypeOK
<1>6. Search'  BY <1>0, <1>1, <1>3 DEF Search
<1>7. Forwards'
  <2>1. to \in deltaf_' \cup stack_'  BY <1>3
  <2>2. ASSUME NEW m \in deltaf_' \cup stack_'
        PROVE  rank[to] <= rank[m] /\ rank[m] < rank[from] /\ Reaches(to, m)
    <3>1. CASE m \in deltaf_ \cup stack_  BY <1>0, <1>3, <3>1 DEF IInv, Forwards
    <3>2. CASE m \in out[n] /\ rank[m] < rank[from]  BY <1>3, <1>4, <3>2
    <3>. QED  BY <2>2, <3>1, <3>2
  <2>3. ASSUME NEW m \in deltaf_', NEW w \in out[m]
        PROVE  w \in deltaf_' \cup stack_' \/ rank[from] < rank[w]
    <3>1. CASE m = n  BY <1>3, <1>4, <3>1
    <3>2. CASE m \in deltaf_
      <4>1. w \in deltaf_ \cup stack_ \/ rank[from] < rank[w]
        BY <1>0, <1>3, <3>2 DEF IInv, Forwards
      <4>. QED  BY <4>1
    <3>. QED  BY <3>1, <3>2
  <2>. QED  BY <1>0, <1>1, <1>3, <2>1, <2>2, <2>3 DEF Forwards
<1>8. Backwards'  BY <1>0 DEF Backwards
<1>. QED  BY <1>1, <1>5, <1>6, <1>7, <1>8 DEF IInv

LEMMA RefuseStep ==
  ASSUME IInv, Refuse
  PROVE  IInv' /\ Step
<1> PICK n \in stack_ :
       /\ \E w \in out[n] : rank[w] = rank[from]
       /\ visited' = (visited \cup {n}) \ (deltaf_ \cup {n})
  BY DEF Refuse
<1> PICK w \in out[n] : rank[w] = rank[from]
  OBVIOUS
<1>0. /\ phase = "forward" /\ phase' = "idle"
      /\ out' = [out EXCEPT ![from] = @ \ {to}] /\ in' = [in EXCEPT ![to] = @ \ {from}]
      /\ answer' = [from |-> from, to |-> to, accepted |-> FALSE]
      /\ stack_' = {} /\ deltaf_' = {} /\ deltab_' = {} /\ from' = None /\ to' = None
      /\ size' = size /\ rank' = rank
  BY DEF Refuse, Return
<1>1. /\ n \in nodes /\ from \in nodes /\ to \in nodes /\ rank[n] < rank[from]
      /\ visited = deltaf_ /\ Reaches(to, n)
  BY <1>0 DEF IInv, GraphTypeOK, Search, Forwards, ForwardOpen
<1>2. nodes' = nodes /\ nodes \subseteq Node  BY <1>0, NodesAre DEF IInv, nodes
<1>3. /\ out' \in [Node -> SUBSET nodes] /\ in' \in [Node -> SUBSET nodes]
      /\ \A u \in Node : /\ out'[u] = IF u = from THEN out[u] \ {to} ELSE out[u]
                        /\ in'[u] = IF u = to THEN in[u] \ {from} ELSE in[u]
  BY <1>0, <1>1, <1>2 DEF IInv, GraphTypeOK
<1>4. visited' = {}  BY <1>1
<1>5. GraphTypeOK'
  <2>1. answer' \in [from : Node, to : Node, accepted : BOOLEAN]  BY <1>0, <1>1, <1>2
  <2>2. {} \in SUBSET nodes  OBVIOUS
  <2>. QED  BY <1>0, <1>2, <1>3, <1>4, <2>1, <2>2 DEF IInv, GraphTypeOK
<1>6. Ranks' /\ Lists'  BY <1>0, <1>1, <1>2, <1>3 DEF IInv, Ranks, Lists
<1>7. \A u, v \in nodes : IsEdge(u, v)' <=> IsEdge(u, v)
  BY <1>0, <1>2, <1>3 DEF IsEdge
<1>8. Ordered'  BY <1>0, <1>2, <1>7 DEF IInv, Ordered
<1>9. (Rest /\ Search /\ Forwards /\ Backwards)'
  BY <1>0, <1>4 DEF Rest, Search, Forwards, Backwards
<1>10. Edges' = Edges  BY <1>2, <1>7, SameEdges
<1>11. Graph!Reaches(Edges, to, from)
  <2>1. w \in nodes /\ <<n, w>> \in Edges  BY <1>0, <1>1, ForwardEdge
  <2>2. w = from  BY <1>1, <2>1 DEF IInv, Ranks
  <2>. QED  BY <1>1, <2>1, <2>2, ReachesOn DEF Reaches
<1>12. Step  BY <1>0, <1>1, <1>2, <1>10, <1>11 DEF Step, Graph!Next, Graph!InsertEdge
<1>. QED  BY <1>5, <1>6, <1>8, <1>9, <1>12 DEF IInv

LEMMA ForwardDoneStep ==
  ASSUME IInv, ForwardDone
  PROVE  IInv' /\ Step
<1>0. /\ phase = "forward" /\ phase' = "backward" /\ stack_ = {} /\ stack_' = {from}
      /\ UNCHANGED <<size, rank, visited, in, out, deltaf_, deltab_, from, to, answer>>
  BY DEF ForwardDone
<1>1. /\ (Ranks /\ Lists /\ Ordered /\ Rest)' /\ nodes' = nodes /\ Step
      /\ Edges' = Edges /\ \A x, y : Reaches(x, y)' <=> Reaches(x, y)
  BY <1>0, SearchFrame
<1>2. /\ from \in nodes /\ to \in nodes /\ rank[to] < rank[from] /\ deltab_ = {}
  BY <1>0 DEF IInv, Search, Forwards
<1>3. GraphTypeOK'
  <2>1. {from} \in SUBSET nodes  BY <1>2
  <2>. QED  BY <1>0, <1>1, <2>1 DEF IInv, GraphTypeOK
<1>4. Search'  BY <1>0, <1>1 DEF IInv, Search
<1>5. Forwards'
  <2>1. ForwardOpen = {} /\ ForwardOpen' = {}  BY <1>0 DEF ForwardOpen
  <2>. QED  BY <1>0, <1>1, <2>1 DEF IInv, Forwards
<1>6. Backwards'
  <2>1. Reaches(from, from)  BY ReachesSelf DEF Reaches
  <2>2. rank[from] <= rank[from]  BY <1>2, NodesAre DEF IInv
  <2>. QED  BY <1>0, <1>1, <1>2, <2>1, <2>2 DEF Backwards
<1>. QED  BY <1>1, <1>3, <1>4, <1>5, <1>6 DEF IInv

LEMMA BackwardDFSStep ==
  ASSUME IInv, BackwardDFS
  PROVE  IInv' /\ Step
<1> PICK n \in stack_ :
       /\ visited' = visited \cup {n}
       /\ deltab_' = deltab_ \cup {n}
       /\ stack_' = (stack_ \ {n}) \cup {w \in in[n] : w \notin visited' /\ rank[to] < rank[w]}
  BY DEF BackwardDFS
<1>0. /\ phase = "backward" /\ phase' = "backward"
      /\ UNCHANGED <<size, rank, in, out, deltaf_, from, to, answer>>
  BY DEF BackwardDFS
<1>1. /\ (Ranks /\ Lists /\ Ordered /\ Rest)' /\ nodes' = nodes /\ Step
      /\ Edges' = Edges /\ \A x, y : Reaches(x, y)' <=> Reaches(x, y)
  BY <1>0, SearchFrame
<1>2. /\ stack_ \in SUBSET nodes /\ n \in nodes /\ deltab_ \in SUBSET nodes
      /\ visited \in SUBSET nodes
  BY DEF IInv, GraphTypeOK
<1>3. /\ visited = deltaf_ \cup deltab_ /\ ForwardOpen = {} /\ ForwardOpen' = {}
      /\ from \in nodes /\ to \in nodes /\ to \in out[from] /\ rank[to] < rank[from]
      /\ from \in deltab_ \cup stack_
      /\ rank[to] < rank[n] /\ rank[n] <= rank[from] /\ Reaches(n, from)
  BY <1>0 DEF IInv, Search, Backwards, ForwardOpen
<1>4. \A w \in in[n] : /\ w \in nodes /\ rank[w] < rank[n] /\ Reaches(w, from) /\ w \notin deltaf_
                       /\ rank[w] \in Int /\ rank[n] \in Int /\ rank[to] \in Int /\ rank[from] \in Int
  <2> SUFFICES ASSUME NEW w \in in[n]
               PROVE  /\ w \in nodes /\ rank[w] < rank[n] /\ Reaches(w, from) /\ w \notin deltaf_
                      /\ rank[w] \in Int /\ rank[n] \in Int /\ rank[to] \in Int /\ rank[from] \in Int
    OBVIOUS
  <2>1. w \in nodes /\ <<w, n>> \in Edges /\ rank[w] < rank[n]
    BY <1>0, <1>2, <1>3, BackwardEdge
  <2>2. Reaches(w, from)  BY <1>3, <2>1, ReachesBack DEF Reaches
  <2>3. w \notin deltaf_  BY <1>0, <1>3, <2>2, NoWayBack
  <2>. QED  BY <1>2, <1>3, <2>1, <2>2, <2>3, NodesAre DEF IInv
<1>5. GraphTypeOK'
  <2>1. stack_' \in SUBSET nodes  BY <1>2, <1>4
  <2>. QED  BY <1>0, <1>1, <1>2, <2>1 DEF IInv, GraphTypeOK
<1>6. Search'  BY <1>0, <1>1, <1>3 DEF Search
<1>7. Forwards'  BY <1>0, <1>1, <1>3 DEF IInv, Forwards
<1>8. Backwards'
  <2>1. from \in deltab_' \cup stack_'  BY <1>3
  <2>2. ASSUME NEW m \in deltab_' \cup stack_'
        PROVE  rank[to] < rank[m] /\ rank[m] <= rank[from] /\ Reaches(m, from)
    <3>1. CASE m \in deltab_ \cup stack_  BY <1>0, <1>3, <3>1 DEF IInv, Backwards
    <3>2. CASE m \in in[n] /\ rank[to] < rank[m]  BY <1>3, <1>4, <3>2
    <3>. QED  BY <2>2, <3>1, <3>2
  <2>3. ASSUME NEW m \in deltab_', NEW w \in in[m]
        PROVE  w \in deltab_' \cup stack_' \/ rank[w] <= rank[to]
    <3>1. CASE m = n  BY <1>3, <1>4, <3>1
    <3>2. CASE m \in deltab_
      <4>1. w \in deltab_ \cup stack_ \/ rank[w] <= rank[to]
        BY <1>0, <1>3, <3>2 DEF IInv, Backwards
      <4>. QED  BY <4>1
    <3>. QED  BY <3>1, <3>2
  <2>. QED  BY <1>0, <1>1, <2>1, <2>2, <2>3 DEF Backwards
<1>. QED  BY <1>1, <1>5, <1>6, <1>7, <1>8 DEF IInv

LEMMA TakeAnswerStep ==
  ASSUME IInv, TakeAnswer
  PROVE  IInv' /\ Step
<1> USE DEF TakeAnswer
<1>1. nodes' = nodes  BY DEF nodes
<1>2. \A x, y : IsEdge(x, y)' <=> IsEdge(x, y)  BY DEF IsEdge
<1>3. Edges' = Edges  BY <1>1, <1>2, SameEdges
<1>4. \A x, y : Reaches(x, y)' <=> Reaches(x, y)  BY <1>3 DEF Reaches
<1>5. ForwardOpen' = ForwardOpen  BY DEF ForwardOpen
<1>6. GraphTypeOK'  BY <1>1 DEF IInv, GraphTypeOK
<1>7. (Ranks /\ Lists /\ Ordered /\ Rest /\ Search)'
  BY <1>1, <1>2 DEF IInv, Ranks, Lists, Ordered, Rest, Search
<1>8. (Forwards /\ Backwards)'  BY <1>1, <1>4, <1>5 DEF IInv, Forwards, Backwards
<1>9. Step  BY <1>1, <1>3 DEF Step, Graph!Next, Graph!Take
<1>. QED  BY <1>6, <1>7, <1>8, <1>9 DEF IInv

LEMMA ReorderStep ==
  ASSUME IInv, Reorder
  PROVE  IInv' /\ Step
<1> DEFINE D == deltab_ \cup deltaf_
           merged == {rank[n] : n \in D}
<1> PICK new \in [D -> merged] :
       /\ \A r \in merged : \E n \in D : new[n] = r
       /\ \A u, v \in D : Before(u, v) => new[u] < new[v]
       /\ rank' = [n \in Node |-> IF n \in D THEN new[n] ELSE rank[n]]
  BY DEF Reorder
<1>0. /\ phase = "backward" /\ phase' = "idle" /\ stack_ = {} /\ visited' = visited \ D
      /\ answer' = [from |-> from, to |-> to, accepted |-> TRUE]
      /\ stack_' = {} /\ deltaf_' = {} /\ deltab_' = {} /\ from' = None /\ to' = None
      /\ UNCHANGED <<size, in, out>>
  BY DEF Reorder, Return
<1>1. /\ ForwardOpen = {} /\ visited = D
      /\ from \in nodes /\ to \in nodes /\ from \in deltab_ /\ to \in deltaf_
  BY <1>0 DEF IInv, Search, Forwards, Backwards, ForwardOpen
<1>2. nodes' = nodes /\ nodes \subseteq Node /\ D \subseteq nodes
  BY <1>0, NodesAre DEF IInv, nodes, GraphTypeOK
<1>3. \A n \in nodes : rank[n] \in Int /\ rank[n] \in nodes
  BY <1>2, NodesAre DEF IInv, Ranks
<1>4. \A n \in deltab_ : n \notin deltaf_
  BY <1>0, <1>1, NoWayBack DEF IInv, Backwards
<1>5. \A n \in D : rank[to] <= rank[n] /\ rank[n] <= rank[from]
  BY <1>0, <1>1, <1>2, <1>3 DEF IInv, Forwards, Backwards
<1>6. \A n \in D : \E m \in D : new[n] = rank[m]
  OBVIOUS
<1>7. \A n \in D : /\ new[n] \in nodes /\ new[n] \in Int
                   /\ rank[to] <= new[n] /\ new[n] <= rank[from]
  BY <1>2, <1>3, <1>5, <1>6
<1>8. /\ \A u \in deltab_ : new[u] <= rank[u]
      /\ \A u \in deltaf_ : rank[u] <= new[u]
      /\ \A u, v \in D : new[u] = new[v] => u = v
  <2>1. IsFiniteSet(D)
    <3>1. IsFiniteSet(Node)  BY MaxNodesAssumption, FS_Interval DEF Node
    <3>. QED  BY <1>2, <3>1, FS_Subset
  <2>2. \A u \in D : rank[u] \in Int /\ new[u] \in Int  BY <1>2, <1>3, <1>7
  <2>3. \A u, v \in D : rank[u] = rank[v] => u = v  BY <1>2 DEF IInv, Ranks
  <2>4. \A u \in D : \E w \in D : new[w] = rank[u]  OBVIOUS
  <2>5. \A u, v \in D : (IF u \in deltab_ <=> v \in deltab_ THEN rank[u] < rank[v]
                        ELSE u \in deltab_) => new[u] < new[v]
    BY DEF Before
  <2>6. deltab_ \in SUBSET D  OBVIOUS
  <2>7. HandedOut(D, deltab_, rank, new)
    BY <2>1, <2>2, <2>3, <2>4, <2>5, <2>6 DEF HandedOut
  <2> HIDE DEF D, merged
  <2>8. /\ \A u \in deltab_ : new[u] <= rank[u]
        /\ \A u \in D \ deltab_ : rank[u] <= new[u]
        /\ \A u, v \in D : new[u] = new[v] => u = v
    BY <2>7, ReorderMoves
  <2>. QED  BY <1>4, <2>8 DEF D
<1>9. /\ \A u, v \in D : Before(u, v) => new[u] < new[v]
      /\ \A n \in Node : rank'[n] = IF n \in D THEN new[n] ELSE rank[n]
  OBVIOUS
<1>10. rank' \in [Node -> Node]
  BY <1>2, <1>7, NodesAre DEF IInv
<1> HIDE DEF merged
<1>11. Ranks'
  <2>1. ASSUME NEW x \in nodes PROVE rank'[x] \in nodes
    BY <1>2, <1>3, <1>7, <1>9
  <2>2. ASSUME NEW x \in nodes, NEW y \in nodes, rank'[x] = rank'[y] PROVE x = y
    <3>1. \A u \in D, v \in nodes \ D : new[u] # rank[v]
      BY <1>2, <1>6 DEF IInv, Ranks
    <3>. QED
      <4> HIDE DEF D
      <4>. QED  BY <1>2, <1>8, <1>9, <2>2, <3>1 DEF IInv, Ranks
  <2>. QED  BY <1>2, <2>1, <2>2 DEF Ranks
<1>12. Ordered'
  <2> SUFFICES ASSUME NEW x \in nodes, NEW y \in nodes, y \in out[x]
               PROVE  rank'[x] < rank'[y]
    BY <1>0, <1>2 DEF Ordered, IsEdge
  <2>1. (x # from \/ y # to) => rank[x] < rank[y]  BY DEF IInv, Ordered, IsEdge
  <2>2. x \in Node /\ y \in Node /\ rank[x] \in Int /\ rank[y] \in Int
    BY <1>2, <1>3
  <2>3. CASE x \in deltab_
    <3>1. CASE y \in D
      <4>1. Before(x, y)  BY <1>1, <1>4, <2>1, <2>3, <3>1 DEF Before
      <4>. QED  BY <1>9, <2>2, <2>3, <3>1, <4>1
    <3>2. CASE y \notin D
      <4>1. rank[x] < rank[y]  BY <1>1, <2>1, <3>2
      <4>2. rank'[x] = new[x] /\ rank'[y] = rank[y] /\ new[x] <= rank[x] /\ new[x] \in Int
        BY <1>7, <1>8, <1>9, <2>2, <2>3, <3>2
      <4>. QED  BY <2>2, <4>1, <4>2
    <3>. QED  BY <3>1, <3>2
  <2>4. CASE x \in deltaf_
    <3>1. y \in deltaf_ \/ rank[from] < rank[y]
      BY <1>0, <1>1, <2>4 DEF IInv, Forwards
    <3>2. rank[x] < rank[y]  BY <1>1, <1>4, <2>1, <2>4
    <3>3. rank[from] \in Int  BY <1>1, <1>3
    <3>4. CASE y \in deltaf_
      <4>1. Before(x, y)  BY <1>4, <2>4, <3>2, <3>4 DEF Before
      <4>. QED  BY <1>9, <2>2, <2>4, <3>4, <4>1
    <3>5. CASE rank[from] < rank[y]
      <4>1. y \notin D  BY <1>5, <2>2, <3>3, <3>5
      <4>2. rank'[x] = new[x] /\ rank'[y] = rank[y] /\ new[x] <= rank[from] /\ new[x] \in Int
        BY <1>7, <1>9, <2>2, <2>4, <4>1
      <4>. QED  BY <2>2, <3>3, <3>5, <4>2
    <3>. QED  BY <3>1, <3>4, <3>5
  <2>5. CASE x \notin D
    <3>1. rank[x] < rank[y]  BY <1>1, <2>1, <2>5
    <3>2. rank'[x] = rank[x]  BY <1>9, <2>2, <2>5
    <3>3. rank[to] \in Int  BY <1>1, <1>3
    <3>4. CASE y \in deltab_
      <4>1. x \in in[y]  BY DEF IInv, Lists
      <4>2. rank[x] <= rank[to]  BY <1>0, <2>5, <3>4, <4>1 DEF IInv, Backwards
      <4>3. rank[x] # rank[to]  BY <1>1, <2>5 DEF IInv, Ranks
      <4>4. rank'[y] = new[y] /\ rank[to] <= new[y] /\ new[y] \in Int
        BY <1>7, <1>9, <2>2, <3>4
      <4>. QED  BY <2>2, <3>2, <3>3, <4>2, <4>3, <4>4
    <3>5. CASE y \in deltaf_
      <4>1. rank'[y] = new[y] /\ rank[y] <= new[y] /\ new[y] \in Int
        BY <1>7, <1>8, <1>9, <2>2, <3>5
      <4>. QED  BY <2>2, <3>1, <3>2, <4>1
    <3>6. CASE y \notin D  BY <1>9, <2>2, <3>1, <3>2, <3>6
    <3>. QED  BY <3>4, <3>5, <3>6
  <2>. QED  BY <2>3, <2>4, <2>5
<1>13. GraphTypeOK'
  <2>1. answer' \in [from : Node, to : Node, accepted : BOOLEAN]  BY <1>0, <1>1, <1>2
  <2>2. {} \in SUBSET nodes /\ visited' = {}  BY <1>0, <1>1
  <2>. QED  BY <1>0, <1>2, <1>10, <2>1, <2>2 DEF IInv, GraphTypeOK
<1>14. Lists'  BY <1>0, <1>2 DEF IInv, Lists
<1>15. (Rest /\ Search /\ Forwards /\ Backwards)'
  BY <1>0, <1>1 DEF Rest, Search, Forwards, Backwards
<1>16. Edges' = Edges \cup {<<from, to>>}
  <2>1. \A u, v \in nodes : IsEdge(u, v)' <=> IsEdge(u, v) \/ (u = from /\ v = to)
    BY <1>0 DEF IsEdge, IInv, Search
  <2>2. Edges = {e \in nodes \X nodes : IsEdge(e[1], e[2])}  BY DEF Edges, IsEdge
  <2>3. Edges' = {e \in nodes \X nodes : IsEdge(e[1], e[2])'}  BY <1>2 DEF Edges, IsEdge
  <2>. QED  BY <1>1, <2>1, <2>2, <2>3
<1>17. ~Graph!Reaches(Edges, to, from)  BY <1>0, <1>1, NoWayBack DEF Reaches
<1>18. Step  BY <1>0, <1>1, <1>2, <1>16, <1>17 DEF Step, Graph!Next, Graph!InsertEdge
<1>. QED  BY <1>11, <1>12, <1>13, <1>14, <1>15, <1>18 DEF IInv

-----------------------------------------------------------------------------
(* The theorems *)

LEMMA StutterStep ==
  ASSUME IInv, UNCHANGED graphVars
  PROVE  IInv' /\ Step
<1> USE DEF graphVars
<1>1. nodes' = nodes  BY DEF nodes
<1>2. \A x, y : IsEdge(x, y)' <=> IsEdge(x, y)  BY DEF IsEdge
<1>3. Edges' = Edges  BY <1>1, <1>2, SameEdges
<1>4. \A x, y : Reaches(x, y)' <=> Reaches(x, y)  BY <1>3 DEF Reaches
<1>5. ForwardOpen' = ForwardOpen  BY DEF ForwardOpen
<1>6. GraphTypeOK'  BY <1>1 DEF IInv, GraphTypeOK
<1>7. (Ranks /\ Lists /\ Ordered /\ Rest /\ Search)'
  BY <1>1, <1>2 DEF IInv, Ranks, Lists, Ordered, Rest, Search
<1>8. (Forwards /\ Backwards)'  BY <1>1, <1>4, <1>5 DEF IInv, Forwards, Backwards
<1>. QED  BY <1>1, <1>3, <1>6, <1>7, <1>8 DEF IInv, Step

LEMMA GraphStep ==
  ASSUME IInv, [GraphNext]_graphVars
  PROVE  IInv' /\ Step
<1>1. CASE NewNode  BY <1>1, NewNodeStep
<1>2. ASSUME NEW x \in nodes, NEW y \in nodes, InsertEdge(x, y) PROVE IInv' /\ Step
  BY <1>2, InsertEdgeStep
<1>3. CASE ForwardDFS  BY <1>3, ForwardDFSStep
<1>4. CASE Refuse  BY <1>4, RefuseStep
<1>5. CASE ForwardDone  BY <1>5, ForwardDoneStep
<1>6. CASE BackwardDFS  BY <1>6, BackwardDFSStep
<1>7. CASE Reorder  BY <1>7, ReorderStep
<1>8. CASE TakeAnswer  BY <1>8, TakeAnswerStep
<1>9. CASE UNCHANGED graphVars  BY <1>9, StutterStep
<1>. QED
  BY <1>1, <1>2, <1>3, <1>4, <1>5, <1>6, <1>7, <1>8, <1>9 DEF GraphNext, SearchStep

LEMMA GraphInvariant == GraphSpec => []IInv
<1>1. IInv /\ [GraphNext]_graphVars => IInv'  BY GraphStep
<1>. QED  BY <1>1, Initial, PTL DEF GraphSpec

\* Between calls the order is one, and the lists and marks are in order.
THEOREM RanksAreTopological == GraphSpec => [](GraphTypeOK /\ CheckInvariants)
<1>1. IInv => GraphTypeOK /\ CheckInvariants
  BY DEF IInv, CheckInvariants, Rest, Ranks, Ordered, Lists, IsEdge
<1>. QED  BY <1>1, GraphInvariant, PTL

\* The search decides, for any graph, whether an edge closes a cycle.
THEOREM CyclesAreRefused == GraphSpec => ImplementsAcyclicGraph
<1>1. IInv /\ [GraphNext]_graphVars => [Graph!Next]_<<nodes, Edges, answer>>
  BY GraphStep DEF Step
<1>. QED  BY <1>1, Initial, GraphInvariant, PTL DEF GraphSpec, ImplementsAcyclicGraph, Graph!Spec

=============================================================================

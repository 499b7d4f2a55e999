----------------------------- MODULE GraphCycles -----------------------------
(***************************************************************************)
(* The graph of the events checker (third_party/xla/graphcycles.cc), which  *)
(* keeps a topological order of its nodes, their ranks.  An edge against    *)
(* the order is inserted and then looked at: a search forward from its      *)
(* target, among lower ranks than the source's, finds the source, or else   *)
(* a search backward from the source finds the nodes to be put before those *)
(* of the first search.  A search is one step per node.                     *)
(*                                                                         *)
(* Lists of nodes are sets: the order in which a search takes nodes from    *)
(* its stack is free, and a node is there once, where the code skips one    *)
(* that it has met twice.  They are emptied after a search, not before the  *)
(* next.  The events checker removes neither nodes nor edges, so nodes are  *)
(* numbered from 0 without gaps.                                            *)
(***************************************************************************)
EXTENDS Integers

CONSTANTS
  MaxNodes,        \* bound: the nodes of the graph
  None

ASSUME MaxNodesAssumption == MaxNodes \in Nat

Node == 0 .. MaxNodes - 1

ASSUME NoAnswerAssumption ==
  \A x, y \in Node, b \in BOOLEAN : [from |-> x, to |-> y, accepted |-> b] # None

VARIABLES
  size, rank, visited,     \* nodes_
  in, out,                 \* node_io_
  stack_, deltaf_, deltab_,
  phase, from, to,         \* the insertion on its way
  answer                   \* of the last insertion, until the caller has read it

graphVars == <<size, rank, visited, in, out, stack_, deltaf_, deltab_, phase, from, to, answer>>

nodes == 0 .. size - 1

GraphTypeOK ==
  /\ size \in 0 .. MaxNodes
  /\ rank \in [Node -> Node]
  /\ in \in [Node -> SUBSET nodes] /\ out \in [Node -> SUBSET nodes]
  /\ {visited, stack_, deltaf_, deltab_} \subseteq SUBSET nodes
  /\ phase \in {"idle", "forward", "backward"}
  /\ from \in Node \cup {None} /\ to \in Node \cup {None}
  /\ answer \in [from : Node, to : Node, accepted : BOOLEAN] \cup {None}

GraphInit ==
  /\ size = 0
  /\ rank = [n \in Node |-> n]
  /\ in = [n \in Node |-> {}] /\ out = [n \in Node |-> {}]
  /\ visited = {} /\ stack_ = {} /\ deltaf_ = {} /\ deltab_ = {}
  /\ phase = "idle" /\ from = None /\ to = None
  /\ answer = None

-----------------------------------------------------------------------------

\* Mutant: ranks from 1.
NewNodeFromOne ==
  /\ phase = "idle" /\ size < MaxNodes
  /\ size' = size + 1
  /\ rank' = [rank EXCEPT ![size] = size + 1]
  /\ UNCHANGED <<visited, in, out, stack_, deltaf_, deltab_, phase, from, to, answer>>

NewNode ==
  /\ phase = "idle" /\ size < MaxNodes
  /\ size' = size + 1
  /\ rank' = [rank EXCEPT ![size] = size]
  /\ UNCHANGED <<visited, in, out, stack_, deltaf_, deltab_, phase, from, to, answer>>

Return(x, y, accepted) ==
  /\ answer' = [from |-> x, to |-> y, accepted |-> accepted]
  /\ phase' = "idle" /\ from' = None /\ to' = None
  /\ stack_' = {} /\ deltaf_' = {} /\ deltab_' = {}

\* An edge that is there, or that agrees with the order, needs no search.
InsertEdge(x, y) ==
  /\ phase = "idle"
  /\ IF x = y
     THEN /\ Return(x, y, FALSE)
          /\ UNCHANGED <<in, out>>
     ELSE /\ out' = [out EXCEPT ![x] = @ \cup {y}]
          /\ in' = [in EXCEPT ![y] = @ \cup {x}]
          /\ IF y \in out[x] \/ rank[x] <= rank[y]
             THEN Return(x, y, TRUE)
             ELSE /\ phase' = "forward" /\ from' = x /\ to' = y
                  /\ stack_' = {y}
                  /\ UNCHANGED <<deltaf_, deltab_, answer>>
  /\ UNCHANGED <<size, rank, visited>>

\* One node of ForwardDFS, when none of its successors is the source of the edge.
ForwardDFS ==
  /\ phase = "forward"
  /\ \E n \in stack_ :
       /\ \A w \in out[n] : rank[w] # rank[from]
       /\ visited' = visited \cup {n}
       /\ deltaf_' = deltaf_ \cup {n}
       /\ stack_' = (stack_ \ {n}) \cup {w \in out[n] : w \notin visited' /\ rank[w] < rank[from]}
  /\ UNCHANGED <<size, rank, in, out, deltab_, phase, from, to, answer>>

\* Mutant: the marks stay.
RefuseMarked ==
  /\ phase = "forward"
  /\ \E n \in stack_ :
       /\ \E w \in out[n] : rank[w] = rank[from]
       /\ visited' = visited \cup {n}
  /\ out' = [out EXCEPT ![from] = @ \ {to}]
  /\ in' = [in EXCEPT ![to] = @ \ {from}]
  /\ Return(from, to, FALSE)
  /\ UNCHANGED <<size, rank>>

\* A cycle: the edge is taken back, and the marks with it.
Refuse ==
  /\ phase = "forward"
  /\ \E n \in stack_ :
       /\ \E w \in out[n] : rank[w] = rank[from]
       /\ visited' = (visited \cup {n}) \ (deltaf_ \cup {n})
  /\ out' = [out EXCEPT ![from] = @ \ {to}]
  /\ in' = [in EXCEPT ![to] = @ \ {from}]
  /\ Return(from, to, FALSE)
  /\ UNCHANGED <<size, rank>>

ForwardDone ==
  /\ phase = "forward" /\ stack_ = {}
  /\ phase' = "backward"
  /\ stack_' = {from}
  /\ UNCHANGED <<size, rank, visited, in, out, deltaf_, deltab_, from, to, answer>>

BackwardDFS ==
  /\ phase = "backward"
  /\ \E n \in stack_ :
       /\ visited' = visited \cup {n}
       /\ deltab_' = deltab_ \cup {n}
       /\ stack_' = (stack_ \ {n}) \cup {w \in in[n] : w \notin visited' /\ rank[to] < rank[w]}
  /\ UNCHANGED <<size, rank, in, out, deltaf_, phase, from, to, answer>>

\* Mutant: the two lists are put together the wrong way round.
BeforeSwapped(u, v) == IF u \in deltaf_ <=> v \in deltaf_ THEN rank[u] < rank[v] ELSE u \in deltaf_

\* The order of list_: what leads to the source, then what the target leads to.
Before(u, v) == IF u \in deltab_ <=> v \in deltab_ THEN rank[u] < rank[v] ELSE u \in deltab_

\* The ranks of the nodes found are handed out again, in the order of list_.
Reorder ==
  LET list_ == deltab_ \cup deltaf_
      merged_ == {rank[n] : n \in list_}
  IN
  /\ phase = "backward" /\ stack_ = {}
  /\ \E new \in [list_ -> merged_] :
       /\ \A r \in merged_ : \E n \in list_ : new[n] = r
       /\ \A u, v \in list_ : Before(u, v) => new[u] < new[v]
       /\ rank' = [n \in Node |-> IF n \in list_ THEN new[n] ELSE rank[n]]
  /\ visited' = visited \ list_
  /\ Return(from, to, TRUE)
  /\ UNCHANGED <<size, in, out>>

TakeAnswer ==
  /\ answer' = None
  /\ UNCHANGED <<size, rank, visited, in, out, stack_, deltaf_, deltab_, phase, from, to>>

SearchStep == ForwardDFS \/ Refuse \/ ForwardDone \/ BackwardDFS \/ Reorder

GraphNext == NewNode \/ (\E x, y \in nodes : InsertEdge(x, y)) \/ SearchStep \/ TakeAnswer

GraphSpec == GraphInit /\ [][GraphNext]_graphVars

-----------------------------------------------------------------------------
(* Properties *)

(* CheckInvariants: between calls no node is marked, no two have the same   *)
(* rank, and every edge leads to a higher rank.  (And, though not checked   *)
(* there, the two lists of a node agree with those of its neighbours.)      *)
CheckInvariants ==
  phase = "idle" =>
    /\ visited = {}
    /\ \A x, y \in nodes : /\ x # y => rank[x] # rank[y]
                           /\ y \in out[x] => rank[x] < rank[y]
                           /\ y \in out[x] <=> x \in in[y]

\* The edge that is being looked at is not in the graph yet.
Edges ==
  {e \in nodes \X nodes : e[2] \in out[e[1]] /\ (phase = "idle" \/ e # <<from, to>>)}

Graph == INSTANCE AcyclicGraph WITH Node <- Node, nodes <- nodes, edges <- Edges, answer <- answer

(* An edge is refused if and only if the accepted ones lead back from its   *)
(* target to its source, although the search looks at few of them only.     *)
ImplementsAcyclicGraph == Graph!Spec

=============================================================================

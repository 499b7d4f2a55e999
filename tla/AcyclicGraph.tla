---------------------------- MODULE AcyclicGraph ----------------------------
(***************************************************************************)
(* What third_party/xla/graphcycles.h promises: a graph to which nodes and  *)
(* edges are added, and which has no cycle, because an edge that would      *)
(* close one is refused.                                                    *)
(***************************************************************************)
CONSTANTS
  Node,            \* bound: the nodes the graph may have
  None

VARIABLES nodes, edges, answer

\* y is in every set that holds x and what its members lead to.
Reaches(E, x, y) ==
  \A S \in SUBSET Node : x \in S /\ (\A e \in E : e[1] \in S => e[2] \in S) => y \in S

TypeOK ==
  /\ nodes \in SUBSET Node
  /\ edges \in SUBSET (nodes \X nodes)
  /\ answer \in [from : Node, to : Node, accepted : BOOLEAN] \cup {None}

Init == nodes = {} /\ edges = {} /\ answer = None

NewNode ==
  /\ \E n \in Node \ nodes : nodes' = nodes \cup {n}
  /\ UNCHANGED <<edges, answer>>

InsertEdge(x, y) ==
  \E accepted \in BOOLEAN :
    /\ answer' = [from |-> x, to |-> y, accepted |-> accepted]
    /\ accepted <=> ~Reaches(edges, y, x)
    /\ edges' = IF accepted THEN edges \cup {<<x, y>>} ELSE edges
    /\ UNCHANGED nodes

\* The caller has read the answer.
Take ==
  /\ answer' = None
  /\ UNCHANGED <<nodes, edges>>

Next == NewNode \/ (\E x, y \in nodes : InsertEdge(x, y)) \/ Take

Spec == Init /\ [][Next]_<<nodes, edges, answer>>

\* No edge leads back to where it came from.
Acyclic == \A e \in edges : ~Reaches(edges, e[2], e[1])

=============================================================================

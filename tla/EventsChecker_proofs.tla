------------------------ MODULE EventsChecker_proofs ------------------------
(***************************************************************************)
(* What is proved of the graph holds in the events checker: all it does to  *)
(* the graph is an operation of the graph, on nodes that are there (Maps).  *)
(*                                                                         *)
(* And the checker warns of what it promises to (EventWaits).  A use of an  *)
(* event has one node at most, and an event that has none is not used yet   *)
(* (UseInv); so a renewed event has nothing to do with its old node, and    *)
(* uses wait for each other as their nodes do (UsesReach).  Nodes that      *)
(* stand for no event, of actions that signal none, have no edge out        *)
(* (EdgeInv), and lead nowhere.  While the wait events of an action are     *)
(* looked at, the insertion on its way is that of the event looked at       *)
(* (AskInv), and its target stands for the present use of the signal event  *)
(* (SignalInv): the graph's answer is that of the abstract wait.            *)
(***************************************************************************)
EXTENDS EventsChecker, GraphCycles_proofs

Maps ==
  /\ eventToDagID \in [Event -> nodes \cup {invalidDagID, unknown}]
  /\ phWaitEvents # {} => this_action_new_node_id \in nodes

Inv == IInv /\ Maps

LEMMA NodesGrow ==
  ASSUME IInv
  PROVE  /\ NewNode => size \in nodes' /\ nodes \subseteq nodes'
         /\ size' = size => nodes' = nodes
BY MaxNodesAssumption DEF IInv, GraphTypeOK, NewNode, nodes

\* A step of the checker is one of the graph, or none.
LEMMA CheckerStep ==
  ASSUME Inv, [Next]_vars
  PROVE  [GraphNext]_graphVars /\ Maps'
<1> USE DEF Inv
<1>1. ASSUME NEW e \in Event, zeEventCreateEpilogue(e)
      PROVE  [GraphNext]_graphVars /\ Maps'
  <2>1. nodes' = nodes  BY <1>1, NodesGrow DEF zeEventCreateEpilogue, graphVars
  <2>. QED  BY <1>1, <2>1 DEF zeEventCreateEpilogue, callVars, Maps
<1>2. ASSUME NEW e \in Event, zeEventDestroyEpilogue(e)
      PROVE  [GraphNext]_graphVars /\ Maps'
  <2>1. nodes' = nodes  BY <1>2, NodesGrow DEF zeEventDestroyEpilogue, graphVars
  <2>. QED  BY <1>2, <2>1 DEF zeEventDestroyEpilogue, callVars, Maps
<1>3. ASSUME NEW e \in Event, resetEventInEventToDagID(e)
      PROVE  [GraphNext]_graphVars /\ Maps'
  <2>1. nodes' = nodes  BY <1>3, NodesGrow DEF resetEventInEventToDagID, graphVars
  <2>. QED  BY <1>3, <2>1 DEF resetEventInEventToDagID, callVars, Maps
<1>4. ASSUME NEW e \in Event, Placeholder(e)
      PROVE  [GraphNext]_graphVars /\ Maps'
  <2>1. NewNode /\ size \in nodes' /\ nodes \subseteq nodes'
    BY <1>4, NodesGrow DEF Placeholder
  <2>. QED  BY <1>4, <2>1 DEF Placeholder, Name, callVars, Maps, GraphNext
<1>5. ASSUME NEW e \in Event, addEdgeInDag(e)
      PROVE  [GraphNext]_graphVars /\ Maps'
  <2>1. eventToDagID[e] \in nodes /\ this_action_new_node_id \in nodes
    BY <1>5 DEF addEdgeInDag, HasNode, Maps
  <2>2. InsertEdge(eventToDagID[e], this_action_new_node_id)  BY <1>5 DEF addEdgeInDag
  <2>3. nodes' = nodes  BY <2>2, NodesGrow DEF InsertEdge
  <2>4. Maps'  BY <1>5, <2>3 DEF addEdgeInDag, mapVars, Maps
  <2>. QED  BY <2>1, <2>2, <2>4 DEF GraphNext
<1>6. ASSUME NEW s \in Event \cup {nullptr}, NEW waits \in SUBSET Event, checkForDeadlock(s, waits)
      PROVE  [GraphNext]_graphVars /\ Maps'
  <2> DEFINE node == IF s # nullptr /\ HasNode(s) THEN eventToDagID[s] ELSE size
  <2>1. CASE UNCHANGED <<graphVars, mapVars, this_action_new_node_id, phWaitEvents, useVars>>
    <3>1. nodes' = nodes  BY <2>1, NodesGrow DEF graphVars
    <3>. QED  BY <2>1, <3>1 DEF mapVars, Maps
  <2>2. CASE /\ LookAt(node, waits)
             /\ IF node # size
                THEN UNCHANGED <<graphVars, eventToDagID, useVars>>
                ELSE NewNode /\ IF s = nullptr THEN UNCHANGED <<eventToDagID, useVars>> ELSE Name(s)
    <3>1. CASE node # size
      <4>1. node \in nodes  BY <3>1 DEF HasNode, Maps
      <4>2. UNCHANGED <<graphVars, eventToDagID>>  BY <2>2, <3>1
      <4>3. nodes' = nodes  BY <4>2, NodesGrow DEF graphVars
      <4> HIDE DEF node
      <4>. QED  BY <2>2, <4>1, <4>2, <4>3 DEF LookAt, Maps
    <3>2. CASE node = size
      <4>1. NewNode /\ size \in nodes' /\ nodes \subseteq nodes'  BY <2>2, <3>2, NodesGrow
      <4>2. eventToDagID' \in [Event -> nodes' \cup {invalidDagID, unknown}]
        BY <2>2, <3>2, <4>1 DEF Name, Maps
      <4>3. phWaitEvents' # {} => this_action_new_node_id' = size
        BY <2>2, <3>2 DEF LookAt
      <4>. QED  BY <4>1, <4>2, <4>3 DEF Maps, GraphNext
    <3>. QED  BY <3>1, <3>2
  <2>. QED  BY <1>6, <2>1, <2>2 DEF checkForDeadlock
<1>7. CASE Searching
  <2>1. size' = size
    BY <1>7 DEF Searching, SearchStep, ForwardDFS, Refuse, ForwardDone, BackwardDFS, Reorder
  <2>2. nodes' = nodes  BY <2>1, NodesGrow
  <2>. QED  BY <1>7, <2>2 DEF Searching, mapVars, callVars, Maps, GraphNext
<1>8. CASE Warn
  <2>1. nodes' = nodes  BY <1>8, NodesGrow DEF Warn, TakeAnswer
  <2>. QED  BY <1>8, <2>1 DEF Warn, LookAt, mapVars, Maps, GraphNext
<1>9. CASE UNCHANGED vars
  <2>1. nodes' = nodes  BY <1>9, NodesGrow DEF vars, graphVars
  <2>. QED  BY <1>9, <2>1 DEF vars, mapVars, callVars, Maps
<1>. QED
  BY <1>1, <1>2, <1>3, <1>4, <1>5, <1>6, <1>7, <1>8, <1>9 DEF Next, appendPrologue

LEMMA CheckerInvariant == Spec => []Inv /\ GraphSpec
<1>1. Init => GraphInit /\ Inv
  <2> SUFFICES ASSUME Init PROVE GraphInit /\ Inv
    OBVIOUS
  <2>1. GraphInit /\ IInv  BY Initial DEF Init
  <2>2. Maps  BY DEF Init, Maps
  <2>. QED  BY <2>1, <2>2 DEF Inv
<1>2. Inv /\ [Next]_vars => [GraphNext]_graphVars /\ Inv'
  BY CheckerStep, GraphStep DEF Inv
<1>. QED  BY <1>1, <1>2, PTL DEF Spec, GraphSpec

\* The checker's graph keeps its order, and refuses an edge if and only if it closes a cycle.
THEOREM CheckerUsesGraph == Spec => [](GraphTypeOK /\ CheckInvariants) /\ ImplementsAcyclicGraph
BY CheckerInvariant, RanksAreTopological, CyclesAreRefused, PTL

-----------------------------------------------------------------------------
(* The uses of events *)

\* A use of an event has one node at most, and an event without a node is not used yet.
UseInv ==
  /\ \A n \in Node \ nodes : useOf[n] = None
  /\ \A m, n \in Node : useOf[m] # None /\ useOf[m] = useOf[n] => m = n
  /\ \A n \in Node : useOf[n] # None => useOf[n][2] <= use[useOf[n][1]]
  /\ \A e \in Event :
       IF HasNode(e) THEN useOf[eventToDagID[e]] = <<e, use[e]>>
                     ELSE \A n \in Node : useOf[n] # <<e, use[e]>>

\* Only what has a use is waited for.
EdgeInv == \A x \in nodes : out[x] # {} => useOf[x] # None

\* The edge being inserted is that of the event looked at.
AskInv ==
  IF waitEvent = None THEN phase = "idle" /\ answer = None
  ELSE /\ waitEvent \in phWaitEvents /\ HasNode(waitEvent)
       /\ phase = "idle" <=> answer # None
       /\ phase # "idle" => from = eventToDagID[waitEvent] /\ to = this_action_new_node_id

WaitsInv == TypeOK /\ UseInv /\ EdgeInv /\ AskInv

LEMMA NewNodeIs ==
  ASSUME IInv, NewNode
  PROVE  /\ size \in Node /\ size \notin nodes /\ nodes' = nodes \cup {size}
         /\ out[size] = {} /\ UNCHANGED <<in, out, phase, from, to, answer>>
<1>1. /\ size \in Node /\ size \notin nodes /\ nodes' = nodes \cup {size}
      /\ UNCHANGED <<in, out, phase, from, to, answer>>
  BY MaxNodesAssumption DEF IInv, GraphTypeOK, NewNode, nodes, Node
<1>2. out[size] = {}
  BY <1>1 DEF IInv, Lists
<1>. QED  BY <1>1, <1>2

LEMMA NodesOf == IInv => nodes \subseteq Node
BY MaxNodesAssumption DEF IInv, GraphTypeOK, nodes, Node

LEMMA WaitsInit == Init => WaitsInv
<1> SUFFICES ASSUME Init PROVE WaitsInv
  OBVIOUS
<1>1. TypeOK
  <2>1. GraphTypeOK  BY Initial DEF Init, IInv
  <2>2. use \in [Event -> 0 .. MaxUses]  BY MaxUsesAssumption DEF Init
  <2>. QED  BY <2>1, <2>2 DEF Init, TypeOK
<1>2. UseInv
  <2>1. \A e \in Event : <<e, use[e]>> # None /\ ~HasNode(e)
    BY DistinctAssumption, MaxUsesAssumption DEF Init, HasNode
  <2>. QED  BY <2>1 DEF Init, UseInv
<1>3. EdgeInv
  BY NodesOf, Initial DEF Init, GraphInit, EdgeInv
<1>4. AskInv
  BY DEF Init, GraphInit, AskInv
<1>. QED  BY <1>1, <1>2, <1>3, <1>4 DEF WaitsInv

\* An event is created, destroyed or reset.
LEMMA RenewStep ==
  ASSUME Inv, WaitsInv, Idle, NEW e \in Event,
         UNCHANGED <<graphVars, dagIDToAction, callVars, useOf>>,
         NEW id \in {invalidDagID, unknown}, eventToDagID' = [eventToDagID EXCEPT ![e] = id],
         IF HasNode(e) THEN NextUse(e) ELSE UNCHANGED use
  PROVE  WaitsInv'
<1>1. nodes' = nodes /\ phWaitEvents' = phWaitEvents /\ waitEvent' = waitEvent
  BY DEF graphVars, callVars, nodes
<1>2. /\ use' \in [Event -> 0 .. MaxUses]
      /\ \A f \in Event : /\ use[f] \in Nat /\ use'[f] \in Nat /\ use[f] <= use'[f]
                          /\ f # e => use'[f] = use[f]
  BY MaxUsesAssumption DEF WaitsInv, TypeOK, NextUse
<1>3. TypeOK'
  <2>1. GraphTypeOK'  BY <1>1 DEF Inv, IInv, GraphTypeOK, graphVars
  <2>. QED  BY <1>1, <1>2, <2>1 DEF WaitsInv, TypeOK, callVars
<1>4. \A f \in Event : HasNode(f)' <=> HasNode(f) /\ f # e
  BY DEF WaitsInv, TypeOK, HasNode
<1>5. UseInv'
  <2>1. \A n \in Node : useOf[n] # None =>
          useOf[n][1] \in Event /\ useOf[n][2] \in 0 .. MaxUses
    BY DEF WaitsInv, TypeOK, Use
  <2>2. \A n \in Node : useOf[n] # None => useOf[n][2] <= use'[useOf[n][1]]
    <3> SUFFICES ASSUME NEW n \in Node, useOf[n] # None
                 PROVE  useOf[n][2] <= use'[useOf[n][1]]
      OBVIOUS
    <3> DEFINE f == useOf[n][1]
    <3>1. f \in Event /\ useOf[n][2] \in Nat /\ useOf[n][2] <= use[f]
      BY <2>1, MaxUsesAssumption DEF WaitsInv, UseInv
    <3> HIDE DEF f
    <3>2. use[f] \in Nat /\ use'[f] \in Nat /\ use[f] <= use'[f]
      BY <1>2, <3>1
    <3>. QED  BY <3>1, <3>2 DEF f
  <2>3. ASSUME NEW f \in Event
        PROVE  IF HasNode(f)' THEN useOf[eventToDagID'[f]] = <<f, use'[f]>>
                              ELSE \A n \in Node : useOf[n] # <<f, use'[f]>>
    <3>1. CASE f # e
      BY <1>2, <1>4, <3>1 DEF WaitsInv, UseInv, TypeOK
    <3>2. CASE f = e /\ ~HasNode(e)
      BY <1>4, <3>2 DEF WaitsInv, UseInv
    <3>3. CASE f = e /\ HasNode(e)
      <4>1. use[e] < use'[e] /\ use[e] \in Nat /\ use'[e] \in Nat
        BY <3>3, MaxUsesAssumption DEF NextUse, WaitsInv, TypeOK
      <4>2. ASSUME NEW n \in Node, useOf[n] = <<e, use'[e]>> PROVE FALSE
        <5>1. useOf[n] # None /\ useOf[n][1] = e /\ useOf[n][2] = use'[e]
          BY <1>2, <4>2, DistinctAssumption
        <5>2. use'[e] <= use[e]
          BY <5>1 DEF WaitsInv, UseInv
        <5>. QED  BY <4>1, <5>2
      <4>. QED  BY <1>4, <3>3, <4>2
    <3>. QED  BY <3>1, <3>2, <3>3
  <2>. QED  BY <1>1, <2>2, <2>3 DEF WaitsInv, UseInv
<1>6. EdgeInv'
  BY <1>1 DEF WaitsInv, EdgeInv, graphVars
<1>7. AskInv'
  <2>1. waitEvent = None
    BY DEF Idle, WaitsInv, AskInv
  <2>. QED  BY <1>1, <2>1 DEF WaitsInv, AskInv, graphVars
<1>. QED  BY <1>3, <1>5, <1>6, <1>7 DEF WaitsInv

\* A new node, of an event that has none.
LEMMA NameUses ==
  ASSUME Inv, WaitsInv, NewNode, NEW e \in Event, ~HasNode(e), Name(e)
  PROVE  /\ UseInv' /\ useOf'[size] = <<e, use[e]>> /\ HasNode(e)' /\ eventToDagID'[e] = size
         /\ \A n \in nodes : useOf'[n] = useOf[n]
         /\ \A f \in Event \ {e} : eventToDagID'[f] = eventToDagID[f] /\ (HasNode(f)' <=> HasNode(f))
         /\ useOf' \in [Node -> Use \cup {None}]
<1>1. /\ size \in Node /\ size \notin nodes /\ nodes' = nodes \cup {size}
  BY NewNodeIs DEF Inv
<1>2. /\ eventToDagID'[e] = size /\ (\A f \in Event \ {e} : eventToDagID'[f] = eventToDagID[f])
      /\ useOf'[size] = <<e, use[e]>> /\ (\A n \in Node \ {size} : useOf'[n] = useOf[n])
      /\ useOf' \in [Node -> Use \cup {None}]
      /\ use' = use
  BY <1>1 DEF Name, WaitsInv, TypeOK, Use
<1>3. HasNode(e)' /\ \A f \in Event \ {e} : HasNode(f)' <=> HasNode(f)
  BY <1>1, <1>2, DistinctAssumption DEF HasNode
<1>4. nodes \subseteq Node
  BY NodesOf DEF Inv
<1>5. useOf'[size] # None /\ use[e] \in Nat
  BY <1>2, DistinctAssumption, MaxUsesAssumption DEF WaitsInv, TypeOK
<1>6. \A n \in Node : useOf[n] # <<e, use[e]>>
  BY DEF WaitsInv, UseInv
<1>7. UseInv!1' /\ UseInv!2'
  BY <1>1, <1>2, <1>5, <1>6 DEF WaitsInv, UseInv
<1>8. UseInv!3'
  BY <1>2, <1>5 DEF WaitsInv, UseInv
<1>9. UseInv!4'
  <2> SUFFICES ASSUME NEW f \in Event
               PROVE  IF HasNode(f)' THEN useOf'[eventToDagID'[f]] = <<f, use[f]>>
                                     ELSE \A n \in Node : useOf'[n] # <<f, use[f]>>
    BY <1>2
  <2>1. CASE f = e
    BY <1>2, <1>3, <2>1
  <2>2. CASE f # e /\ HasNode(f)
    <3>1. eventToDagID[f] \in nodes
      BY <2>2 DEF Inv, Maps, HasNode
    <3>. QED  BY <1>1, <1>2, <1>3, <1>4, <2>2, <3>1 DEF WaitsInv, UseInv
  <2>3. CASE f # e /\ ~HasNode(f)
    BY <1>2, <1>3, <2>3 DEF WaitsInv, UseInv
  <2>. QED  BY <2>1, <2>2, <2>3
<1>. QED  BY <1>1, <1>2, <1>3, <1>4, <1>7, <1>8, <1>9 DEF UseInv

LEMMA PlaceholderStep ==
  ASSUME Inv, Inv', WaitsInv, NEW e \in Event, Placeholder(e)
  PROVE  WaitsInv'
<1>1. /\ NewNode /\ Name(e) /\ ~HasNode(e) /\ e \in phWaitEvents /\ waitEvent = None
      /\ UNCHANGED <<dagIDToAction, callVars>>
  BY DEF Placeholder
<1>2. /\ size \in Node /\ size \notin nodes /\ nodes' = nodes \cup {size}
      /\ out[size] = {} /\ UNCHANGED <<in, out, phase, from, to, answer>>
  BY <1>1, NewNodeIs DEF Inv
<1>3. /\ UseInv' /\ useOf' \in [Node -> Use \cup {None}]
      /\ useOf'[size] = <<e, use[e]>> /\ \A n \in nodes : useOf'[n] = useOf[n]
  BY <1>1, NameUses
<1>4. TypeOK'
  BY <1>1, <1>2, <1>3 DEF WaitsInv, TypeOK, callVars, Inv, IInv, Maps, Name
<1>5. EdgeInv'
  BY <1>2, <1>3 DEF WaitsInv, EdgeInv
<1>6. AskInv'
  BY <1>1, <1>2 DEF WaitsInv, AskInv, callVars
<1>. QED  BY <1>3, <1>4, <1>5, <1>6 DEF WaitsInv

\* An action takes the node of its signal event, or a new one.
LEMMA AppendStep ==
  ASSUME Inv, Inv', WaitsInv, NEW s \in Event \cup {nullptr}, NEW waits \in SUBSET Event,
         checkForDeadlock(s, waits)
  PROVE  WaitsInv'
<1> DEFINE node == IF s # nullptr /\ HasNode(s) THEN eventToDagID[s] ELSE size
<1>1. /\ Idle /\ reused' = AlreadySignalled(s) /\ warned' = {} /\ waitEvent' = waitEvent
  BY DEF checkForDeadlock
<1>2. waitEvent = None /\ phase = "idle" /\ answer = None
  BY <1>1 DEF Idle, WaitsInv, AskInv
<1>3. reused' \in BOOLEAN
  BY <1>1 DEF AlreadySignalled
<1>4. CASE UNCHANGED <<graphVars, mapVars, this_action_new_node_id, phWaitEvents, useVars>>
  <2>1. UNCHANGED <<size, rank, visited, in, out, stack_, deltaf_, deltab_, phase, from, to, answer,
                    nodes, eventToDagID, dagIDToAction, use, useOf>>
    BY <1>4 DEF graphVars, mapVars, useVars, nodes
  <2>2. TypeOK'
    BY <1>1, <1>3, <1>4, <2>1 DEF WaitsInv, TypeOK, GraphTypeOK, Inv, IInv
  <2>3. UseInv' /\ EdgeInv'
    BY <2>1 DEF WaitsInv, UseInv, EdgeInv, HasNode
  <2>4. AskInv'
    BY <1>1, <1>2, <2>1 DEF AskInv
  <2>. QED  BY <2>2, <2>3, <2>4 DEF WaitsInv
<1>5. CASE /\ dagIDToAction' = dagIDToAction \cup {node}
           /\ LookAt(node, waits)
           /\ IF node # size
              THEN UNCHANGED <<graphVars, eventToDagID, useVars>>
              ELSE NewNode /\ IF s = nullptr THEN UNCHANGED <<eventToDagID, useVars>> ELSE Name(s)
  <2>1. CASE node # size
    <3>1. UNCHANGED <<size, rank, visited, in, out, stack_, deltaf_, deltab_, phase, from, to, answer,
                      nodes, eventToDagID, use, useOf>>
      BY <1>5, <2>1 DEF graphVars, useVars, nodes
    <3>2. node \in nodes
      BY <2>1 DEF HasNode, Inv, Maps
    <3>3. UseInv' /\ EdgeInv'
      BY <3>1 DEF WaitsInv, UseInv, EdgeInv, HasNode
    <3>4. AskInv'
      BY <1>1, <1>2, <3>1 DEF AskInv
    <3> HIDE DEF node
    <3>5. TypeOK'
      BY <1>1, <1>2, <1>3, <1>5, <3>1, <3>2 DEF WaitsInv, TypeOK, Inv, IInv, LookAt
    <3>. QED  BY <3>3, <3>4, <3>5 DEF WaitsInv
  <2>2. CASE node = size /\ s = nullptr
    <3>1. NewNode /\ UNCHANGED <<eventToDagID, useVars>>
      BY <1>5, <2>2
    <3>2. /\ size \in Node /\ size \notin nodes /\ nodes' = nodes \cup {size}
          /\ out[size] = {} /\ UNCHANGED <<in, out, phase, from, to, answer>>
      BY <3>1, NewNodeIs DEF Inv
    <3>3. UseInv' /\ EdgeInv'
      BY <3>1, <3>2 DEF WaitsInv, UseInv, EdgeInv, HasNode, useVars
    <3>4. AskInv'
      BY <1>1, <1>2, <3>2 DEF AskInv
    <3>5. dagIDToAction' = dagIDToAction \cup {size} /\ LookAt(size, waits)
      BY <1>5, <2>2
    <3>6. TypeOK'
      BY <1>1, <1>2, <1>3, <3>1, <3>2, <3>5 DEF WaitsInv, TypeOK, Inv, IInv, Maps, LookAt, useVars
    <3>. QED  BY <3>3, <3>4, <3>6 DEF WaitsInv
  <2>3. CASE node = size /\ s # nullptr
    <3>1. NewNode /\ Name(s) /\ s \in Event
      BY <1>5, <2>3
    <3>2. ~HasNode(s)
      <4>1. size \notin nodes
        BY <3>1, NewNodeIs DEF Inv
      <4>. QED  BY <2>3, <3>1, <4>1 DEF Inv, Maps, HasNode
    <3>3. /\ size \in Node /\ size \notin nodes /\ nodes' = nodes \cup {size}
          /\ out[size] = {} /\ UNCHANGED <<in, out, phase, from, to, answer>>
      BY <3>1, NewNodeIs DEF Inv
    <3>4. /\ UseInv' /\ useOf' \in [Node -> Use \cup {None}]
          /\ \A n \in nodes : useOf'[n] = useOf[n]
      BY <3>1, <3>2, NameUses
    <3>5. EdgeInv'
      BY <3>3, <3>4 DEF WaitsInv, EdgeInv
    <3>6. AskInv'
      BY <1>1, <1>2, <3>3 DEF AskInv
    <3>7. dagIDToAction' = dagIDToAction \cup {size} /\ LookAt(size, waits)
      BY <1>5, <2>3
    <3>8. TypeOK'
      BY <1>1, <1>2, <1>3, <3>1, <3>3, <3>4, <3>7
      DEF WaitsInv, TypeOK, Inv, IInv, Maps, LookAt, Name
    <3>. QED  BY <3>4, <3>5, <3>6, <3>8 DEF WaitsInv
  <2>. QED  BY <2>1, <2>2, <2>3
<1>. QED  BY <1>4, <1>5 DEF checkForDeadlock

\* The edge from an event's node is inserted, at once or after a search.
LEMMA AddEdgeStep ==
  ASSUME Inv, Inv', WaitsInv, NEW w \in Event, addEdgeInDag(w)
  PROVE  WaitsInv'
<1> DEFINE x == eventToDagID[w]
           y == this_action_new_node_id
<1>1. /\ w \in phWaitEvents /\ waitEvent = None /\ HasNode(w) /\ waitEvent' = w
      /\ UNCHANGED <<eventToDagID, dagIDToAction, y, phWaitEvents, reused, warned, use, useOf>>
      /\ InsertEdge(x, y)
  BY DEF addEdgeInDag, mapVars, useVars
<1>2. phase = "idle" /\ answer = None
  BY <1>1 DEF WaitsInv, AskInv
<1>3. x \in nodes /\ y \in nodes /\ useOf[x] # None
  <2>1. x \in nodes /\ y \in nodes
    BY <1>1 DEF Inv, Maps, HasNode
  <2>2. useOf[x] = <<w, use[w]>> /\ use[w] \in 0 .. MaxUses
    BY <1>1 DEF WaitsInv, UseInv, TypeOK
  <2>. QED  BY <2>1, <2>2, DistinctAssumption
<1> HIDE DEF x, y
<1>4. size' = size /\ nodes' = nodes /\ nodes \subseteq Node
  BY <1>1, NodesOf DEF InsertEdge, nodes, Inv
<1>5. \A n \in nodes : out'[n] # {} => out[n] # {} \/ n = x
  BY <1>1, <1>3, <1>4 DEF InsertEdge, Inv, IInv, GraphTypeOK
<1>6. UseInv' /\ EdgeInv'
  BY <1>1, <1>3, <1>4, <1>5 DEF WaitsInv, UseInv, EdgeInv, HasNode
<1>7. \/ phase' = "idle" /\ answer' \in [from : {x}, to : {y}, accepted : BOOLEAN]
      \/ phase' = "forward" /\ answer' = answer /\ from' = x /\ to' = y
  <2>1. ASSUME NEW b \in BOOLEAN, Return(x, y, b)
        PROVE  phase' = "idle" /\ answer' \in [from : {x}, to : {y}, accepted : BOOLEAN]
    BY <2>1 DEF Return
  <2>2. CASE x = y \/ y \in out[x] \/ rank[x] <= rank[y]
    <3>1. Return(x, y, FALSE) \/ Return(x, y, TRUE)
      BY <1>1, <2>2 DEF InsertEdge
    <3>. QED  BY <2>1, <3>1
  <2>3. CASE ~(x = y \/ y \in out[x] \/ rank[x] <= rank[y])
    BY <1>1, <2>3 DEF InsertEdge
  <2>. QED  BY <2>2, <2>3
<1>8. AskInv'
  <2>1. \A b \in BOOLEAN : [from |-> x, to |-> y, accepted |-> b] # None
    BY <1>3, <1>4, NoAnswerAssumption
  <2>2. answer' \in [from : {x}, to : {y}, accepted : BOOLEAN] => answer' # None
    BY <2>1
  <2>. QED  BY <1>1, <1>2, <1>7, <2>2, DistinctAssumption DEF AskInv, HasNode, x, y
<1>9. TypeOK'
  BY <1>1, <1>4 DEF WaitsInv, TypeOK, Inv, IInv, y
<1>. QED  BY <1>6, <1>8, <1>9 DEF WaitsInv

\* What a step of a search does to the insertion on its way.
LEMMA SearchIs ==
  ASSUME IInv, AskInv, waitEvent # None, SearchStep
  PROVE  /\ phase # "idle" /\ size' = size /\ nodes' = nodes
         /\ \A n \in nodes : out'[n] \subseteq out[n]
         /\ \/ phase' = "idle" /\ answer' \in [from : {from}, to : {to}, accepted : BOOLEAN]
            \/ phase' # "idle" /\ UNCHANGED <<answer, from, to>>
<1>1. phase # "idle" /\ size' = size /\ nodes' = nodes
  BY DEF SearchStep, ForwardDFS, Refuse, ForwardDone, BackwardDFS, Reorder, nodes
<1>2. \A n \in nodes : out'[n] \subseteq out[n]
  <2>1. nodes \subseteq Node
    BY NodesOf
  <2>2. CASE Refuse
    BY <2>1, <2>2 DEF Refuse, IInv, GraphTypeOK
  <2>3. out' = out \/ Refuse
    BY DEF SearchStep, ForwardDFS, ForwardDone, BackwardDFS, Reorder
  <2>. QED  BY <2>2, <2>3
<1>3. \/ phase' = "idle" /\ answer' \in [from : {from}, to : {to}, accepted : BOOLEAN]
      \/ phase' # "idle" /\ UNCHANGED <<answer, from, to>>
  <2>1. CASE Refuse
    BY <2>1 DEF Refuse, Return
  <2>2. CASE Reorder
    BY <2>2 DEF Reorder, Return
  <2>3. CASE ForwardDFS \/ ForwardDone \/ BackwardDFS
    BY <1>1, <2>3 DEF ForwardDFS, ForwardDone, BackwardDFS
  <2>. QED  BY <2>1, <2>2, <2>3 DEF SearchStep
<1>. QED  BY <1>1, <1>2, <1>3

LEMMA SearchingStep ==
  ASSUME Inv, Inv', WaitsInv, Searching
  PROVE  WaitsInv'
<1>1. SearchStep /\ UNCHANGED <<eventToDagID, dagIDToAction, this_action_new_node_id, phWaitEvents,
                                waitEvent, reused, warned, use, useOf>>
  BY DEF Searching, mapVars, callVars, useVars
<1>2. phase # "idle" /\ waitEvent # None
  BY <1>1 DEF SearchStep, ForwardDFS, Refuse, ForwardDone, BackwardDFS, Reorder, WaitsInv, AskInv
<1>3. /\ size' = size /\ nodes' = nodes /\ \A n \in nodes : out'[n] \subseteq out[n]
      /\ \/ phase' = "idle" /\ answer' \in [from : {from}, to : {to}, accepted : BOOLEAN]
         \/ phase' # "idle" /\ UNCHANGED <<answer, from, to>>
  BY <1>1, <1>2, SearchIs DEF Inv, WaitsInv
<1>4. UseInv' /\ EdgeInv'
  BY <1>1, <1>3 DEF WaitsInv, UseInv, EdgeInv, HasNode
<1>5. AskInv'
  <2>1. answer' \in [from : {from}, to : {to}, accepted : BOOLEAN] => answer' # None
    <3>1. from \in Node /\ to \in Node
      BY <1>2, NodesOf DEF Inv, IInv, Search
    <3>. QED  BY <3>1, NoAnswerAssumption
  <2>. QED  BY <1>1, <1>2, <1>3, <2>1 DEF WaitsInv, AskInv, HasNode
<1>6. TypeOK'
  BY <1>1, <1>3 DEF WaitsInv, TypeOK, Inv, IInv
<1>. QED  BY <1>4, <1>5, <1>6 DEF WaitsInv

LEMMA WarnStep ==
  ASSUME Inv, Inv', WaitsInv, Warn
  PROVE  WaitsInv'
<1>1. /\ phase = "idle" /\ UNCHANGED <<size, rank, visited, in, out, phase>> /\ answer' = None
      /\ waitEvent # None /\ waitEvent' = None /\ nodes' = nodes
      /\ warned' = IF answer.accepted THEN warned ELSE warned \cup {waitEvent}
      /\ LookAt(this_action_new_node_id, phWaitEvents \ {waitEvent})
      /\ UNCHANGED <<eventToDagID, dagIDToAction, reused, use, useOf>>
  BY DEF Warn, TakeAnswer, mapVars, useVars, nodes
<1>2. UseInv' /\ EdgeInv'
  BY <1>1 DEF WaitsInv, UseInv, EdgeInv, HasNode
<1>3. AskInv'
  BY <1>1 DEF AskInv
<1>4. TypeOK'
  BY <1>1 DEF WaitsInv, TypeOK, Inv, IInv, LookAt
<1>. QED  BY <1>2, <1>3, <1>4 DEF WaitsInv

LEMMA WaitsStep == Inv /\ Inv' /\ WaitsInv /\ [Next]_vars => WaitsInv'
<1> SUFFICES ASSUME Inv, Inv', WaitsInv, [Next]_vars PROVE WaitsInv'
  OBVIOUS
<1>1. ASSUME NEW e \in Event,
             \/ zeEventCreateEpilogue(e) \/ zeEventDestroyEpilogue(e) \/ resetEventInEventToDagID(e)
      PROVE  WaitsInv'
  <2>1. zeEventCreateEpilogue(e) => ~HasNode(e)
    BY DEF zeEventCreateEpilogue, HasNode, Known
  <2>. QED
    BY <1>1, <2>1, RenewStep
    DEF zeEventCreateEpilogue, zeEventDestroyEpilogue, resetEventInEventToDagID, NextUse, useVars
<1>2. CASE UNCHANGED vars
  <2>1. UNCHANGED <<size, rank, visited, in, out, stack_, deltaf_, deltab_, phase, from, to, answer,
                    nodes, eventToDagID, dagIDToAction, this_action_new_node_id, phWaitEvents,
                    waitEvent, reused, warned, use, useOf>>
    BY <1>2 DEF vars, graphVars, mapVars, callVars, useVars, nodes
  <2>. QED  BY <2>1 DEF WaitsInv, TypeOK, UseInv, EdgeInv, AskInv, HasNode, Inv, IInv
<1>. QED
  BY <1>1, <1>2, PlaceholderStep, AppendStep, AddEdgeStep, SearchingStep, WarnStep
  DEF Next, appendPrologue

\* The node of the action being appended stands for the present use of its signal event.
SignalInv ==
  phWaitEvents # {} =>
    LET u == useOf[this_action_new_node_id] IN u # None => u[2] = use[u[1]]

LEMMA SignalStep == Inv /\ WaitsInv /\ SignalInv /\ [Next]_vars => SignalInv'
<1> SUFFICES ASSUME Inv, WaitsInv, SignalInv, [Next]_vars PROVE SignalInv'
  OBVIOUS
<1>1. ASSUME NEW e \in Event,
             \/ zeEventCreateEpilogue(e) \/ zeEventDestroyEpilogue(e) \/ resetEventInEventToDagID(e)
      PROVE  SignalInv'
  BY <1>1
  DEF zeEventCreateEpilogue, zeEventDestroyEpilogue, resetEventInEventToDagID, Idle, callVars, SignalInv
<1>2. ASSUME NEW e \in Event, Placeholder(e) PROVE SignalInv'
  <2>1. /\ \A n \in nodes : useOf'[n] = useOf[n]
        /\ UNCHANGED <<use, phWaitEvents, this_action_new_node_id>>
    BY <1>2, NameUses DEF Placeholder, Name, callVars
  <2>. QED  BY <2>1 DEF SignalInv, Inv, Maps
<1>3. ASSUME NEW s \in Event \cup {nullptr}, NEW waits \in SUBSET Event, checkForDeadlock(s, waits)
      PROVE  SignalInv'
  <2> DEFINE node == IF s # nullptr /\ HasNode(s) THEN eventToDagID[s] ELSE size
  <2>1. CASE UNCHANGED <<graphVars, mapVars, this_action_new_node_id, phWaitEvents, useVars>>
    BY <2>1 DEF SignalInv, useVars
  <2>2. CASE /\ LookAt(node, waits)
             /\ IF node # size
                THEN UNCHANGED <<graphVars, eventToDagID, useVars>>
                ELSE NewNode /\ IF s = nullptr THEN UNCHANGED <<eventToDagID, useVars>> ELSE Name(s)
    <3>1. phWaitEvents' # {} => this_action_new_node_id' = node
      BY <2>2 DEF LookAt
    <3>2. CASE node # size
      <4>1. useOf[node] = <<s, use[s]>>
        BY <3>2 DEF WaitsInv, UseInv
      <4>2. UNCHANGED <<use, useOf>>
        BY <2>2, <3>2 DEF useVars
      <4> HIDE DEF node
      <4>. QED  BY <3>1, <4>1, <4>2 DEF SignalInv
    <3>3. CASE node = size /\ s = nullptr
      <4>1. useOf'[size] = None
        BY <2>2, <3>3, NewNodeIs DEF useVars, WaitsInv, UseInv, Inv
      <4>. QED  BY <3>1, <3>3, <4>1 DEF SignalInv
    <3>4. CASE node = size /\ s # nullptr
      <4>1. NewNode /\ Name(s) /\ s \in Event
        BY <2>2, <3>4
      <4>2. size \in Node
        BY <4>1, NewNodeIs DEF Inv
      <4>3. useOf'[size] = <<s, use[s]>> /\ use' = use
        BY <4>1, <4>2 DEF Name, WaitsInv, TypeOK
      <4>. QED  BY <3>1, <3>4, <4>3 DEF SignalInv
    <3>. QED  BY <3>2, <3>3, <3>4
  <2>. QED  BY <1>3, <2>1, <2>2 DEF checkForDeadlock
<1>4. ASSUME NEW w \in Event, addEdgeInDag(w) PROVE SignalInv'
  BY <1>4 DEF addEdgeInDag, useVars, SignalInv
<1>5. CASE Searching
  BY <1>5 DEF Searching, callVars, useVars, SignalInv
<1>6. CASE Warn
  <2>1. /\ UNCHANGED <<use, useOf>>
        /\ phWaitEvents' # {} =>
             phWaitEvents # {} /\ this_action_new_node_id' = this_action_new_node_id
    BY <1>6 DEF Warn, LookAt, useVars
  <2>. QED  BY <2>1 DEF SignalInv
<1>7. CASE UNCHANGED vars
  BY <1>7 DEF vars, callVars, useVars, SignalInv
<1>. QED
  BY <1>1, <1>2, <1>3, <1>4, <1>5, <1>6, <1>7 DEF Next, appendPrologue

\* Only events that are known are looked at.
KnownInv == \A w \in phWaitEvents : Known(w)

LEMMA KnownStep == Inv /\ WaitsInv /\ KnownInv /\ [Next]_vars => KnownInv'
<1> SUFFICES ASSUME Inv, WaitsInv, KnownInv, [Next]_vars PROVE KnownInv'
  OBVIOUS
<1>1. ASSUME NEW e \in Event,
             \/ zeEventCreateEpilogue(e) \/ zeEventDestroyEpilogue(e) \/ resetEventInEventToDagID(e)
      PROVE  KnownInv'
  BY <1>1
  DEF zeEventCreateEpilogue, zeEventDestroyEpilogue, resetEventInEventToDagID, Idle, callVars, KnownInv
<1>2. ASSUME NEW e \in Event, NewNode, ~HasNode(e), Name(e), NEW W \in SUBSET Event,
             \A w \in W : Known(w)
      PROVE  \A w \in W : Known(w)'
  <2>1. /\ eventToDagID'[e] = size /\ size \in Node
        /\ \A f \in Event \ {e} : eventToDagID'[f] = eventToDagID[f]
    BY <1>2, NameUses, NewNodeIs DEF Inv
  <2>. QED  BY <1>2, <2>1, DistinctAssumption DEF Known
<1>3. ASSUME NEW e \in Event, Placeholder(e) PROVE KnownInv'
  BY <1>2, <1>3 DEF Placeholder, callVars, KnownInv, WaitsInv, TypeOK
<1>4. ASSUME NEW s \in Event \cup {nullptr}, NEW waits \in SUBSET Event, checkForDeadlock(s, waits)
      PROVE  KnownInv'
  <2> DEFINE node == IF s # nullptr /\ HasNode(s) THEN eventToDagID[s] ELSE size
  <2>1. CASE UNCHANGED <<graphVars, mapVars, this_action_new_node_id, phWaitEvents, useVars>>
    BY <2>1 DEF KnownInv, Known, mapVars
  <2>2. CASE /\ AllKnown(s, waits)
             /\ LookAt(node, waits)
             /\ IF node # size
                THEN UNCHANGED <<graphVars, eventToDagID, useVars>>
                ELSE NewNode /\ IF s = nullptr THEN UNCHANGED <<eventToDagID, useVars>> ELSE Name(s)
    <3>1. phWaitEvents' = waits /\ \A w \in waits : Known(w)
      BY <2>2 DEF LookAt, AllKnown
    <3>2. CASE UNCHANGED eventToDagID
      BY <3>1, <3>2 DEF KnownInv, Known
    <3>3. CASE node = size /\ s # nullptr
      <4>1. NewNode /\ Name(s) /\ s \in Event
        BY <2>2, <3>3
      <4>2. ~HasNode(s)
        BY <3>3, <4>1, NewNodeIs DEF Inv, Maps, HasNode
      <4>. QED  BY <1>2, <3>1, <4>1, <4>2 DEF KnownInv
    <3>. QED  BY <2>2, <3>2, <3>3
  <2>. QED  BY <1>4, <2>1, <2>2 DEF checkForDeadlock
<1>5. ASSUME NEW w \in Event, addEdgeInDag(w) PROVE KnownInv'
  BY <1>5 DEF addEdgeInDag, mapVars, KnownInv, Known
<1>6. CASE Searching
  BY <1>6 DEF Searching, mapVars, callVars, KnownInv, Known
<1>7. CASE Warn
  BY <1>7 DEF Warn, LookAt, mapVars, KnownInv, Known
<1>8. CASE UNCHANGED vars
  BY <1>8 DEF vars, mapVars, callVars, KnownInv, Known
<1>. QED
  BY <1>1, <1>3, <1>4, <1>5, <1>6, <1>7, <1>8 DEF Next, appendPrologue

LookInv == SignalInv /\ KnownInv

LEMMA WaitsInvariant == Spec => [](Inv /\ WaitsInv /\ LookInv)
<1>1. Init => Inv /\ WaitsInv /\ LookInv
  <2> SUFFICES ASSUME Init PROVE Inv /\ WaitsInv /\ LookInv
    OBVIOUS
  <2>1. IInv  BY Initial DEF Init
  <2>2. Maps /\ LookInv  BY DEF Init, Maps, SignalInv, KnownInv, LookInv
  <2>. QED  BY <2>1, <2>2, WaitsInit DEF Inv
<1>2. (Inv /\ WaitsInv /\ LookInv) /\ [Next]_vars => (Inv /\ WaitsInv /\ LookInv)'
  BY CheckerStep, GraphStep, WaitsStep, SignalStep, KnownStep DEF Inv, LookInv
<1>. QED  BY <1>1, <1>2, PTL DEF Spec

\* The checker's maps point at nodes of the graph, and its history at uses within the bound.
THEOREM CheckerTypes == Spec => []TypeOK
BY WaitsInvariant, PTL DEF WaitsInv

-----------------------------------------------------------------------------
(* The refinement *)

ReachesUse(u, v) == EventWaits!Graph!Reaches(UsesWaiting, u, v)

\* Uses wait for each other as their nodes do: those without a use lead nowhere.
LEMMA UsesReach ==
  ASSUME Inv, WaitsInv, NEW a \in nodes, NEW b \in nodes, useOf[a] # None, useOf[b] # None
  PROVE  Reaches(a, b) <=> ReachesUse(useOf[a], useOf[b])
<1>1. /\ nodes \subseteq Node
      /\ \A n \in Node : useOf[n] # None => useOf[n] \in EventWaits!Use
      /\ \A m, n \in Node : useOf[m] # None /\ useOf[m] = useOf[n] => m = n
  BY NodesOf DEF Inv, WaitsInv, TypeOK, UseInv, Use, EventWaits!Use
<1>2. ASSUME ReachesUse(useOf[a], useOf[b]), NEW S \in SUBSET Node, a \in S,
             \A e \in Edges : e[1] \in S => e[2] \in S
      PROVE  b \in S
  <2> DEFINE T == {useOf[n] : n \in {m \in S : useOf[m] # None}}
  <2>1. T \in SUBSET EventWaits!Use /\ useOf[a] \in T
    BY <1>1, <1>2
  <2>2. ASSUME NEW e \in UsesWaiting, e[1] \in T PROVE e[2] \in T
    <3>1. PICK f \in Edges : /\ useOf[f[1]] # None /\ useOf[f[2]] # None
                             /\ e[1] = useOf[f[1]] /\ e[2] = useOf[f[2]]
      BY <2>2 DEF UsesWaiting
    <3>2. f[1] \in Node /\ f[2] \in Node
      BY <1>1, EdgesAre
    <3>3. f[1] \in S
      BY <1>1, <2>2, <3>1, <3>2
    <3>. QED  BY <1>2, <3>1, <3>3
  <2>3. useOf[b] \in T
    <3> HIDE DEF T
    <3>. QED  BY <1>2, <2>1, <2>2 DEF ReachesUse, EventWaits!Graph!Reaches
  <2>. QED  BY <1>1, <2>3
<1>3. ASSUME Reaches(a, b), NEW S \in SUBSET EventWaits!Use, useOf[a] \in S,
             \A e \in UsesWaiting : e[1] \in S => e[2] \in S
      PROVE  useOf[b] \in S
  <2> DEFINE T == {n \in Node : useOf[n] = None \/ useOf[n] \in S}
  <2>1. a \in T
    BY <1>1, <1>3
  <2>2. ASSUME NEW e \in Edges, e[1] \in T PROVE e[2] \in T
    <3>1. e[1] \in nodes /\ e[2] \in Node /\ e[2] \in out[e[1]]
      BY <1>1, EdgesAre DEF IsEdge
    <3>2. useOf[e[1]] # None
      BY <3>1 DEF WaitsInv, EdgeInv
    <3>3. useOf[e[2]] # None => <<useOf[e[1]], useOf[e[2]]>> \in UsesWaiting
      BY <3>2 DEF UsesWaiting
    <3>. QED  BY <1>3, <2>2, <3>1, <3>2, <3>3
  <2>3. b \in T
    <3> HIDE DEF T
    <3>1. T \in SUBSET Node  BY DEF T
    <3>. QED  BY <1>3, <2>1, <2>2, <3>1 DEF Reaches, Graph!Reaches
  <2>. QED  BY <2>3
<1>. QED  BY <1>2, <1>3 DEF Reaches, Graph!Reaches, ReachesUse, EventWaits!Graph!Reaches

LEMMA SameBoolean ==
  ASSUME NEW a \in BOOLEAN, NEW b \in BOOLEAN, a <=> b
  PROVE  a = b
OBVIOUS

waitVars == <<KnownEvents, use, UsesSignalled, UsesWaiting, Signal, ToWait, reused, Warned>>

WaitsNext == EventWaits!Next \/ UNCHANGED waitVars

\* Between two actions there is nothing to look at.
LEMMA AtRest ==
  ASSUME WaitsInv, waitEvent = None
  PROVE  /\ phase = "idle" /\ answer = None
         /\ ToWait = phWaitEvents /\ Warned = warned
         /\ Idle => ToWait = {} /\ Signal = None /\ EventWaits!Idle
BY DEF WaitsInv, AskInv, Answered, ToWait, Warned, Signal, Idle, EventWaits!Idle

\* The nodes of the present uses.
LEMMA Present ==
  ASSUME Inv, WaitsInv, NEW e \in Event
  PROVE  /\ HasNode(e) => eventToDagID[e] \in nodes /\ useOf[eventToDagID[e]] = EventWaits!now(e)
         /\ \A n \in Node : useOf[n] = EventWaits!now(e) => HasNode(e) /\ n = eventToDagID[e]
         /\ EventWaits!now(e) # None /\ EventWaits!now(e) = <<e, use[e]>>
         /\ EventWaits!now(e) \in UsesSignalled <=> HasNode(e) /\ eventToDagID[e] \in dagIDToAction
<1>1. EventWaits!now(e) # None /\ EventWaits!now(e) = <<e, use[e]>>
  BY DistinctAssumption DEF EventWaits!now, WaitsInv, TypeOK
<1>2. HasNode(e) => eventToDagID[e] \in nodes /\ useOf[eventToDagID[e]] = EventWaits!now(e)
  BY <1>1 DEF Inv, Maps, HasNode, WaitsInv, UseInv
<1>3. nodes \subseteq Node /\ dagIDToAction \subseteq nodes
  BY NodesOf DEF Inv, WaitsInv, TypeOK
<1>4. \A n \in Node : useOf[n] = EventWaits!now(e) => HasNode(e) /\ n = eventToDagID[e]
  <2> SUFFICES ASSUME NEW n \in Node, useOf[n] = EventWaits!now(e)
               PROVE  HasNode(e) /\ n = eventToDagID[e]
    OBVIOUS
  <2>1. HasNode(e)
    BY <1>1 DEF WaitsInv, UseInv
  <2>. QED  BY <1>1, <1>2, <1>3, <2>1 DEF WaitsInv, UseInv
<1>5. EventWaits!now(e) \in UsesSignalled <=> HasNode(e) /\ eventToDagID[e] \in dagIDToAction
  BY <1>1, <1>2, <1>3, <1>4 DEF UsesSignalled
<1>. QED  BY <1>1, <1>2, <1>4, <1>5

LEMMA InitImplements == Init => EventWaits!Init
<1> SUFFICES ASSUME Init PROVE EventWaits!Init
  OBVIOUS
<1>1. Edges = {}
  BY DEF Init, GraphInit, Edges, nodes
<1>2. UsesWaiting = {} /\ UsesSignalled = {} /\ KnownEvents = {}
  BY <1>1 DEF Init, UsesWaiting, UsesSignalled, KnownEvents, Known
<1>. QED
  BY <1>2 DEF Init, GraphInit, EventWaits!Init, Signal, ToWait, Warned, Answered

LEMMA RenewImplements ==
  ASSUME Inv, WaitsInv, Idle, NEW e \in Event,
         UNCHANGED <<graphVars, dagIDToAction, callVars, useOf>>,
         NEW id \in {invalidDagID, unknown}, eventToDagID' = [eventToDagID EXCEPT ![e] = id]
  PROVE  /\ ~Known(e) /\ id = invalidDagID /\ UNCHANGED use => EventWaits!Create(e)
         /\ Known(e) /\ id = unknown /\ NextUse(e) => EventWaits!Destroy(e)
         /\ Known(e) /\ id = invalidDagID /\ NextUse(e) => EventWaits!Reset(e)
<1>1. UNCHANGED <<size, nodes, out, phase, from, to, answer, phWaitEvents, waitEvent,
                  this_action_new_node_id, reused, warned>>
  BY DEF graphVars, callVars, nodes
<1>2. Edges' = Edges
  BY <1>1 DEF Edges
<1>3. UNCHANGED <<UsesSignalled, UsesWaiting, Signal, ToWait, reused, Warned>>
  BY <1>1, <1>2 DEF UsesSignalled, UsesWaiting, Signal, ToWait, Warned, Answered
<1>4. EventWaits!Idle
  BY AtRest DEF Idle, WaitsInv, AskInv
<1>5. /\ e \in KnownEvents <=> Known(e)
      /\ KnownEvents' = IF id = unknown THEN KnownEvents \ {e} ELSE KnownEvents \cup {e}
  BY DistinctAssumption DEF KnownEvents, Known, WaitsInv, TypeOK
<1>6. NextUse(e) => EventWaits!Renew(e)
  <2>1. CASE HasNode(e)
    BY <1>3, <1>4, <2>1, MaxUsesAssumption DEF NextUse, EventWaits!Renew, WaitsInv, TypeOK
  <2>2. CASE ~HasNode(e)
    <3>1. EventWaits!now(e) \notin UsesSignalled
      BY <2>2, Present
    <3>2. \A w \in UsesWaiting : EventWaits!now(e) \notin {w[1], w[2]}
      BY <2>2, Present, EdgesAre, NodesOf DEF UsesWaiting, Inv
    <3>. QED  BY <1>3, <1>4, <2>2, <3>1, <3>2 DEF NextUse, EventWaits!Renew, EventWaits!Involved
  <2>. QED  BY <2>1, <2>2
<1>. QED
  BY <1>3, <1>4, <1>5, <1>6, DistinctAssumption
  DEF EventWaits!Create, EventWaits!Destroy, EventWaits!Reset

\* A new node leaves what waits for what as it is.
LEMMA NewNodeWaits ==
  ASSUME Inv, WaitsInv, NewNode, \A n \in nodes : useOf'[n] = useOf[n]
  PROVE  UsesWaiting' = UsesWaiting
<1>1. /\ size \notin nodes /\ nodes' = nodes \cup {size}
      /\ out[size] = {} /\ UNCHANGED <<out, phase, from, to>>
      /\ \A n \in Node : out[n] \subseteq nodes
      /\ nodes \subseteq Node
  BY NewNodeIs, NodesOf DEF Inv, IInv, GraphTypeOK
<1>2. Edges' = Edges
  BY <1>1 DEF Edges
<1>. QED  BY <1>2, EdgesAre DEF UsesWaiting

LEMMA PlaceholderImplements ==
  ASSUME Inv, WaitsInv, KnownInv, NEW e \in Event, Placeholder(e)
  PROVE  UNCHANGED waitVars
<1>1. /\ NewNode /\ Name(e) /\ ~HasNode(e) /\ e \in phWaitEvents /\ waitEvent = None
      /\ UNCHANGED <<dagIDToAction, this_action_new_node_id, phWaitEvents, waitEvent, reused, warned, use>>
  BY DEF Placeholder, callVars, Name
<1>2. /\ \A n \in nodes : useOf'[n] = useOf[n]
      /\ eventToDagID'[e] = size
      /\ \A f \in Event \ {e} : eventToDagID'[f] = eventToDagID[f]
  BY <1>1, NameUses
<1>3. UsesWaiting' = UsesWaiting
  BY <1>1, <1>2, NewNodeWaits
<1>4. UsesSignalled' = UsesSignalled
  BY <1>1, <1>2 DEF UsesSignalled, WaitsInv, TypeOK
<1>5. Signal' = Signal /\ ToWait' = ToWait /\ Warned' = Warned
  BY <1>1, <1>2, NewNodeIs DEF Signal, ToWait, Warned, Answered, Inv, Maps
<1>6. KnownEvents' = KnownEvents
  <2>1. Known(e) /\ size \in Node
    BY <1>1, NewNodeIs DEF KnownInv, Inv
  <2>. QED  BY <1>2, <2>1, DistinctAssumption DEF KnownEvents, Known
<1>. QED  BY <1>1, <1>3, <1>4, <1>5, <1>6 DEF waitVars

LEMMA AppendImplements ==
  ASSUME Inv, WaitsInv, NEW s \in Event \cup {nullptr}, NEW W \in SUBSET Event,
         checkForDeadlock(s, W)
  PROVE  EventWaits!Append(IF s = nullptr THEN None ELSE s, W)
<1> DEFINE node == IF s # nullptr /\ HasNode(s) THEN eventToDagID[s] ELSE size
           a == IF s = nullptr THEN None ELSE s
<1> SUFFICES EventWaits!Append(a, W)
  OBVIOUS
<1>1. /\ Idle /\ reused' = AlreadySignalled(s) /\ warned' = {} /\ waitEvent' = waitEvent
  BY DEF checkForDeadlock
<1>2. /\ waitEvent = None /\ ToWait = {} /\ Signal = None /\ Warned = warned /\ EventWaits!Idle
  BY <1>1, AtRest DEF WaitsInv, AskInv, Idle
<1>3. ToWait' = phWaitEvents' /\ Warned' = {}
  BY <1>1, <1>2 DEF ToWait, Warned, Answered
<1>4. /\ a \in KnownEvents <=> s # nullptr /\ Known(s)
      /\ W \subseteq KnownEvents <=> \A w \in W : Known(w)
      /\ a = None <=> s = nullptr
  BY DistinctAssumption DEF KnownEvents
<1>5. reused' = (a \in KnownEvents /\ EventWaits!now(a) \in UsesSignalled)
  <2>1. AlreadySignalled(s) <=> a \in KnownEvents /\ EventWaits!now(a) \in UsesSignalled
    <3>1. CASE s = nullptr
      BY <1>4, <3>1 DEF AlreadySignalled
    <3>2. CASE s # nullptr
      <4>1. HasNode(s) => Known(s)
        BY DEF HasNode, Known
      <4>. QED  BY <1>4, <3>2, <4>1, Present DEF AlreadySignalled
    <3>. QED  BY <3>1, <3>2
  <2>2. AlreadySignalled(s) \in BOOLEAN
    BY DEF AlreadySignalled
  <2>. QED  BY <1>1, <2>1, <2>2, SameBoolean
<1>6. CASE /\ ~AllKnown(s, W)
           /\ UNCHANGED <<graphVars, mapVars, this_action_new_node_id, phWaitEvents, useVars>>
  <2>1. UNCHANGED <<size, nodes, out, phase, from, to, answer, eventToDagID, dagIDToAction,
                    this_action_new_node_id, phWaitEvents, use, useOf>>
    BY <1>6 DEF graphVars, mapVars, useVars, nodes
  <2>2. Edges' = Edges
    BY <2>1 DEF Edges
  <2>3. UNCHANGED <<KnownEvents, UsesSignalled, UsesWaiting>>
    BY <2>1, <2>2 DEF KnownEvents, Known, UsesSignalled, UsesWaiting
  <2>4. ToWait' = ToWait /\ Signal' = Signal
    BY <1>2, <1>3, <2>1, AtRest DEF Signal
  <2>5. ~((a = None \/ a \in KnownEvents) /\ W \subseteq KnownEvents)
    BY <1>4, <1>6 DEF AllKnown
  <2> HIDE DEF a
  <2>. QED  BY <1>2, <1>3, <1>5, <2>1, <2>3, <2>4, <2>5 DEF EventWaits!Append
<1>7. CASE /\ AllKnown(s, W)
           /\ dagIDToAction' = dagIDToAction \cup {node}
           /\ LookAt(node, W)
           /\ IF node # size
              THEN UNCHANGED <<graphVars, eventToDagID, useVars>>
              ELSE NewNode /\ IF s = nullptr THEN UNCHANGED <<eventToDagID, useVars>> ELSE Name(s)
  <2>1. /\ UNCHANGED <<KnownEvents, use, UsesWaiting>>
        /\ useOf'[node] = (IF s = nullptr THEN None ELSE EventWaits!now(s))
        /\ \A n \in nodes : useOf'[n] = useOf[n]
    <3>1. CASE node # size
      <4>1. UNCHANGED <<nodes, out, phase, from, to, eventToDagID, use, useOf>>
        BY <1>7, <3>1 DEF graphVars, useVars, nodes
      <4>2. Edges' = Edges
        BY <4>1 DEF Edges
      <4>. QED  BY <3>1, <4>1, <4>2, Present DEF KnownEvents, Known, UsesWaiting
    <3>2. CASE node = size /\ s = nullptr
      <4>1. NewNode /\ UNCHANGED <<eventToDagID, use, useOf>>
        BY <1>7, <3>2 DEF useVars
      <4>2. UsesWaiting' = UsesWaiting
        BY <4>1, NewNodeWaits
      <4>3. useOf[size] = None
        BY <4>1, NewNodeIs DEF WaitsInv, UseInv, Inv
      <4>. QED  BY <3>2, <4>1, <4>2, <4>3 DEF KnownEvents, Known
    <3>3. CASE node = size /\ s # nullptr
      <4>1. NewNode /\ Name(s) /\ s \in Event
        BY <1>7, <3>3
      <4>2. ~HasNode(s) /\ size \in Node
        BY <3>3, <4>1, NewNodeIs DEF Inv, Maps, HasNode
      <4>3. /\ useOf'[size] = <<s, use[s]>> /\ eventToDagID'[s] = size
            /\ \A n \in nodes : useOf'[n] = useOf[n]
            /\ \A f \in Event \ {s} : eventToDagID'[f] = eventToDagID[f]
        BY <4>1, <4>2, NameUses
      <4>4. UsesWaiting' = UsesWaiting
        BY <4>1, <4>3, NewNodeWaits
      <4>5. KnownEvents' = KnownEvents
        BY <1>7, <3>3, <4>2, <4>3, DistinctAssumption DEF KnownEvents, Known, AllKnown
      <4>6. use' = use
        BY <4>1 DEF Name
      <4>. QED  BY <3>3, <4>1, <4>3, <4>4, <4>5, <4>6, Present
    <3>. QED  BY <3>1, <3>2, <3>3
  <2>2. dagIDToAction \subseteq nodes
    BY DEF WaitsInv, TypeOK
  <2>3. s # nullptr => EventWaits!now(s) = <<s, use[s]>> /\ EventWaits!now(s) # None
    BY Present
  <2> HIDE DEF node
  <2>4. UsesSignalled' = IF a = None THEN UsesSignalled ELSE UsesSignalled \cup {EventWaits!now(a)}
    BY <1>4, <1>7, <2>1, <2>2, <2>3 DEF UsesSignalled
  <2>5. ToWait' = W
    BY <1>3, <1>7 DEF LookAt
  <2>6. Signal' = IF W = {} THEN None ELSE a
    <3>1. W # {} => this_action_new_node_id' = node
      BY <1>7 DEF LookAt
    <3>. QED  BY <2>1, <2>3, <2>5, <3>1 DEF Signal
  <2>7. (a = None \/ a \in KnownEvents) /\ W \subseteq KnownEvents
    BY <1>4, <1>7 DEF AllKnown
  <2> HIDE DEF a
  <2>. QED  BY <1>2, <1>3, <1>5, <2>1, <2>4, <2>5, <2>6, <2>7 DEF EventWaits!Append
<1>. QED  BY <1>6, <1>7 DEF checkForDeadlock

\* What the graph's answer says.
LEMMA AnswerIs ==
  ASSUME IInv, [GraphNext]_graphVars, nodes' = nodes, answer = None,
         NEW x \in nodes, NEW y \in nodes,
         answer' \in [from : {x}, to : {y}, accepted : BOOLEAN] \cup {None}
  PROVE  /\ answer' = None => Edges' = Edges
         /\ answer' # None => /\ answer'.accepted <=> ~Reaches(y, x)
                             /\ Edges' = IF answer'.accepted THEN Edges \cup {<<x, y>>} ELSE Edges
<1>1. Graph!Next \/ UNCHANGED <<nodes, Edges, answer>>
  BY GraphStep DEF Step
<1>2. ~Graph!NewNode
  BY DEF Graph!NewNode
<1>3. ASSUME NEW u \in nodes, NEW v \in nodes, Graph!InsertEdge(u, v)
      PROVE  /\ answer' # None
             /\ answer'.accepted <=> ~Reaches(y, x)
             /\ Edges' = IF answer'.accepted THEN Edges \cup {<<x, y>>} ELSE Edges
  <2>1. u \in Node /\ v \in Node
    BY NodesOf
  <2>2. \/ /\ answer' = [from |-> u, to |-> v, accepted |-> TRUE]
           /\ ~Graph!Reaches(Edges, v, u) /\ Edges' = Edges \cup {<<u, v>>}
        \/ /\ answer' = [from |-> u, to |-> v, accepted |-> FALSE]
           /\ Graph!Reaches(Edges, v, u) /\ Edges' = Edges
    BY <1>3 DEF Graph!InsertEdge
  <2>3. answer' # None
    BY <2>1, <2>2, NoAnswerAssumption
  <2>4. u = x /\ v = y
    <3>1. answer'.from = x /\ answer'.to = y
      BY <2>3
    <3>. QED  BY <2>2, <3>1
  <2>. QED  BY <2>2, <2>3, <2>4 DEF Reaches
<1>4. Graph!Take => answer' = None /\ Edges' = Edges
  BY DEF Graph!Take
<1>. QED  BY <1>1, <1>2, <1>3, <1>4 DEF Graph!Next

LEMMA InsertAnswers ==
  ASSUME NEW x, NEW y, InsertEdge(x, y)
  PROVE  answer' \in [from : {x}, to : {y}, accepted : BOOLEAN] \cup {answer}
<1>1. ASSUME NEW b \in BOOLEAN, Return(x, y, b)
      PROVE  answer' \in [from : {x}, to : {y}, accepted : BOOLEAN]
  BY <1>1 DEF Return
<1>2. Return(x, y, FALSE) \/ Return(x, y, TRUE) \/ answer' = answer
  BY DEF InsertEdge
<1>. QED  BY <1>1, <1>2

\* An insertion goes on, or ends and is the wait of the event that is looked at.
LEMMA WaitImplements ==
  ASSUME Inv, [GraphNext]_graphVars, WaitsInv, SignalInv, AskInv',
         nodes' = nodes, answer = None, ToWait = phWaitEvents, Warned = warned,
         UNCHANGED <<eventToDagID, dagIDToAction, this_action_new_node_id, phWaitEvents,
                     reused, warned, use, useOf>>,
         NEW w \in phWaitEvents, waitEvent' = w, HasNode(w),
         answer' \in [from : {eventToDagID[w]}, to : {this_action_new_node_id}, accepted : BOOLEAN]
                      \cup {None}
  PROVE  WaitsNext
<1> DEFINE x == eventToDagID[w]
           y == this_action_new_node_id
<1>1. /\ x \in nodes /\ y \in nodes /\ w \in Event /\ nodes \subseteq Node
      /\ useOf[x] = EventWaits!now(w) /\ useOf[x] # None
  BY Present, NodesOf DEF Inv, Maps, WaitsInv, TypeOK
<1>2. /\ UNCHANGED <<KnownEvents, use, UsesSignalled, reused>>
  BY DEF KnownEvents, Known, UsesSignalled
<1>3. /\ answer' = None => Edges' = Edges
      /\ answer' # None => /\ answer'.accepted <=> ~Reaches(y, x)
                          /\ Edges' = IF answer'.accepted THEN Edges \cup {<<x, y>>} ELSE Edges
  BY <1>1, AnswerIs DEF Inv
<1>4. w # None
  BY <1>1, DistinctAssumption
<1>5. phase' = "idle" <=> answer' # None
  BY <1>4 DEF AskInv
<1>6. CASE answer' = None
  <2>1. UsesWaiting' = UsesWaiting
    BY <1>3, <1>6 DEF UsesWaiting
  <2>2. Answered' = {}
    BY <1>5, <1>6 DEF Answered
  <2>3. ToWait' = ToWait /\ Warned' = Warned
    BY <1>6, <2>2 DEF ToWait, Warned
  <2>4. Signal' = Signal
    BY <2>3 DEF Signal
  <2>. QED  BY <1>2, <2>1, <2>3, <2>4 DEF WaitsNext, waitVars
<1>7. CASE answer' # None
  <2>1. Answered' = {w}
    BY <1>4, <1>5, <1>7 DEF Answered
  <2>2. ToWait' = ToWait \ {w} /\ w \in ToWait
    BY <2>1 DEF ToWait
  <2>3. Warned' = Warned \cup (IF answer'.accepted THEN {} ELSE {w})
    BY <1>7, <2>1 DEF Warned
  <2>4. /\ Signal = IF useOf[y] = None THEN None ELSE useOf[y][1]
        /\ Signal' = IF ToWait' = {} THEN None ELSE Signal
    BY <2>2 DEF Signal
  <2>5. CASE useOf[y] = None
    <3>1. ~Reaches(y, x)
      <4> DEFINE S == {y}
      <4>1. out[y] = {}
        BY <1>1, <2>5 DEF WaitsInv, EdgeInv
      <4>2. \A e \in Edges : e[1] \in S => e[2] \in S
        BY <4>1, EdgesAre DEF IsEdge
      <4>3. S \in SUBSET Node /\ y \in S /\ x \notin S
        BY <1>1, <2>5
      <4> HIDE DEF S
      <4>. QED  BY <4>2, <4>3, OutOfReach DEF Reaches
    <3>2. Edges' = Edges \cup {<<x, y>>} /\ answer'.accepted
      BY <1>3, <1>7, <3>1
    <3>3. UsesWaiting' = UsesWaiting
      BY <2>5, <3>2 DEF UsesWaiting
    <3>4. Warned' = Warned
      BY <2>3, <3>2
    <3>5. Signal = None
      BY <2>4, <2>5
    <3>. QED  BY <1>2, <2>2, <2>4, <3>3, <3>4, <3>5 DEF EventWaits!Wait, EventWaits!Next, WaitsNext
  <2>6. CASE useOf[y] # None
    <3>1. /\ useOf[y] = <<useOf[y][1], useOf[y][2]>> /\ useOf[y][1] \in Event
          /\ useOf[y][2] = use[useOf[y][1]]
      BY <1>1, <2>6 DEF WaitsInv, TypeOK, Use, SignalInv
    <3>2. Signal # None /\ useOf[y] = EventWaits!now(Signal)
      BY <2>4, <2>6, <3>1, DistinctAssumption DEF EventWaits!now
    <3>3. Reaches(y, x) <=> EventWaits!Graph!Reaches(UsesWaiting, EventWaits!now(Signal), EventWaits!now(w))
      BY <1>1, <2>6, <3>2, UsesReach DEF ReachesUse
    <3>4. CASE Reaches(y, x)
      <4>1. ~answer'.accepted /\ Edges' = Edges
        BY <1>3, <1>7, <3>4
      <4>2. UsesWaiting' = UsesWaiting /\ Warned' = Warned \cup {w}
        BY <2>3, <4>1 DEF UsesWaiting
      <4>. QED
        BY <1>2, <2>2, <2>4, <3>2, <3>3, <3>4, <4>2 DEF EventWaits!Wait, EventWaits!Next, WaitsNext
    <3>5. CASE ~Reaches(y, x)
      <4>1. answer'.accepted /\ Edges' = Edges \cup {<<x, y>>}
        BY <1>3, <1>7, <3>5
      <4>2. UsesWaiting' = UsesWaiting \cup {<<useOf[x], useOf[y]>>}
        <5>1. ASSUME NEW p \in UsesWaiting'
              PROVE  p \in UsesWaiting \cup {<<useOf[x], useOf[y]>>}
          <6>1. PICK e \in Edges' : /\ useOf[e[1]] # None /\ useOf[e[2]] # None
                                    /\ p = <<useOf[e[1]], useOf[e[2]]>>
            BY DEF UsesWaiting
          <6>2. CASE e \in Edges
            BY <6>1, <6>2 DEF UsesWaiting
          <6>3. CASE e = <<x, y>>
            BY <6>1, <6>3
          <6>. QED  BY <4>1, <6>2, <6>3
        <5>2. ASSUME NEW p \in UsesWaiting
              PROVE  p \in UsesWaiting'
          BY <4>1 DEF UsesWaiting
        <5>3. <<useOf[x], useOf[y]>> \in UsesWaiting'
          <6> DEFINE e == <<x, y>>
          <6>1. e \in Edges' /\ useOf[e[1]] # None /\ useOf[e[2]] # None
            BY <1>1, <2>6, <4>1
          <6>2. <<useOf[e[1]], useOf[e[2]]>> \in UsesWaiting'
            <7> HIDE DEF e
            <7>. QED  BY <6>1 DEF UsesWaiting
          <6>. QED  BY <6>2
        <5>. QED  BY <5>1, <5>2, <5>3
      <4>3. Warned' = Warned
        BY <2>3, <4>1
      <4>. QED
        BY <1>1, <1>2, <2>2, <2>4, <3>2, <3>3, <3>5, <4>2, <4>3
        DEF EventWaits!Wait, EventWaits!Next, WaitsNext
    <3>. QED  BY <3>4, <3>5
  <2>. QED  BY <2>5, <2>6
<1>. QED  BY <1>6, <1>7

LEMMA WarnImplements ==
  ASSUME Inv, WaitsInv, Warn
  PROVE  UNCHANGED waitVars
<1>1. /\ phase = "idle" /\ UNCHANGED <<size, nodes, out, phase, from, to>> /\ answer' = None
      /\ waitEvent # None /\ waitEvent' = None
      /\ warned' = IF answer.accepted THEN warned ELSE warned \cup {waitEvent}
      /\ LookAt(this_action_new_node_id, phWaitEvents \ {waitEvent})
      /\ UNCHANGED <<eventToDagID, dagIDToAction, reused, use, useOf>>
  BY DEF Warn, TakeAnswer, mapVars, useVars, nodes
<1>2. answer # None
  BY <1>1 DEF WaitsInv, AskInv
<1>3. Answered = {waitEvent} /\ Answered' = {}
  BY <1>1 DEF Answered
<1>4. ToWait' = ToWait /\ Warned' = Warned
  BY <1>1, <1>2, <1>3 DEF ToWait, Warned, LookAt
<1>5. Signal' = Signal
  <2>1. ToWait' = {} \/ this_action_new_node_id' = this_action_new_node_id
    BY <1>1, <1>3 DEF ToWait, LookAt
  <2>. QED  BY <1>1, <1>4, <2>1 DEF Signal
<1>6. Edges' = Edges
  BY <1>1 DEF Edges
<1>. QED
  BY <1>1, <1>4, <1>5, <1>6 DEF waitVars, KnownEvents, Known, UsesSignalled, UsesWaiting

LEMMA StepImplements ==
  ASSUME Inv, WaitsInv, LookInv, Inv', WaitsInv', [Next]_vars
  PROVE  WaitsNext
<1>1. ASSUME NEW e \in Event,
             \/ zeEventCreateEpilogue(e) \/ zeEventDestroyEpilogue(e) \/ resetEventInEventToDagID(e)
      PROVE  EventWaits!Create(e) \/ EventWaits!Destroy(e) \/ EventWaits!Reset(e)
  BY <1>1, RenewImplements
  DEF zeEventCreateEpilogue, zeEventDestroyEpilogue, resetEventInEventToDagID, NextUse, useVars
<1>2. ASSUME NEW e \in Event, Placeholder(e) PROVE UNCHANGED waitVars
  BY <1>2, PlaceholderImplements DEF LookInv
<1>3. ASSUME NEW s \in Event \cup {nullptr}, NEW waits \in SUBSET Event, checkForDeadlock(s, waits)
      PROVE  \E a \in Event \cup {None}, W \in SUBSET Event : EventWaits!Append(a, W)
  BY <1>3, AppendImplements
<1>4. [GraphNext]_graphVars
  BY CheckerStep
<1>5. ASSUME NEW w \in Event, addEdgeInDag(w) PROVE WaitsNext
  <2>1. /\ w \in phWaitEvents /\ waitEvent = None /\ HasNode(w) /\ waitEvent' = w
        /\ UNCHANGED <<eventToDagID, dagIDToAction, this_action_new_node_id, phWaitEvents,
                       reused, warned, use, useOf>>
        /\ InsertEdge(eventToDagID[w], this_action_new_node_id)
    BY <1>5 DEF addEdgeInDag, mapVars, useVars
  <2>2. answer = None /\ ToWait = phWaitEvents /\ Warned = warned
    BY <2>1, AtRest
  <2>3. nodes' = nodes
    BY <2>1 DEF InsertEdge, nodes
  <2>4. answer' \in [from : {eventToDagID[w]}, to : {this_action_new_node_id}, accepted : BOOLEAN]
                    \cup {None}
    BY <2>1, <2>2, InsertAnswers
  <2>. QED  BY <1>4, <2>1, <2>2, <2>3, <2>4, WaitImplements DEF LookInv, WaitsInv
<1>6. CASE Searching
  <2>1. SearchStep /\ UNCHANGED <<eventToDagID, dagIDToAction, this_action_new_node_id, phWaitEvents,
                                  waitEvent, reused, warned, use, useOf>>
    BY <1>6 DEF Searching, mapVars, callVars, useVars
  <2>2. phase # "idle" /\ waitEvent # None
    BY <2>1 DEF SearchStep, ForwardDFS, Refuse, ForwardDone, BackwardDFS, Reorder, WaitsInv, AskInv
  <2>3. /\ nodes' = nodes
        /\ answer' \in [from : {from}, to : {to}, accepted : BOOLEAN] \cup {answer}
    BY <2>1, <2>2, SearchIs DEF Inv, WaitsInv
  <2>4. /\ answer = None /\ waitEvent \in phWaitEvents /\ HasNode(waitEvent)
        /\ from = eventToDagID[waitEvent] /\ to = this_action_new_node_id
    BY <2>2 DEF WaitsInv, AskInv
  <2>5. ToWait = phWaitEvents /\ Warned = warned
    BY <2>2, <2>4 DEF ToWait, Warned, Answered
  <2>. QED  BY <1>4, <2>1, <2>3, <2>4, <2>5, WaitImplements DEF LookInv, WaitsInv
<1>7. CASE Warn
  BY <1>7, WarnImplements DEF WaitsNext
<1>8. CASE UNCHANGED vars
  <2>1. UNCHANGED <<size, nodes, out, phase, from, to, answer, eventToDagID, dagIDToAction,
                    this_action_new_node_id, phWaitEvents, waitEvent, reused, warned, use, useOf>>
    BY <1>8 DEF vars, graphVars, mapVars, callVars, useVars, nodes
  <2>2. Edges' = Edges
    BY <2>1 DEF Edges
  <2>3. UNCHANGED waitVars
    BY <2>1, <2>2
    DEF waitVars, KnownEvents, Known, UsesSignalled, UsesWaiting, Signal, ToWait, Warned, Answered
  <2>. QED  BY <2>3 DEF WaitsNext
<1>. QED
  BY <1>1, <1>2, <1>3, <1>5, <1>6, <1>7, <1>8 DEF Next, appendPrologue, WaitsNext, EventWaits!Next

\* The application is warned of exactly the waits that complete a circle of uses, and of
\* exactly the signals of a use that has one.
THEOREM CirclesAreWarnedOf == Spec => ImplementsEventWaits
<1>1. (Inv /\ WaitsInv /\ LookInv) /\ (Inv /\ WaitsInv)' /\ [Next]_vars => [EventWaits!Next]_waitVars
  BY StepImplements DEF WaitsNext
<1>2. [EventWaits!Next]_waitVars <=> [EventWaits!Next]_EventWaits!vars
  BY DEF waitVars, EventWaits!vars
<1>. QED
  BY <1>1, <1>2, InitImplements, WaitsInvariant, PTL DEF Spec, ImplementsEventWaits, EventWaits!Spec

=============================================================================

---------------------------- MODULE EventsChecker ----------------------------
(***************************************************************************)
(* The validation layer's events checker (ZEL_ENABLE_EVENTS_CHECKER): every *)
(* action appended to a command list is looked at with the event it signals *)
(* and those it waits for.  An event has a node of a graph from the first   *)
(* action that names it until it is reset or destroyed; the edge from the   *)
(* node of a wait event to that of the signal event is refused when it      *)
(* closes a cycle, and the application is warned.                           *)
(*                                                                         *)
(* The prologues of all the append calls are the same call of               *)
(* checkForDeadlock, which here is given a set of wait events, looked at in *)
(* any order.  The checker has no lock: calls are made by one thread.       *)
(* Events come from zeEventCreate, and no wait event is a null handle.  An  *)
(* action without any event only takes a node, and is left out.             *)
(***************************************************************************)
EXTENDS GraphCycles, FiniteSets

CONSTANTS
  Event,
  nullptr,         \* an action without a signal event
  invalidDagID,    \* an event without a node
  unknown,         \* not in eventToDagID
  MaxUses          \* bound: how often an event is used anew

ASSUME MaxUsesAssumption == MaxUses \in Nat
ASSUME DistinctAssumption ==
  /\ unknown # invalidDagID /\ {unknown, invalidDagID} \cap Node = {}
  /\ {nullptr, None} \cap Event = {}
  /\ None \notin Event \X (0 .. MaxUses)

VARIABLES
  eventToDagID,
  dagIDToAction,           \* the nodes whose action is known
  this_action_new_node_id,
  phWaitEvents, waitEvent, \* wait events to look at, and the one being looked at
  reused, warned,          \* the warnings for the last action
  use, useOf               \* history: the uses of an event, and what a node stands for

mapVars  == <<eventToDagID, dagIDToAction>>
callVars == <<this_action_new_node_id, phWaitEvents, waitEvent, reused, warned>>
useVars  == <<use, useOf>>
vars == <<graphVars, mapVars, callVars, useVars>>

Use == Event \X (0 .. MaxUses)

TypeOK ==
  /\ GraphTypeOK
  /\ eventToDagID \in [Event -> nodes \cup {invalidDagID, unknown}]
  /\ dagIDToAction \in SUBSET nodes
  /\ this_action_new_node_id \in nodes \cup {invalidDagID}
  /\ phWaitEvents \in SUBSET Event
  /\ waitEvent \in Event \cup {None}
  /\ reused \in BOOLEAN /\ warned \in SUBSET Event
  /\ use \in [Event -> 0 .. MaxUses]
  /\ useOf \in [Node -> Use \cup {None}]

Init ==
  /\ GraphInit
  /\ eventToDagID = [e \in Event |-> unknown]
  /\ dagIDToAction = {}
  /\ this_action_new_node_id = invalidDagID
  /\ phWaitEvents = {} /\ waitEvent = None
  /\ reused = FALSE /\ warned = {}
  /\ use = [e \in Event |-> 0]
  /\ useOf = [n \in Node |-> None]

Idle == phWaitEvents = {}

Known(e)   == eventToDagID[e] # unknown
HasNode(e) == eventToDagID[e] \notin {unknown, invalidDagID}

-----------------------------------------------------------------------------
(* Events *)

zeEventCreateEpilogue(e) ==
  /\ Idle
  /\ ~Known(e)
  /\ eventToDagID' = [eventToDagID EXCEPT ![e] = invalidDagID]
  /\ UNCHANGED <<graphVars, dagIDToAction, callVars, useVars>>

\* Uses of all events are numbered in one sequence, up to the bound.
NextUse(e) ==
  /\ IF HasNode(e)
     THEN \E k \in 1 .. MaxUses :
            /\ \A f \in Event : use[f] < k
            /\ k = 1 \/ \E f \in Event : use[f] = k - 1
            /\ use' = [use EXCEPT ![e] = k]
     ELSE UNCHANGED use
  /\ UNCHANGED useOf

zeEventDestroyEpilogue(e) ==
  /\ Idle
  /\ Known(e)
  /\ eventToDagID' = [eventToDagID EXCEPT ![e] = unknown]
  /\ NextUse(e)
  /\ UNCHANGED <<graphVars, dagIDToAction, callVars>>

\* Mutant: a reset does not give the event up.
resetNothingInEventToDagID(e) ==
  /\ Idle
  /\ Known(e)
  /\ NextUse(e)
  /\ UNCHANGED <<graphVars, mapVars, callVars>>

\* zeCommandListAppendEventReset, zeEventHostReset
resetEventInEventToDagID(e) ==
  /\ Idle
  /\ Known(e)
  /\ eventToDagID' = [eventToDagID EXCEPT ![e] = invalidDagID]
  /\ NextUse(e)
  /\ UNCHANGED <<graphVars, dagIDToAction, callVars>>

-----------------------------------------------------------------------------
(* Actions *)

\* validateSignalEventOwnership
AlreadySignalled(s) == s # nullptr /\ HasNode(s) /\ eventToDagID[s] \in dagIDToAction

AllKnown(s, waits) == (s # nullptr => Known(s)) /\ \A w \in waits : Known(w)

\* The bound on nodes.
RoomFor(s, waits) ==
  size + Cardinality({e \in waits \cup {s} : e = nullptr \/ ~HasNode(e)}) <= MaxNodes

\* The new node is the event's.
Name(e) ==
  /\ eventToDagID' = [eventToDagID EXCEPT ![e] = size]
  /\ useOf' = [useOf EXCEPT ![size] = <<e, use[e]>>]
  /\ UNCHANGED use

\* The wait events still to look at for the action with this node.
LookAt(node, waits) ==
  /\ phWaitEvents' = waits
  /\ this_action_new_node_id' = IF waits = {} THEN invalidDagID ELSE node

checkForDeadlock(s, waits) ==
  LET node == IF s # nullptr /\ HasNode(s) THEN eventToDagID[s] ELSE size IN
  /\ Idle
  /\ reused' = AlreadySignalled(s)
  /\ warned' = {}
  /\ UNCHANGED waitEvent
  /\ \/ /\ ~AllKnown(s, waits)
        /\ UNCHANGED <<graphVars, mapVars, this_action_new_node_id, phWaitEvents, useVars>>
     \/ /\ AllKnown(s, waits)
        /\ RoomFor(s, waits)
        /\ dagIDToAction' = dagIDToAction \cup {node}
        /\ LookAt(node, waits)
        /\ IF node # size
           THEN UNCHANGED <<graphVars, eventToDagID, useVars>>
           ELSE NewNode /\ IF s = nullptr THEN UNCHANGED <<eventToDagID, useVars>> ELSE Name(s)

\* The prologue of any append call: with a signal event, events to wait for, or both.
appendPrologue(s, waits) == (s = nullptr => waits # {}) /\ checkForDeadlock(s, waits)

\* A node for an action that will be appended some time in the future.
Placeholder(w) ==
  /\ w \in phWaitEvents /\ waitEvent = None
  /\ ~HasNode(w)
  /\ NewNode /\ Name(w)
  /\ UNCHANGED <<dagIDToAction, callVars>>

addEdgeInDag(w) ==
  /\ w \in phWaitEvents /\ waitEvent = None
  /\ HasNode(w)
  /\ InsertEdge(eventToDagID[w], this_action_new_node_id)
  /\ waitEvent' = w
  /\ UNCHANGED <<mapVars, this_action_new_node_id, phWaitEvents, reused, warned, useVars>>

Searching ==
  /\ SearchStep
  /\ UNCHANGED <<mapVars, callVars, useVars>>

\* "There may be a potential event deadlock!"
Warn ==
  /\ waitEvent # None /\ phase = "idle"
  /\ TakeAnswer
  /\ waitEvent' = None
  /\ warned' = IF answer.accepted THEN warned ELSE warned \cup {waitEvent}
  /\ LookAt(this_action_new_node_id, phWaitEvents \ {waitEvent})
  /\ UNCHANGED <<mapVars, reused, useVars>>

Next ==
  \/ \E e \in Event :
       \/ zeEventCreateEpilogue(e) \/ zeEventDestroyEpilogue(e) \/ resetEventInEventToDagID(e)
       \/ Placeholder(e) \/ addEdgeInDag(e)
  \/ \E s \in Event \cup {nullptr}, waits \in SUBSET Event : appendPrologue(s, waits)
  \/ Searching
  \/ Warn

Spec == Init /\ [][Next]_vars

-----------------------------------------------------------------------------
(* Properties *)

Answered == IF waitEvent # None /\ phase = "idle" THEN {waitEvent} ELSE {}

ToWait == phWaitEvents \ Answered

KnownEvents == {e \in Event : Known(e)}

UsesSignalled == {useOf[n] : n \in dagIDToAction} \ {None}

\* None of the edges between the nodes of events is missing or out of date.
UsesWaiting ==
  {<<useOf[e[1]], useOf[e[2]]>> : e \in {f \in Edges : useOf[f[1]] # None /\ useOf[f[2]] # None}}

Signal ==
  IF ToWait = {} \/ useOf[this_action_new_node_id] = None THEN None
  ELSE useOf[this_action_new_node_id][1]

Warned == warned \cup IF answer # None /\ ~answer.accepted THEN Answered ELSE {}

EventWaits == INSTANCE EventWaits
  WITH known <- KnownEvents, signalled <- UsesSignalled, waits <- UsesWaiting,
       signal <- Signal, toWait <- ToWait, warned <- Warned

(* The application is warned of exactly the waits that complete a circle    *)
(* of uses, and of exactly the signals of a use that has one, over any      *)
(* sequence of appends, resets, destroys and addresses that come again.     *)
ImplementsEventWaits == EventWaits!Spec

=============================================================================

----------------------------- MODULE EventWaits -----------------------------
(***************************************************************************)
(* What the events checker is for (checkers/events_checker/DESIGN.md): it   *)
(* warns of an action that would complete a circle of events waiting for    *)
(* one another, and of an event that is signalled by a second action        *)
(* without a reset.  An event that is reset, or destroyed and made again,   *)
(* is a new use of its handle, and has nothing to do with the old one.      *)
(***************************************************************************)
EXTENDS Naturals

CONSTANTS
  Event, None,
  MaxUses          \* bound: how often events are used anew

VARIABLES
  known,           \* the events there are
  use,             \* the present use of an event
  signalled,       \* uses that an action signals
  waits,           \* <<u, v>>: what signals use v waits for use u
  signal, toWait,  \* the action being appended: its signal, the events still to look at
  reused, warned   \* the warnings for it

vars == <<known, use, signalled, waits, signal, toWait, reused, warned>>

Use == Event \X (0 .. MaxUses)

Graph == INSTANCE AcyclicGraph
  WITH Node <- Use, nodes <- Use, edges <- waits, answer <- None

now(e) == <<e, use[e]>>

Involved(e) == now(e) \in signalled \/ \E w \in waits : now(e) \in {w[1], w[2]}

Init ==
  /\ known = {} /\ use = [e \in Event |-> 0]
  /\ signalled = {} /\ waits = {}
  /\ signal = None /\ toWait = {}
  /\ reused = FALSE /\ warned = {}

Idle == toWait = {}

\* A handle that no action has named yet may go on as it is.
Renew(e) ==
  /\ Idle
  /\ \/ \E k \in use[e] + 1 .. MaxUses : use' = [use EXCEPT ![e] = k]
     \/ ~Involved(e) /\ UNCHANGED use
  /\ UNCHANGED <<signalled, waits, signal, toWait, reused, warned>>

Create(e) ==
  /\ Idle /\ e \notin known
  /\ known' = known \cup {e}
  /\ UNCHANGED <<use, signalled, waits, signal, toWait, reused, warned>>

Destroy(e) == e \in known /\ known' = known \ {e} /\ Renew(e)

Reset(e) == e \in known /\ UNCHANGED known /\ Renew(e)

\* An action with an event that is not known is not looked at any further.
Append(s, W) ==
  /\ Idle
  /\ reused' = (s \in known /\ now(s) \in signalled)
  /\ warned' = {}
  /\ IF (s = None \/ s \in known) /\ W \subseteq known
     THEN /\ toWait' = W
          /\ signal' = IF W = {} THEN None ELSE s
          /\ signalled' = IF s = None THEN signalled ELSE signalled \cup {now(s)}
     ELSE UNCHANGED <<toWait, signal, signalled>>
  /\ UNCHANGED <<known, use, waits>>

\* Nothing can wait for an action that signals nothing.
Wait(w) ==
  /\ toWait' = toWait \ {w}
  /\ signal' = IF toWait' = {} THEN None ELSE signal
  /\ IF signal = None
     THEN UNCHANGED <<waits, warned>>
     ELSE IF Graph!Reaches(waits, now(signal), now(w))
     THEN warned' = warned \cup {w} /\ UNCHANGED waits
     ELSE waits' = waits \cup {<<now(w), now(signal)>>} /\ UNCHANGED warned
  /\ UNCHANGED <<known, use, signalled, reused>>

Next ==
  \/ \E e \in Event : Create(e) \/ Destroy(e) \/ Reset(e)
  \/ \E s \in Event \cup {None}, W \in SUBSET Event : Append(s, W)
  \/ \E w \in toWait : Wait(w)

Spec == Init /\ [][Next]_vars

=============================================================================

--------------------------- MODULE TracerRegistry ---------------------------
(***************************************************************************)
(* What the tracing layer promises its users, with no arrays, no locks and *)
(* no memory to reclaim: tracers exist, some are enabled, and a traced API *)
(* call works for its whole duration on the tracers that were enabled at   *)
(* one instant of it.  A tracer changes its callbacks, or goes away, only  *)
(* when no call is using it.  TracerArrays implements this module.         *)
(*                                                                         *)
(* The promise is the one of source/layers/tracing/README.md, "Enabling,   *)
(* Disabling and Destruction", and of include/layers/zel_tracing_api.h.    *)
(***************************************************************************)

CONSTANTS
  Thread,    \* the application's threads
  Tracer,    \* tracer handles; a destroyed handle may be handed out again
  Callback,  \* callback tables a tracer may have registered
  NoCallback \* the table with no callback in it

VARIABLES
  existing,  \* the handles that name a tracer
  enabled,   \* the tracers that take part in the calls that start now
  functions, \* functions[r]: the callback table tracer r has registered
  running    \* running[t]: the tracers, with their tables, of t's traced call

vars == <<existing, enabled, functions, running>>

Entry == [tracer : Tracer, functions : Callback]

Entries(S) == {[tracer |-> r, functions |-> functions[r]] : r \in S}

\* Some traced call still runs, or may still run, a callback of tracer r.
InUse(r) == \E t \in Thread : \E e \in running[t] : e.tracer = r

Init ==
  /\ existing = {}
  /\ enabled = {}
  /\ functions = [r \in Tracer |-> NoCallback]
  /\ running = [t \in Thread |-> {}]

\* A new tracer starts disabled and with no callbacks.
Create(r) ==
  /\ r \notin existing
  /\ existing' = existing \cup {r}
  /\ UNCHANGED <<enabled, functions, running>>

Register(r, f) ==
  /\ r \in existing \ enabled
  /\ ~InUse(r)
  /\ functions' = [functions EXCEPT ![r] = f]
  /\ UNCHANGED <<existing, enabled, running>>

Enable(r) ==
  /\ r \in existing
  /\ enabled' = enabled \cup {r}
  /\ UNCHANGED <<existing, functions, running>>

Disable(r) ==
  /\ enabled' = enabled \ {r}
  /\ UNCHANGED <<existing, functions, running>>

Destroy(r) ==
  /\ r \in existing \ enabled
  /\ ~InUse(r)
  /\ existing' = existing \ {r}
  /\ functions' = [functions EXCEPT ![r] = NoCallback]
  /\ UNCHANGED <<enabled, running>>

Start(t) ==
  /\ running[t] = {}
  /\ running' = [running EXCEPT ![t] = Entries(enabled)]
  /\ UNCHANGED <<existing, enabled, functions>>

Finish(t) ==
  /\ running' = [running EXCEPT ![t] = {}]
  /\ UNCHANGED <<existing, enabled, functions>>

Next ==
  \/ \E r \in Tracer : Create(r) \/ Enable(r) \/ Disable(r) \/ Destroy(r)
  \/ \E r \in Tracer, f \in Callback : Register(r, f)
  \/ \E t \in Thread : Start(t) \/ Finish(t)

Spec == Init /\ [][Next]_vars

=============================================================================

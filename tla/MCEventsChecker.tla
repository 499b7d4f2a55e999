--------------------------- MODULE MCEventsChecker ---------------------------
(* Small instances of EventsChecker for TLC. *)
EXTENDS EventsChecker, TLC

\* Events are interchangeable.
Symmetry == Permutations(Event)

=============================================================================

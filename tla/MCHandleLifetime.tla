-------------------------- MODULE MCHandleLifetime --------------------------
(* Small instances of HandleLifetime and HandleLifetimeGaps for TLC. *)
EXTENDS HandleLifetimeGaps, TLC

\* Threads and addresses are interchangeable.
Symmetry == Permutations(Thread) \cup Permutations(Handle)

=============================================================================

-------------------------- MODULE MCTracingToggle --------------------------
(* Small instances of TracingToggle for TLC. *)
EXTENDS TracingToggle, TLC

\* Threads and drivers are interchangeable.
Symmetry == Permutations(Thread) \cup Permutations(Driver)

=============================================================================

--------------------------- MODULE MCTracerArrays ---------------------------
(* Small instances of TracerArrays for TLC. *)
EXTENDS TracerArrays, TLC

\* Threads, tracers and array addresses are interchangeable.
Symmetry == Permutations(Thread) \cup Permutations(Tracer) \cup Permutations(Array)

=============================================================================

------------------------- MODULE MCExtensionTracing -------------------------
(* Small instances of ExtensionTracing and ExtensionTracingGaps for TLC. *)
EXTENDS ExtensionTracingGaps, TLC

\* Threads and tracers are interchangeable.
Symmetry == Permutations(Thread) \cup Permutations(Tracer)

=============================================================================

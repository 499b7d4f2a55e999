--------------------------- MODULE MCHandleFactory ---------------------------
(* Small instances of HandleFactory and HandleFactoryGaps for TLC. *)
EXTENDS HandleFactoryGaps, TLC

\* Threads, drivers and addresses are interchangeable.
Symmetry ==
  Permutations(Thread) \cup Permutations(Driver) \cup Permutations(Native) \cup Permutations(Wrapper)

=============================================================================

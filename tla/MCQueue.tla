------------------------------ MODULE MCQueue ------------------------------
(* Instances of Queue for TLC. *)
EXTENDS Queue, TLC

\* Handlers, connections and channels are interchangeable (safety runs only).
Symmetry == Permutations(Producers) \cup Permutations(Workers) \cup Permutations(Channels)
=============================================================================

---------------------------- MODULE MCResponses ----------------------------
(* Finite instances of Responses. *)
EXTENDS Responses, TLC

Symmetry == Permutations(Gets) \cup Permutations(Threads)
=============================================================================

-------------------------- MODULE MCDataGenerator --------------------------
(* Finite instances of DataGenerator. *)
EXTENDS DataGenerator

CONSTANTS l1, l2, l3
=============================================================================

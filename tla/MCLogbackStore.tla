--------------------------- MODULE MCLogbackStore ---------------------------
(* Small instances of LogbackStore. *)
EXTENDS LogbackStore, TLC

CONSTANTS a, b, i1, i2

=============================================================================

------------------------------ MODULE MCStorage ------------------------------
(* A small instance of Storage: two rules, two keys of different lengths,    *)
(* and three configurations of the namespace.                                *)
EXTENDS Storage, TLC

CONSTANTS c1, c2, k1, k2

MCKeyLen == k1 :> 1 @@ k2 :> 2

Limited == [limit |-> 4, rw |-> {c1, c2}, r |-> {}]
NoLimit == [limit |-> Unlimited, rw |-> {c1, c2}, r |-> {}]
OneReads == {[limit |-> Unlimited, rw |-> {c}, r |-> {c1, c2} \ {c}] : c \in {c1, c2}}
MCConfigs == {Limited, NoLimit} \cup OneReads

(* The two rules are treated alike by every action and by MCConfigs. *)
Symmetry == Permutations({c1, c2})

=============================================================================

----------------------------- MODULE MCExecutor -----------------------------
(* Executor on small instances: up to two general threads, and one thread   *)
(* dedicated to log type "b" where that type is used; the channel of "a"    *)
(* has one rule, that of "b" two, and "c" has none.                         *)
EXTENDS Executor

CONSTANTS g1, g2, d1

MCPoolOf == [w \in Workers |-> IF w = d1 THEN "b" ELSE General]
MCQueueSize == [p \in Pool |-> 1]
MCRuleCount == [t \in LogTypes |-> CASE t = "a" -> 1 [] t = "b" -> 2 [] t = "c" -> 0]
=============================================================================

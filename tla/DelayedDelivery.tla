-------------------------- MODULE DelayedDelivery ---------------------------
(***************************************************************************)
(* What delayed logbacks promise, whatever instances, channels, polls and  *)
(* databases there are behind them: a logback is lost only while it is     *)
(* volatile; once it is durable it stays so until it is handed to the      *)
(* executor, which happens when its delay has passed; after that only a    *)
(* fault hands it over again.                                              *)
(***************************************************************************)
EXTENDS Naturals

CONSTANTS
    Logbacks,  \* the delayed logbacks rules may ask for
    MaxDelay   \* the longest delay they ask for

VARIABLES
    stage,  \* [Logbacks -> Stages]
    left    \* [Logbacks -> 0..MaxDelay], what is left of the delay asked for

vars == <<stage, left>>

Stages == {"unasked", "volatile", "durable", "handed", "gone"}

Init ==
    /\ stage = [m \in Logbacks |-> "unasked"]
    /\ left = [m \in Logbacks |-> 0]

Move(m, from, to) ==
    /\ stage[m] = from
    /\ stage' = [stage EXCEPT ![m] = to]

(* A rule calls log_back_detailed with a delay. *)
Ask(m) ==
    /\ Move(m, "unasked", "volatile")
    /\ \E d \in 1..MaxDelay : left' = [left EXCEPT ![m] = d]

(* The database has it. *)
Secure(m) == Move(m, "volatile", "durable") /\ UNCHANGED left

(* The executor has it: not before the delay has passed. *)
Hand(m) == Move(m, "durable", "handed") /\ left[m] = 0 /\ UNCHANGED left

(* The database no longer has it. *)
Settle(m) == Move(m, "handed", "gone") /\ UNCHANGED left

(* A crash or a storage error: what is volatile may be lost, what was       *)
(* handed over and not settled will be handed over again.                   *)
Fault ==
    /\ \E lost \in SUBSET {m \in Logbacks : stage[m] = "volatile"},
          again \in SUBSET {m \in Logbacks : stage[m] = "handed"} :
         stage' = [m \in Logbacks |-> IF m \in lost THEN "gone"
                                      ELSE IF m \in again THEN "durable"
                                      ELSE stage[m]]
    /\ UNCHANGED left

Tick ==
    /\ left' = [m \in Logbacks |-> IF left[m] = 0 THEN 0 ELSE left[m] - 1]
    /\ UNCHANGED stage

Next ==
    \/ Tick \/ Fault
    \/ \E m \in Logbacks : Ask(m) \/ Secure(m) \/ Hand(m) \/ Settle(m)

Spec == Init /\ [][Next]_vars

=============================================================================

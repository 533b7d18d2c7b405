---------------------------- MODULE SourceQueue -----------------------------
(***************************************************************************)
(* What the generators of one instance share: the bounded channel to the   *)
(* executor, of which only the number of waiting messages and whether it   *)
(* still has receivers matter here, and the token that tells them to stop. *)
(***************************************************************************)
EXTENDS Integers, FiniteSets

CONSTANTS
    QueueSize,   \* log_queue_size of the general pool
    MaxCrashes   \* bound: crashes in a behaviour

ASSUME SourceQueueAssumption ==
    /\ QueueSize \in Nat \ {0}
    /\ MaxCrashes \in Nat

VARIABLES
    waiting,    \* messages in the channel
    cancelled,  \* the cancellation token
    closed,     \* the receivers of the channel are dropped
    crashes     \* how often the instance crashed

queueVars == <<waiting, cancelled, closed, crashes>>

QueueTypeOK ==
    /\ waiting \in 0..QueueSize
    /\ cancelled \in BOOLEAN /\ closed \in BOOLEAN
    /\ crashes \in 0..MaxCrashes

QueueInit ==
    /\ waiting = 0
    /\ cancelled = FALSE /\ closed = FALSE
    /\ crashes = 0

HasRoom == waiting < QueueSize

(* mutant: the channel has no bound *)
Send_Unbounded == waiting' = waiting + 1

(* Sender::send blocks the caller while the channel is full; when the       *)
(* receivers are gone it returns an error and the message is dropped.       *)
Send ==
    /\ closed \/ HasRoom
    /\ waiting' = IF closed THEN waiting ELSE waiting + 1

(* Sender::try_send drops the message when the channel is full, or the      *)
(* receivers are gone.                                                      *)
TrySend == waiting' = IF HasRoom /\ ~closed THEN waiting + 1 ELSE waiting

(* Another source of the instance (a webhook, a polling generator, a rule   *)
(* that logs back) sends a message.                                         *)
OtherSends == ~closed /\ Send

(* An execution thread takes a message. *)
ExecutorTakes == waiting > 0 /\ waiting' = waiting - 1

Cancel == ~cancelled /\ cancelled' = TRUE

(* main drops the pools and the execution threads leave, with the last of   *)
(* the receivers.                                                           *)
DropReceivers == cancelled /\ waiting = 0 /\ closed' = TRUE

(* The instance dies with what its channel holds, and starts again. *)
QueueRestart ==
    /\ crashes < MaxCrashes
    /\ crashes' = crashes + 1
    /\ waiting' = 0
    /\ cancelled' = FALSE /\ closed' = FALSE

=============================================================================

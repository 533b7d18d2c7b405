-------------------------------- MODULE Sqs ---------------------------------
(***************************************************************************)
(* The SQS generator: it drains the queue, sends each message to the       *)
(* executor unless its id was seen, and deletes it from the queue.  The    *)
(* queue service, external, shows a message again when it was received and *)
(* not deleted in time, and now and then even after it was deleted: SQS    *)
(* delivers at least once.                                                 *)
(***************************************************************************)
EXTENDS SourceQueue, Sequences, SequencesExt

CONSTANTS
    Messages,        \* the messages that arrive in the SQS queue
    Bodyless,        \* those without a body
    SeenSize,        \* capacity of seen_messages, 4096 in the code
    MaxNumMessages,  \* max_num_messages of a receive
    MaxFaults        \* bound: failed deletes and deliveries after a delete

ASSUME SqsAssumption ==
    /\ Bodyless \subseteq Messages
    /\ SeenSize \in Nat \ {0}
    /\ MaxNumMessages \in Nat \ {0}
    /\ MaxFaults \in Nat

VARIABLES
    stask,   \* where the task is
    batch,   \* what the last receive returned and is not handled yet
    hand,    \* the message in hand (a set of at most one)
    seen,    \* seen_messages, an LRU cache of ids: a sequence, oldest first
    remote,  \* [Messages -> ...], the SQS queue
    faults   \* failed deletes and deliveries after a delete

(* History variables: they guard no action. *)
VARIABLES
    sent,    \* the messages sent since the instance started
    others,  \* [Messages -> SUBSET Messages], put in the cache since m was sent
    ever     \* the messages sent at some time

history == <<sent, others, ever>>
sqsVars == <<stask, batch, hand, seen, remote, faults, history>>

SqsTypeOK ==
    /\ stask \in {"off", "asleep", "receive", "handle", "send", "delete", "ended"}
    /\ batch \subseteq Messages
    /\ hand \subseteq Messages /\ Cardinality(hand) <= 1
    /\ \A k \in DOMAIN seen : seen[k] \in Messages
    /\ Len(seen) <= SeenSize
    /\ remote \in [Messages -> {"absent", "visible", "inflight", "deleted"}]
    /\ faults \in 0..MaxFaults
    /\ sent \subseteq Messages
    /\ others \in [Messages -> SUBSET Messages]
    /\ ever \subseteq Messages

SqsInit(on) ==
    /\ stask = IF on THEN "asleep" ELSE "off"
    /\ batch = {} /\ hand = {} /\ seen = <<>>
    /\ remote = [m \in Messages |-> "absent"]
    /\ faults = 0
    /\ sent = {} /\ ever = {}
    /\ others = [m \in Messages |-> {}]

-----------------------------------------------------------------------------
(* The queue service *)

Arrive(m) ==
    /\ stask # "off" /\ remote[m] = "absent"
    /\ remote' = [remote EXCEPT ![m] = "visible"]
    /\ UNCHANGED <<stask, batch, hand, seen, faults, history, queueVars>>

(* The visibility timeout of a received message passes. *)
VisibilityTimeout(m) ==
    /\ remote[m] = "inflight"
    /\ remote' = [remote EXCEPT ![m] = "visible"]
    /\ UNCHANGED <<stask, batch, hand, seen, faults, history, queueVars>>

(* A message is delivered again though it was deleted. *)
Redeliver(m) ==
    /\ remote[m] = "deleted"
    /\ faults < MaxFaults
    /\ faults' = faults + 1
    /\ remote' = [remote EXCEPT ![m] = "visible"]
    /\ UNCHANGED <<stask, batch, hand, seen, history, queueVars>>

-----------------------------------------------------------------------------
(* The task: drain_queue, then a sleep *)

Visible == {m \in Messages : remote[m] = "visible"}

SqsWake ==
    /\ stask = "asleep" /\ ~cancelled
    /\ stask' = "receive"
    /\ UNCHANGED <<batch, hand, seen, remote, faults, history, queueVars>>

(* receive_message returns some of the visible messages. *)
SqsReceive(got) ==
    /\ stask = "receive"
    /\ got # {} /\ Cardinality(got) <= MaxNumMessages
    /\ remote' = [m \in Messages |-> IF m \in got THEN "inflight" ELSE remote[m]]
    /\ batch' = got
    /\ stask' = "handle"
    /\ UNCHANGED <<hand, seen, faults, history, queueVars>>

(* It returns none of them, or an error: drain_queue returns. *)
SqsReceivesNone ==
    /\ stask = "receive"
    /\ stask' = "asleep"
    /\ UNCHANGED <<batch, hand, seen, remote, faults, history, queueVars>>

(* mutant: every message goes straight to its delete *)
AfterSeen_Deletes(m) == "delete"

(* mutant: the id is not looked up *)
AfterSeen_NoLookup(m) ==
    IF m \notin Bodyless THEN "send" ELSE IF m \in ToSet(seen) THEN "delete" ELSE "handle"

(* A message seen before is deleted; one without a body is only remembered. *)
AfterSeen(m) ==
    IF m \in ToSet(seen) THEN "delete" ELSE IF m \in Bodyless THEN "handle" ELSE "send"

(* LruCache::put of an id that is not in the cache.  A look at an id does   *)
(* not renew it, so the oldest one goes when the cache is full.             *)
Put(m) == Append(IF Len(seen) = SeenSize THEN Tail(seen) ELSE seen, m)

(* The next message of the batch: its id is put in the cache before it is   *)
(* sent.                                                                    *)
SqsHandle(m) ==
    /\ stask = "handle" /\ m \in batch
    /\ batch' = batch \ {m}
    /\ stask' = AfterSeen(m)
    /\ hand' = IF AfterSeen(m) = "handle" THEN {} ELSE {m}
    /\ IF m \in ToSet(seen) THEN UNCHANGED <<seen, others>>
       ELSE /\ seen' = Put(m)
            /\ others' = [n \in Messages |-> others[n] \cup ({m} \ {n})]
    /\ UNCHANGED <<remote, faults, sent, ever, queueVars>>

(* send_for_processing blocks while the executor's channel is full.  An     *)
(* error is only logged: the message is deleted though it was not sent.     *)
SqsSend ==
    /\ stask = "send"
    /\ Send
    /\ IF closed THEN UNCHANGED history
       ELSE /\ sent' = sent \cup hand
            /\ ever' = ever \cup hand
            /\ others' = [m \in Messages |-> IF m \in hand THEN {} ELSE others[m]]
    /\ stask' = "delete"
    /\ UNCHANGED <<batch, hand, seen, remote, faults, cancelled, closed, crashes>>

(* delete_message: an error is only logged. *)
SqsDelete ==
    /\ stask = "delete"
    /\ \/ /\ remote' = [m \in Messages |-> IF m \in hand THEN "deleted" ELSE remote[m]]
          /\ UNCHANGED faults
       \/ /\ faults < MaxFaults
          /\ faults' = faults + 1
          /\ UNCHANGED remote
    /\ hand' = {}
    /\ stask' = "handle"
    /\ UNCHANGED <<batch, seen, history, queueVars>>

(* The batch is handled: drain_queue receives again, without a look at the  *)
(* token.                                                                   *)
SqsBatchDone ==
    /\ stask = "handle" /\ batch = {}
    /\ stask' = "receive"
    /\ UNCHANGED <<batch, hand, seen, remote, faults, history, queueVars>>

(* The task of Data::start sees the token between two drains only. *)
SqsStop ==
    /\ stask = "asleep" /\ cancelled
    /\ stask' = "ended"
    /\ UNCHANGED <<batch, hand, seen, remote, faults, history, queueVars>>

SqsTask ==
    \/ SqsWake \/ SqsReceivesNone \/ SqsSend \/ SqsDelete \/ SqsBatchDone \/ SqsStop
    \/ \E got \in SUBSET Visible : SqsReceive(got)
    \/ \E m \in Messages : SqsHandle(m)

(* The cache and the batch are lost with the instance. *)
SqsRestart ==
    /\ stask' = IF stask = "off" THEN "off" ELSE "asleep"
    /\ batch' = {} /\ hand' = {} /\ seen' = <<>>
    /\ sent' = {}
    /\ others' = [m \in Messages |-> {}]
    /\ UNCHANGED <<remote, faults, ever>>

=============================================================================

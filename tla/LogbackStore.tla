---------------------------- MODULE LogbackStore ----------------------------
(***************************************************************************)
(* Delayed logbacks from the call of the rule to the executor queue: the   *)
(* instances of a deployment share one database; each of them persists the *)
(* delayed logbacks of its rules, and the instance with the logbacks role  *)
(* polls the database and sends what has elapsed.  Instances crash and     *)
(* start again; the provider fails.                                        *)
(*                                                                         *)
(* Time is kept relative: a duration counts down with every Tick, so that  *)
(* "due" and "now" need no bound.  Of the heap only the elapsed part is    *)
(* kept; messages that elapsed may be popped in any order.                 *)
(***************************************************************************)
EXTENDS Naturals, Sequences

CONSTANTS
    Logbacks,         \* the delayed logbacks rules may ask for
    Oversize,         \* those with more than MAX_BYTES of data
    MaxDelay,         \* bound: the delay of a logback, in ticks
    Instances,        \* the instances of the deployment
    LogbackRole,      \* the instances with the logbacks role
    ChannelCapacity,  \* CHANNEL_CAPACITY
    QueueSize,        \* log_queue_size of the general pool
    StorageFails,     \* whether the provider may return errors
    MaxCrashes,       \* bound: crashes in a behaviour
    MaxFaults,        \* bound: failed deletes of a logback
    MaxOthers,        \* bound: messages of other sources
    Other,            \* a message of another source
    None

ASSUME LogbackAssumption ==
    /\ Oversize \subseteq Logbacks
    /\ MaxDelay \in Nat \ {0}
    /\ LogbackRole \subseteq Instances
    /\ ChannelCapacity \in Nat
    /\ QueueSize \in Nat
    /\ StorageFails \in BOOLEAN
    /\ MaxCrashes \in Nat
    /\ MaxFaults \in Nat
    /\ MaxOthers \in Nat
    /\ Other \notin Logbacks
    /\ None \notin Logbacks \cup {Other} \cup Nat

VARIABLES
    delay,    \* [Logbacks -> 0..MaxDelay], what the rule asked for; 0: not yet
    channel,  \* [Instances -> Seq(Logbacks)], the delayed channels
    hand,     \* [Instances -> ...], received, not yet persisted
    db,       \* [Logbacks -> ...], LOGBACK_NS: the time left, or None
    poll,     \* [Instances -> ...], where fetch_internal_logs is
    heap,     \* [Instances -> SUBSET Logbacks], what has elapsed in this poll
    sent,     \* [Instances -> ...], sent and not deleted yet
    queue,    \* [Instances -> Seq(...)], the general channel of the executor
    crashes,  \* how often an instance crashed
    others    \* how many messages other sources sent

(* History variables: they guard no action but through named bounds. *)
VARIABLES
    wait,       \* [Logbacks -> 0..MaxDelay], what is left of the delay asked for
    persisted,  \* logbacks whose insert succeeded
    sends,      \* [Logbacks -> Nat], how often each was sent
    faults      \* [Logbacks -> Nat], sends whose delete did not happen

histVars == <<wait, persisted, sends, faults>>
vars == <<delay, channel, hand, db, poll, heap, sent, queue, crashes, others, histVars>>

TypeOK ==
    /\ delay \in [Logbacks -> 0..MaxDelay]
    /\ channel \in [Instances -> Seq(Logbacks)]
    /\ hand \in [Instances -> Logbacks \cup {None}]
    /\ db \in [Logbacks -> 0..MaxDelay \cup {None}]
    /\ poll \in [Instances -> {"idle", "work", "delete"}]
    /\ heap \in [Instances -> SUBSET Logbacks]
    /\ sent \in [Instances -> Logbacks \cup {None}]
    /\ queue \in [Instances -> Seq(Logbacks \cup {Other})]
    /\ crashes \in 0..MaxCrashes
    /\ others \in 0..MaxOthers
    /\ wait \in [Logbacks -> 0..MaxDelay]
    /\ persisted \subseteq Logbacks
    /\ sends \in [Logbacks -> Nat]
    /\ faults \in [Logbacks -> Nat]

Init ==
    /\ delay = [m \in Logbacks |-> 0]
    /\ channel = [i \in Instances |-> <<>>]
    /\ hand = [i \in Instances |-> None]
    /\ db = [m \in Logbacks |-> None]
    /\ poll = [i \in Instances |-> "idle"]
    /\ heap = [i \in Instances |-> {}]
    /\ sent = [i \in Instances |-> None]
    /\ queue = [i \in Instances |-> <<>>]
    /\ crashes = 0
    /\ others = 0
    /\ wait = [m \in Logbacks |-> 0]
    /\ persisted = {}
    /\ sends = [m \in Logbacks |-> 0]
    /\ faults = [m \in Logbacks |-> 0]

-----------------------------------------------------------------------------
(* The environment's clock. *)
CountDown(n) == IF n \in Nat \ {0} THEN n - 1 ELSE n

(* A second passes. *)
Tick ==
    /\ \E m \in Logbacks : wait[m] > 0 \/ db[m] \in Nat \ {0}
    /\ wait' = [m \in Logbacks |-> CountDown(wait[m])]
    /\ db' = [m \in Logbacks |-> CountDown(db[m])]
    /\ UNCHANGED <<delay, channel, hand, poll, heap, sent, queue, crashes, others,
                   persisted, sends, faults>>

(* dispatch_logback on the delayed route; a full channel refuses it. *)
Dispatch(i, m, d) ==
    /\ delay[m] = 0
    /\ Len(channel[i]) < ChannelCapacity
    /\ delay' = [delay EXCEPT ![m] = d]
    /\ channel' = [channel EXCEPT ![i] = Append(@, m)]
    /\ wait' = [wait EXCEPT ![m] = d]
    /\ UNCHANGED <<hand, db, poll, heap, sent, queue, crashes, others,
                   persisted, sends, faults>>

(* listen_for_incoming_logs *)
Receive(i) ==
    /\ hand[i] = None
    /\ channel[i] # <<>>
    /\ hand' = [hand EXCEPT ![i] = Head(channel[i])]
    /\ channel' = [channel EXCEPT ![i] = Tail(@)]
    /\ UNCHANGED <<delay, db, poll, heap, sent, queue, crashes, others, histVars>>

(* mutant: the delay is added twice to the time *)
DueTwice(m) == 2 * delay[m]

(* log.delay += current_time *)
Due(m) == delay[m]

(* persist_delayed_log: a failed insert is only logged. *)
Persist(i) ==
    LET m == hand[i] IN
    /\ m # None
    /\ \/ /\ db' = [db EXCEPT ![m] = Due(m)]
          /\ persisted' = persisted \cup {m}
       \/ /\ StorageFails
          /\ UNCHANGED <<db, persisted>>
    /\ hand' = [hand EXCEPT ![i] = None]
    /\ UNCHANGED <<delay, channel, poll, heap, sent, queue, crashes, others,
                   wait, sends, faults>>

(* mutant: the size check is the wrong way round *)
ReadableInverted == Oversize

(* The messages fill_heap_from_db can deserialize. *)
Readable == Logbacks \ Oversize

Elapsed == {m \in Readable : db[m] = 0}

(* fetch_internal_logs reads the time and the database; when fetch_all      *)
(* fails nothing happens until the next poll.                               *)
Poll(i) ==
    /\ i \in LogbackRole
    /\ poll[i] = "idle"
    /\ poll' = [poll EXCEPT ![i] = "work"]
    /\ heap' = [heap EXCEPT ![i] = Elapsed]
    /\ UNCHANGED <<delay, channel, hand, db, sent, queue, crashes, others, histVars>>

(* try_send of the top of the heap *)
Send(i) ==
    /\ poll[i] = "work"
    /\ Len(queue[i]) < QueueSize
    /\ \E m \in heap[i] :
         /\ queue' = [queue EXCEPT ![i] = Append(@, m)]
         /\ heap' = [heap EXCEPT ![i] = @ \ {m}]
         /\ sent' = [sent EXCEPT ![i] = m]
         /\ sends' = [sends EXCEPT ![m] = @ + 1]
    /\ poll' = [poll EXCEPT ![i] = "delete"]
    /\ UNCHANGED <<delay, channel, hand, db, crashes, others,
                   wait, persisted, faults>>

(* mutant: the whole batch is deleted with the first logback *)
DeleteBatch(i) ==
    [m \in Logbacks |-> IF m = sent[i] \/ m \in heap[i] THEN None ELSE db[m]]

DeleteSent(i) == [db EXCEPT ![sent[i]] = None]

(* storage.delete after the send; its failure is only logged. *)
Delete(i) ==
    /\ poll[i] = "delete"
    /\ \/ db' = DeleteSent(i) /\ UNCHANGED faults
       \/ /\ StorageFails
          /\ faults[sent[i]] < MaxFaults
          /\ faults' = [faults EXCEPT ![sent[i]] = @ + 1]
          /\ UNCHANGED db
    /\ sent' = [sent EXCEPT ![i] = None]
    /\ poll' = [poll EXCEPT ![i] = "work"]
    /\ UNCHANGED <<delay, channel, hand, heap, queue, crashes, others,
                   wait, persisted, sends>>

(* Nothing elapsed is left, or the queue is full. *)
PollEnd(i) ==
    /\ poll[i] = "work"
    /\ heap[i] = {} \/ Len(queue[i]) >= QueueSize
    /\ poll' = [poll EXCEPT ![i] = "idle"]
    /\ heap' = [heap EXCEPT ![i] = {}]
    /\ UNCHANGED <<delay, channel, hand, db, sent, queue, crashes, others, histVars>>

(* Other sources fill the queue, the execution threads empty it. *)
Fill(i) ==
    /\ Len(queue[i]) < QueueSize
    /\ others < MaxOthers
    /\ others' = others + 1
    /\ queue' = [queue EXCEPT ![i] = Append(@, Other)]
    /\ UNCHANGED <<delay, channel, hand, db, poll, heap, sent, crashes, histVars>>

Take(i) ==
    /\ queue[i] # <<>>
    /\ queue' = [queue EXCEPT ![i] = Tail(@)]
    /\ UNCHANGED <<delay, channel, hand, db, poll, heap, sent, crashes, others,
                   histVars>>

(* An instance dies, at any point, and starts again: what was in memory is  *)
(* gone, the database is as it was.                                         *)
Crash(i) ==
    /\ crashes < MaxCrashes
    /\ crashes' = crashes + 1
    /\ channel' = [channel EXCEPT ![i] = <<>>]
    /\ hand' = [hand EXCEPT ![i] = None]
    /\ poll' = [poll EXCEPT ![i] = "idle"]
    /\ heap' = [heap EXCEPT ![i] = {}]
    /\ sent' = [sent EXCEPT ![i] = None]
    /\ queue' = [queue EXCEPT ![i] = <<>>]
    /\ faults' = [m \in Logbacks |-> IF m = sent[i] THEN faults[m] + 1 ELSE faults[m]]
    /\ UNCHANGED <<delay, db, others, wait, persisted, sends>>

Fetcher(i) == Poll(i) \/ Send(i) \/ Delete(i) \/ PollEnd(i)

Next ==
    \/ Tick
    \/ \E i \in Instances :
         \/ \E m \in Logbacks, d \in 1..MaxDelay : Dispatch(i, m, d)
         \/ Receive(i) \/ Persist(i)
         \/ Fetcher(i)
         \/ Fill(i) \/ Take(i)
         \/ Crash(i)

Spec == Init /\ [][Next]_vars

(* Time passes, tasks are scheduled and the threads empty the queue.  The   *)
(* code gives logbacks no priority over other sources, which could keep the *)
(* queue full at every poll: MaxOthers is also the assumption that the load *)
(* ends.                                                                    *)
Fairness ==
    /\ WF_vars(Tick)
    /\ \A i \in Instances :
         /\ WF_vars(Receive(i)) /\ WF_vars(Persist(i))
         /\ WF_vars(Fetcher(i)) /\ WF_vars(Take(i))

FairSpec == Spec /\ Fairness

-----------------------------------------------------------------------------
(* Properties *)

(* Sent and not deleted yet; in the memory of some instance. *)
IsSent(m) == \E i \in Instances : sent[i] = m

IsHeld(m) ==
    \E i \in Instances : hand[i] = m \/ \E k \in DOMAIN channel[i] : channel[i][k] = m

(* Where a logback is, seen from the rule that asked for it. *)
Stage(m) ==
    IF delay[m] = 0 THEN "unasked"
    ELSE IF IsSent(m) THEN "handed"
    ELSE IF db[m] # None THEN "durable"
    ELSE IF IsHeld(m) THEN "volatile"
    ELSE "gone"

Delivery == INSTANCE DelayedDelivery
    WITH stage <- [m \in Logbacks |-> Stage(m)], left <- wait

(* The channels, polls and databases of several instances, with one of them *)
(* in the logbacks role, implement delayed delivery: the time a logback     *)
(* spends in a channel and in the database, across restarts, never makes it *)
(* early; once its insert succeeded it is not deleted before it was sent;   *)
(* it is sent again only when the delete after the last send failed or the  *)
(* instance died before it.                                                 *)
ImplementsDelivery == Delivery!Spec

(* A logback that is in the database is sent, in spite of crashes, failed   *)
(* deletes and a queue that was full at some polls; one with more than      *)
(* MAX_BYTES of data cannot be read back and is not.                        *)
PersistedIsSent ==
    \A m \in Logbacks \ Oversize : m \in persisted ~> sends[m] > 0

=============================================================================

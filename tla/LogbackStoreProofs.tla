-------------------------- MODULE LogbackStoreProofs --------------------------
(***************************************************************************)
(* Proofs about LogbackStore, for any number of instances, logbacks,       *)
(* crashes and storage errors.  With any number of instances in the        *)
(* logbacks role a logback is never sent early and never dropped unsent    *)
(* once it was persisted; with at most one of them the store implements    *)
(* DelayedDelivery.                                                        *)
(***************************************************************************)
EXTENDS LogbackStore, SequenceTheorems, TLAPS

(* Nothing knows a logback no rule has asked for. *)
Unasked ==
    \A m \in Logbacks : delay[m] = 0 =>
        /\ db[m] = None /\ m \notin persisted
        /\ \A i \in Instances :
             /\ hand[i] # m /\ sent[i] # m /\ m \notin heap[i]
             /\ \A k \in 1..Len(channel[i]) : channel[i][k] # m

(* A logback in memory is in one place, and not in the database yet. *)
InMemory ==
    /\ \A i \in Instances : \A k \in 1..Len(channel[i]) :
         channel[i][k] \notin persisted /\ db[channel[i][k]] = None
    /\ \A i, j \in Instances : \A k \in 1..Len(channel[i]), l \in 1..Len(channel[j]) :
         channel[i][k] = channel[j][l] => i = j /\ k = l
    /\ \A i, j \in Instances : \A k \in 1..Len(channel[i]) : channel[i][k] # hand[j]
    /\ \A i \in Instances : hand[i] # None => hand[i] \notin persisted /\ db[hand[i]] = None
    /\ \A i, j \in Instances : hand[i] # None /\ hand[i] = hand[j] => i = j

(* The database never runs ahead of the delay asked for, and a poll only   *)
(* took up what had elapsed.                                               *)
Punctual ==
    /\ \A m \in Logbacks : wait[m] <= delay[m] /\ (db[m] # None => wait[m] <= db[m])
    /\ \A i \in Instances : \A m \in heap[i] : wait[m] = 0

(* What a poll sent and has not deleted. *)
Sending ==
    \A i \in Instances :
        /\ poll[i] = "delete" <=> sent[i] # None
        /\ sent[i] # None => sends[sent[i]] > 0

(* A logback whose insert succeeded stays in the database until some       *)
(* instance has sent it.                                                   *)
DurableUntilSent == \A m \in persisted : sends[m] = 0 => db[m] # None

IInv == /\ TypeOK /\ Unasked /\ InMemory /\ Punctual /\ Sending /\ DurableUntilSent

(* At most one instance has the logbacks role: a choice of whoever deploys *)
(* the instances, which the code does not enforce.                         *)
OnePoller == \A i, j \in LogbackRole : i = j

(* With one poller, what it holds is in the database as it read it. *)
Exclusive ==
    \A i \in Instances :
        /\ poll[i] # "idle" => i \in LogbackRole
        /\ poll[i] = "idle" => heap[i] = {}
        /\ \A m \in heap[i] : db[m] = 0 /\ sent[i] # m
        /\ sent[i] # None => db[sent[i]] = 0

USE DEF histVars

-----------------------------------------------------------------------------
(* Channels *)

(* What Append and Tail do to the positions of a channel. *)
LEMMA Appended ==
    ASSUME NEW S, NEW s \in Seq(S), NEW m \in S
    PROVE  /\ Append(s, m) \in Seq(S)
           /\ Len(s) \in Nat
           /\ Len(Append(s, m)) = Len(s) + 1
           /\ \A k \in 1..Len(Append(s, m)) :
                Append(s, m)[k] = IF k = Len(s) + 1 THEN m ELSE s[k]
<1>1. /\ Append(s, m) \in Seq(S)
      /\ Len(s) \in Nat
      /\ Len(Append(s, m)) = Len(s) + 1
      /\ \A k \in 1..Len(s) : Append(s, m)[k] = s[k]
      /\ Append(s, m)[Len(s) + 1] = m
  BY AppendProperties, LenProperties
<1>2. \A k \in 1..Len(s) + 1 : k = Len(s) + 1 \/ k \in 1..Len(s)
  BY <1>1
<1> QED BY <1>1, <1>2

LEMMA Taken ==
    ASSUME NEW S, NEW s \in Seq(S), s # <<>>
    PROVE  /\ Head(s) \in S /\ Head(s) = s[1]
           /\ Tail(s) \in Seq(S)
           /\ Len(s) \in Nat \ {0}
           /\ Len(Tail(s)) = Len(s) - 1
           /\ \A k \in 1..Len(Tail(s)) : Tail(s)[k] = s[k+1] /\ k+1 \in 1..Len(s)
<1>1. /\ Head(s) \in S /\ Head(s) = s[1]
      /\ Tail(s) \in Seq(S)
      /\ Len(Tail(s)) = Len(s) - 1
      /\ \A k \in 1..Len(Tail(s)) : Tail(s)[k] = s[k+1]
  BY HeadTailProperties
<1>2. Len(s) \in Nat \ {0}
  BY EmptySeq
<1> QED BY <1>1, <1>2

(* A member of a channel is a logback. *)
LEMMA ChannelType ==
    ASSUME TypeOK, NEW i \in Instances
    PROVE  /\ channel[i] \in Seq(Logbacks)
           /\ DOMAIN channel[i] = 1..Len(channel[i])
           /\ \A k \in 1..Len(channel[i]) : channel[i][k] \in Logbacks
<1>1. channel[i] \in Seq(Logbacks)
  BY DEF TypeOK
<1> QED BY <1>1, LenProperties, ElementOfSeq

(* The members of the channels after a logback was dispatched, ... *)
LEMMA ChannelsAfterDispatch ==
    ASSUME TypeOK, NEW i \in Instances, NEW m \in Logbacks, NEW d \in 1..MaxDelay,
           Dispatch(i, m, d), NEW j \in Instances, NEW k \in 1..Len(channel'[j])
    PROVE  \/ j = i /\ k = Len(channel[i]) + 1 /\ channel'[j][k] = m
           \/ k \in 1..Len(channel[j]) /\ channel'[j][k] = channel[j][k]
<1>1. channel \in [Instances -> Seq(Logbacks)]
  BY DEF TypeOK
<1>2. channel' = [channel EXCEPT ![i] = Append(channel[i], m)]
  BY DEF Dispatch
<1>3. CASE j = i
  <2>1. channel'[j] = Append(channel[i], m)
    BY <1>1, <1>2, <1>3
  <2>2. /\ Len(channel[i]) \in Nat
        /\ Len(Append(channel[i], m)) = Len(channel[i]) + 1
        /\ \A l \in 1..Len(Append(channel[i], m)) :
             Append(channel[i], m)[l] = IF l = Len(channel[i]) + 1 THEN m ELSE channel[i][l]
    BY <1>1, Appended
  <2>3. k \in 1..Len(channel[i]) + 1
    BY <2>1, <2>2
  <2>4. k = Len(channel[i]) + 1 \/ k \in 1..Len(channel[i])
    BY <2>2, <2>3
  <2> QED BY <1>3, <2>1, <2>2, <2>4
<1>4. CASE j # i
  BY <1>1, <1>2, <1>4
<1> QED BY <1>3, <1>4

(* ... received, ... *)
LEMMA ChannelsAfterReceive ==
    ASSUME TypeOK, NEW i \in Instances, Receive(i)
    PROVE  /\ 1 \in 1..Len(channel[i]) /\ hand'[i] = channel[i][1]
           /\ hand'[i] \in Logbacks
           /\ \A j \in Instances : \A k \in 1..Len(channel'[j]) :
                LET l == IF j = i THEN k + 1 ELSE k
                IN  l \in 1..Len(channel[j]) /\ channel'[j][k] = channel[j][l]
<1>1. channel \in [Instances -> Seq(Logbacks)] /\ hand \in [Instances -> Logbacks \cup {None}]
  BY DEF TypeOK
<1>2. /\ channel' = [channel EXCEPT ![i] = Tail(channel[i])]
      /\ hand' = [hand EXCEPT ![i] = Head(channel[i])]
      /\ channel[i] # <<>>
  BY DEF Receive
<1>3. /\ Head(channel[i]) \in Logbacks /\ Head(channel[i]) = channel[i][1]
      /\ Len(channel[i]) \in Nat \ {0}
      /\ \A k \in 1..Len(Tail(channel[i])) :
           Tail(channel[i])[k] = channel[i][k+1] /\ k+1 \in 1..Len(channel[i])
  BY <1>1, <1>2, Taken
<1>4. 1 \in 1..Len(channel[i])
  BY <1>3
<1>5. channel'[i] = Tail(channel[i]) /\ \A j \in Instances \ {i} : channel'[j] = channel[j]
  BY <1>1, <1>2
<1>6. ASSUME NEW j \in Instances, NEW k \in 1..Len(channel'[j])
      PROVE  LET l == IF j = i THEN k + 1 ELSE k
             IN  l \in 1..Len(channel[j]) /\ channel'[j][k] = channel[j][l]
  <2>1. CASE j = i
    BY <1>3, <1>5, <2>1
  <2>2. CASE j # i
    BY <1>5, <2>2
  <2> QED BY <2>1, <2>2
<1> QED BY <1>1, <1>2, <1>3, <1>4, <1>6

(* ... or the memory of an instance was lost. *)
LEMMA ChannelsAfterCrash ==
    ASSUME TypeOK, NEW i \in Instances, Crash(i)
    PROVE  \A j \in Instances : \A k \in 1..Len(channel'[j]) :
             j # i /\ channel'[j] = channel[j]
<1>1. /\ channel \in [Instances -> Seq(Logbacks)]
      /\ channel' = [channel EXCEPT ![i] = <<>>]
  BY DEF TypeOK, Crash
<1>2. Len(channel'[i]) = 0
  BY <1>1, EmptySeq
<1> QED BY <1>1, <1>2

(* A time left is not None, and counts down to a time left. *)
LEMMA TimeLeft ==
    /\ \A n \in Nat : n # None /\ CountDown(n) \in Nat /\ CountDown(n) <= n
    /\ CountDown(0) = 0 /\ CountDown(None) = None
    /\ \A n \in 0..MaxDelay : CountDown(n) \in 0..MaxDelay
    /\ \A n, k \in Nat : n <= k => CountDown(n) <= CountDown(k)
  BY LogbackAssumption DEF CountDown

(* What has elapsed in the database has waited as long as it asked to. *)
LEMMA ElapsedHasWaited ==
    ASSUME TypeOK, Punctual, NEW m \in Elapsed
    PROVE  m \in Logbacks /\ db[m] = 0 /\ wait[m] = 0
<1>1. m \in Logbacks /\ db[m] = 0 /\ db[m] # None
  BY TimeLeft DEF Elapsed, Readable
<1> QED BY <1>1, LogbackAssumption DEF TypeOK, Punctual

-----------------------------------------------------------------------------
LEMMA InitIInv == Init => IInv /\ Exclusive
  <1> SUFFICES ASSUME Init PROVE IInv /\ Exclusive
    OBVIOUS
  <1> USE LogbackAssumption DEF Init
  <1>1. TypeOK
    BY EmptySeq DEF TypeOK
  <1>2. \A i \in Instances : Len(channel[i]) = 0
    BY EmptySeq
  <1>3. Unasked
    BY <1>2 DEF Unasked
  <1>4. InMemory
    BY <1>2 DEF InMemory
  <1>5. Punctual /\ Sending /\ DurableUntilSent /\ Exclusive
    BY DEF Punctual, Sending, DurableUntilSent, Exclusive
  <1> QED
    BY <1>1, <1>3, <1>4, <1>5 DEF IInv

LEMMA TypeInductive ==
    ASSUME IInv, [Next]_vars
    PROVE  TypeOK'
  <1> USE LogbackAssumption DEF IInv, TypeOK
  <1>1. CASE Tick
    BY <1>1 DEF Tick, CountDown
  <1>2. ASSUME NEW i \in Instances, NEW m \in Logbacks, NEW d \in 1..MaxDelay,
               Dispatch(i, m, d)
        PROVE  TypeOK'
    <2>1. Append(channel[i], m) \in Seq(Logbacks)
      BY Appended
    <2> QED
      BY <1>2, <2>1 DEF Dispatch
  <1>3. ASSUME NEW i \in Instances, Receive(i)
        PROVE  TypeOK'
    <2>1. Head(channel[i]) \in Logbacks /\ Tail(channel[i]) \in Seq(Logbacks)
      BY <1>3, Taken DEF Receive
    <2> QED
      BY <1>3, <2>1 DEF Receive
  <1>4. ASSUME NEW i \in Instances, Persist(i)
        PROVE  TypeOK'
    <2>1. hand[i] \in Logbacks
      BY <1>4 DEF Persist
    <2>2. /\ db' \in [Logbacks -> 0..MaxDelay \cup {None}]
          /\ persisted' \subseteq Logbacks
      BY <1>4, <2>1 DEF Persist, Due
    <2>3. /\ hand' \in [Instances -> Logbacks \cup {None}]
          /\ UNCHANGED <<delay, channel, poll, heap, sent, queue, crashes, others,
                         wait, sends, faults>>
      BY <1>4 DEF Persist
    <2> QED
      BY <2>2, <2>3
  <1>5. ASSUME NEW i \in Instances, Poll(i) \/ PollEnd(i)
        PROVE  TypeOK'
    <2>1. Elapsed \in SUBSET Logbacks
      BY DEF Elapsed, Readable
    <2> QED
      BY <1>5, <2>1 DEF Poll, PollEnd
  <1>6. ASSUME NEW i \in Instances, Send(i)
        PROVE  TypeOK'
    <2>1. PICK m \in heap[i] : /\ queue' = [queue EXCEPT ![i] = Append(@, m)]
                               /\ heap' = [heap EXCEPT ![i] = @ \ {m}]
                               /\ sent' = [sent EXCEPT ![i] = m]
                               /\ sends' = [sends EXCEPT ![m] = @ + 1]
      BY <1>6 DEF Send
    <2>2. Append(queue[i], m) \in Seq(Logbacks \cup {Other})
      BY Appended
    <2>3. queue' \in [Instances -> Seq(Logbacks \cup {Other})]
      BY <2>1, <2>2
    <2>4. /\ heap' \in [Instances -> SUBSET Logbacks]
          /\ sent' \in [Instances -> Logbacks \cup {None}]
          /\ sends' \in [Logbacks -> Nat]
      BY <2>1
    <2>5. /\ poll' \in [Instances -> {"idle", "work", "delete"}]
          /\ UNCHANGED <<delay, channel, hand, db, crashes, others, wait, persisted, faults>>
      BY <1>6 DEF Send
    <2> QED
      BY <2>3, <2>4, <2>5
  <1>7. ASSUME NEW i \in Instances, Delete(i)
        PROVE  TypeOK'
    <2>1. sent[i] \in Logbacks
      BY <1>7 DEF Delete, Sending
    <2>2. /\ db' \in [Logbacks -> 0..MaxDelay \cup {None}]
          /\ faults' \in [Logbacks -> Nat]
      <3>1. CASE db' = DeleteSent(i) /\ UNCHANGED faults
        BY <2>1, <3>1 DEF DeleteSent
      <3>2. CASE faults' = [faults EXCEPT ![sent[i]] = @ + 1] /\ UNCHANGED db
        BY <2>1, <3>2
      <3> QED
        BY <1>7, <3>1, <3>2 DEF Delete
    <2>3. /\ sent' \in [Instances -> Logbacks \cup {None}]
          /\ poll' \in [Instances -> {"idle", "work", "delete"}]
          /\ UNCHANGED <<delay, channel, hand, heap, queue, crashes, others,
                         wait, persisted, sends>>
      BY <1>7 DEF Delete
    <2> QED
      BY <2>2, <2>3
  <1>8. ASSUME NEW i \in Instances, Fill(i)
        PROVE  TypeOK'
    <2>1. Append(queue[i], Other) \in Seq(Logbacks \cup {Other})
      BY Appended
    <2> QED
      BY <1>8, <2>1 DEF Fill
  <1>9. ASSUME NEW i \in Instances, Take(i)
        PROVE  TypeOK'
    <2>1. Tail(queue[i]) \in Seq(Logbacks \cup {Other})
      BY <1>9, Taken DEF Take
    <2> QED
      BY <1>9, <2>1 DEF Take
  <1>10. ASSUME NEW i \in Instances, Crash(i)
         PROVE  TypeOK'
    BY <1>10, EmptySeq DEF Crash
  <1>11. CASE UNCHANGED vars
    BY <1>11 DEF vars
  <1> QED
    BY <1>1, <1>2, <1>3, <1>4, <1>5, <1>6, <1>7, <1>8, <1>9, <1>10, <1>11 DEF Next, Fetcher

LEMMA UnaskedInductive ==
    ASSUME IInv, [Next]_vars
    PROVE  Unasked'
  <1> USE DEF IInv
  <1>1. CASE Tick
    BY <1>1, TimeLeft DEF Tick, TypeOK, Unasked
  <1>2. ASSUME NEW i \in Instances, NEW m \in Logbacks, NEW d \in 1..MaxDelay,
               Dispatch(i, m, d)
        PROVE  Unasked'
    <2>1. \A n \in Logbacks : delay'[n] = 0 => delay[n] = 0 /\ n # m
      BY <1>2 DEF Dispatch, TypeOK
    <2>2. UNCHANGED <<hand, db, heap, sent, persisted>>
      BY <1>2 DEF Dispatch
    <2>3. \A n \in Logbacks : delay'[n] = 0 =>
            \A j \in Instances : \A k \in 1..Len(channel'[j]) : channel'[j][k] # n
      BY <1>2, <2>1, ChannelsAfterDispatch DEF Unasked
    <2> QED
      BY <2>1, <2>2, <2>3 DEF Unasked
  <1>3. ASSUME NEW i \in Instances, Receive(i)
        PROVE  Unasked'
    <2>1. UNCHANGED <<delay, db, heap, sent, persisted>>
      BY <1>3 DEF Receive
    <2>2. \A m \in Logbacks : delay[m] = 0 =>
            /\ hand'[i] # m
            /\ \A j \in Instances : \A k \in 1..Len(channel'[j]) : channel'[j][k] # m
      BY <1>3, ChannelsAfterReceive DEF Unasked
    <2>3. \A j \in Instances \ {i} : hand'[j] = hand[j]
      BY <1>3 DEF Receive, TypeOK
    <2> QED
      BY <2>1, <2>2, <2>3 DEF Unasked
  <1>4. ASSUME NEW i \in Instances, Persist(i)
        PROVE  Unasked'
    <2>1. /\ \A m \in Logbacks \ {hand[i]} :
               db'[m] = db[m] /\ (m \in persisted' => m \in persisted)
          /\ UNCHANGED <<delay, channel, heap, sent>>
          /\ \A j \in Instances : hand'[j] \in {hand[j], None}
      BY <1>4 DEF Persist, TypeOK
    <2> QED
      BY <2>1, LogbackAssumption DEF Unasked
  <1>5. ASSUME NEW i \in Instances, Poll(i) \/ PollEnd(i)
        PROVE  Unasked'
    <2>1. \A m \in Logbacks : delay[m] = 0 => m \notin Elapsed
      BY ElapsedHasWaited, TimeLeft DEF Unasked
    <2>2. \A j \in Instances : heap'[j] = heap[j] \/ heap'[j] = Elapsed \/ heap'[j] = {}
      BY <1>5 DEF Poll, PollEnd, TypeOK
    <2>3. UNCHANGED <<delay, channel, hand, db, sent, persisted>>
      BY <1>5 DEF Poll, PollEnd
    <2> QED
      BY <2>1, <2>2, <2>3 DEF Unasked
  <1>6. ASSUME NEW i \in Instances, Send(i)
        PROVE  Unasked'
    <2>1. /\ \A j \in Instances : /\ heap'[j] \subseteq heap[j]
                                  /\ sent'[j] = sent[j] \/ sent'[j] \in heap[j]
          /\ UNCHANGED <<delay, channel, hand, db, persisted>>
      BY <1>6 DEF Send, TypeOK
    <2> QED
      BY <2>1 DEF Unasked
  <1>7. ASSUME NEW i \in Instances, Delete(i)
        PROVE  Unasked'
    <2>1. /\ \A m \in Logbacks : db'[m] \in {db[m], None}
          /\ \A j \in Instances : sent'[j] \in {sent[j], None}
          /\ UNCHANGED <<delay, channel, hand, heap, persisted>>
      BY <1>7 DEF Delete, DeleteSent, TypeOK
    <2> QED
      BY <2>1, LogbackAssumption DEF Unasked
  <1>8. ASSUME NEW i \in Instances, Fill(i) \/ Take(i)
        PROVE  Unasked'
    BY <1>8 DEF Fill, Take, Unasked
  <1>9. ASSUME NEW i \in Instances, Crash(i)
        PROVE  Unasked'
    <2>1. /\ UNCHANGED <<delay, db, persisted>>
          /\ \A j \in Instances : /\ hand'[j] \in {hand[j], None}
                                  /\ sent'[j] \in {sent[j], None}
                                  /\ heap'[j] \subseteq heap[j]
      BY <1>9 DEF Crash, TypeOK
    <2> QED
      BY <1>9, <2>1, ChannelsAfterCrash, LogbackAssumption DEF Unasked
  <1>10. CASE UNCHANGED vars
    BY <1>10 DEF vars, Unasked
  <1> QED
    BY <1>1, <1>2, <1>3, <1>4, <1>5, <1>6, <1>7, <1>8, <1>9, <1>10 DEF Next, Fetcher

(* A logback is dispatched once, received once and persisted once: nothing *)
(* in memory is anywhere else.                                             *)
LEMMA InMemoryInductive ==
    ASSUME IInv, [Next]_vars
    PROVE  InMemory'
  <1> USE DEF IInv
  <1>1. CASE Tick
    <2>1. UNCHANGED <<channel, hand, persisted>>
      BY <1>1 DEF Tick
    <2>2. \A m \in Logbacks : db[m] = None => db'[m] = None
      BY <1>1, TimeLeft DEF Tick, TypeOK
    <2>3. \A i \in Instances : hand[i] # None => hand[i] \in Logbacks
      BY DEF TypeOK
    <2> QED
      BY <2>1, <2>2, <2>3, ChannelType DEF InMemory
  <1>2. ASSUME NEW i \in Instances, NEW m \in Logbacks, NEW d \in 1..MaxDelay,
               Dispatch(i, m, d)
        PROVE  InMemory'
    <2>1. delay[m] = 0 /\ UNCHANGED <<hand, db, persisted>>
      BY <1>2 DEF Dispatch
    <2>2. /\ db[m] = None /\ m \notin persisted
          /\ \A j \in Instances : hand[j] # m /\ \A k \in 1..Len(channel[j]) : channel[j][k] # m
      BY <2>1 DEF Unasked
    <2>3. ASSUME NEW j \in Instances, NEW k \in 1..Len(channel'[j])
          PROVE  \/ j = i /\ k = Len(channel[i]) + 1 /\ channel'[j][k] = m
                 \/ k \in 1..Len(channel[j]) /\ channel'[j][k] = channel[j][k]
      BY <1>2, ChannelsAfterDispatch
    <2>4. \A j \in Instances : \A k \in 1..Len(channel'[j]) :
            channel'[j][k] \notin persisted' /\ db'[channel'[j][k]] = None
      BY <2>1, <2>2, <2>3 DEF InMemory
    <2>5. ASSUME NEW j \in Instances, NEW n \in Instances, NEW k \in 1..Len(channel'[j]),
                 NEW l \in 1..Len(channel'[n]), channel'[j][k] = channel'[n][l]
          PROVE  j = n /\ k = l
      <3>1. CASE channel'[j][k] = m
        <4>1. j = i /\ k = Len(channel[i]) + 1
          BY <2>2, <2>3, <3>1
        <4>2. n = i /\ l = Len(channel[i]) + 1
          BY <2>2, <2>3, <2>5, <3>1
        <4> QED
          BY <4>1, <4>2
      <3>2. CASE channel'[j][k] # m
        <4>1. k \in 1..Len(channel[j]) /\ channel[j][k] = channel'[j][k]
          BY <2>3, <3>2
        <4>2. l \in 1..Len(channel[n]) /\ channel[n][l] = channel'[n][l]
          BY <2>3, <2>5, <3>2
        <4> QED
          BY <2>5, <4>1, <4>2 DEF InMemory
      <3> QED
        BY <3>1, <3>2
    <2>6. \A j, n \in Instances : \A k \in 1..Len(channel'[j]) : channel'[j][k] # hand'[n]
      BY <2>1, <2>2, <2>3 DEF InMemory
    <2>7. \A j, n \in Instances :
            /\ hand'[j] # None => hand'[j] \notin persisted' /\ db'[hand'[j]] = None
            /\ hand'[j] # None /\ hand'[j] = hand'[n] => j = n
      BY <2>1 DEF InMemory
    <2> QED
      BY <2>4, <2>5, <2>6, <2>7 DEF InMemory
  <1>3. ASSUME NEW i \in Instances, Receive(i)
        PROVE  InMemory'
    <2>1. hand[i] = None /\ UNCHANGED <<db, persisted>>
      BY <1>3 DEF Receive
    <2>2. /\ 1 \in 1..Len(channel[i]) /\ hand'[i] = channel[i][1]
          /\ hand'[i] \in Logbacks
          /\ \A j \in Instances : \A k \in 1..Len(channel'[j]) :
               LET l == IF j = i THEN k + 1 ELSE k
               IN  l \in 1..Len(channel[j]) /\ channel'[j][k] = channel[j][l]
      BY <1>3, ChannelsAfterReceive
    <2>3. \A j \in Instances \ {i} : hand'[j] = hand[j]
      BY <1>3 DEF Receive, TypeOK
    <2>4. \A j \in Instances : \A k \in 1..Len(channel'[j]) : channel'[j][k] # hand'[i]
      BY <2>2 DEF InMemory
    <2>5. \A j \in Instances \ {i} : hand[j] # hand'[i]
      BY <2>2 DEF InMemory
    <2>6. ASSUME NEW j \in Instances, NEW n \in Instances, NEW k \in 1..Len(channel'[j]),
                 NEW l \in 1..Len(channel'[n]), channel'[j][k] = channel'[n][l]
          PROVE  j = n /\ k = l
      <3> DEFINE kk == IF j = i THEN k + 1 ELSE k
                 ll == IF n = i THEN l + 1 ELSE l
      <3>1. /\ kk \in 1..Len(channel[j]) /\ channel'[j][k] = channel[j][kk]
            /\ ll \in 1..Len(channel[n]) /\ channel'[n][l] = channel[n][ll]
        BY <2>2
      <3>2. \A x \in 1..Len(channel[j]), y \in 1..Len(channel[n]) :
              channel[j][x] = channel[n][y] => j = n /\ x = y
        BY DEF InMemory
      <3>3. j = n /\ kk = ll
        <4> HIDE DEF kk, ll, IInv
        <4> QED
          BY <2>6, <3>1, <3>2
      <3>4. k \in Int /\ l \in Int
        OBVIOUS
      <3> QED
        BY <3>3, <3>4
    <2>7. \A j \in Instances : \A k \in 1..Len(channel'[j]) :
            channel'[j][k] \notin persisted' /\ db'[channel'[j][k]] = None
      BY <2>1, <2>2 DEF InMemory
    <2>8. \A j, n \in Instances : \A k \in 1..Len(channel'[j]) : channel'[j][k] # hand'[n]
      BY <2>2, <2>3, <2>4 DEF InMemory
    <2>9. \A j, n \in Instances :
            /\ hand'[j] # None => hand'[j] \notin persisted' /\ db'[hand'[j]] = None
            /\ hand'[j] # None /\ hand'[j] = hand'[n] => j = n
      BY <2>1, <2>2, <2>3, <2>5 DEF InMemory
    <2> QED
      BY <2>6, <2>7, <2>8, <2>9 DEF InMemory
  <1>4. ASSUME NEW i \in Instances, Persist(i)
        PROVE  InMemory'
    <2>1. /\ \A m \in Logbacks \ {hand[i]} :
               db'[m] = db[m] /\ (m \in persisted' => m \in persisted)
          /\ hand[i] # None /\ hand'[i] = None
          /\ channel' = channel
          /\ \A j \in Instances \ {i} : hand'[j] = hand[j]
      BY <1>4 DEF Persist, TypeOK
    <2>2. \A j \in Instances : hand[j] # None => hand[j] \in Logbacks
      BY DEF TypeOK
    <2>3. \A j \in Instances : \A k \in 1..Len(channel[j]) : channel[j][k] \in Logbacks \ {hand[i]}
      BY ChannelType DEF InMemory
    <2>4. \A j \in Instances : \A k \in 1..Len(channel[j]) :
            channel[j][k] # None /\ channel[j][k] \notin persisted' /\ db'[channel[j][k]] = None
      BY <2>1, <2>3, LogbackAssumption DEF InMemory
    <2> QED
      BY <2>1, <2>2, <2>4 DEF InMemory
  <1>5. ASSUME NEW i \in Instances, Poll(i) \/ PollEnd(i) \/ Send(i) \/ Fill(i) \/ Take(i)
        PROVE  InMemory'
    <2>1. UNCHANGED <<channel, hand, db, persisted>>
      BY <1>5 DEF Poll, PollEnd, Send, Fill, Take
    <2> QED
      BY <2>1 DEF InMemory
  <1>6. ASSUME NEW i \in Instances, Delete(i)
        PROVE  InMemory'
    <2>1. \A m \in Logbacks : db'[m] \in {db[m], None}
      BY <1>6 DEF Delete, DeleteSent, TypeOK
    <2>2. UNCHANGED <<channel, hand, persisted>>
      BY <1>6 DEF Delete
    <2>3. \A j \in Instances : hand[j] # None => hand[j] \in Logbacks
      BY DEF TypeOK
    <2> QED
      BY <2>1, <2>2, <2>3, ChannelType DEF InMemory
  <1>7. ASSUME NEW i \in Instances, Crash(i)
        PROVE  InMemory'
    <2>1. /\ UNCHANGED <<db, persisted>>
          /\ \A j \in Instances : hand'[j] \in {hand[j], None}
      BY <1>7 DEF Crash, TypeOK
    <2>2. \A j \in Instances : \A k \in 1..Len(channel[j]) : channel[j][k] # None
      BY ChannelType, LogbackAssumption
    <2> QED
      BY <1>7, <2>1, <2>2, ChannelsAfterCrash DEF InMemory
  <1>8. CASE UNCHANGED vars
    BY <1>8 DEF vars, InMemory
  <1> QED
    BY <1>1, <1>2, <1>3, <1>4, <1>5, <1>6, <1>7, <1>8 DEF Next, Fetcher

LEMMA PunctualInductive ==
    ASSUME IInv, [Next]_vars
    PROVE  Punctual'
  <1> USE LogbackAssumption DEF IInv, TypeOK, Punctual
  <1>1. CASE Tick
    BY <1>1 DEF Tick, CountDown
  <1>2. ASSUME NEW i \in Instances, NEW m \in Logbacks, NEW d \in 1..MaxDelay,
               Dispatch(i, m, d)
        PROVE  Punctual'
    BY <1>2 DEF Dispatch, Unasked
  <1>3. ASSUME NEW i \in Instances, Receive(i) \/ Fill(i) \/ Take(i)
        PROVE  Punctual'
    BY <1>3 DEF Receive, Fill, Take
  <1>4. ASSUME NEW i \in Instances, Persist(i)
        PROVE  Punctual'
    BY <1>4 DEF Persist, Due
  <1>5. ASSUME NEW i \in Instances, Poll(i)
        PROVE  Punctual'
    <2>1. \A m \in Elapsed : wait[m] = 0
      BY ElapsedHasWaited
    <2> QED
      BY <1>5, <2>1 DEF Poll
  <1>6. ASSUME NEW i \in Instances, Send(i)
        PROVE  Punctual'
    BY <1>6 DEF Send
  <1>7. ASSUME NEW i \in Instances, Delete(i)
        PROVE  Punctual'
    BY <1>7 DEF Delete, DeleteSent
  <1>8. ASSUME NEW i \in Instances, PollEnd(i) \/ Crash(i)
        PROVE  Punctual'
    BY <1>8 DEF PollEnd, Crash
  <1>9. CASE UNCHANGED vars
    BY <1>9 DEF vars
  <1> QED
    BY <1>1, <1>2, <1>3, <1>4, <1>5, <1>6, <1>7, <1>8, <1>9 DEF Next, Fetcher

LEMMA SendingInductive ==
    ASSUME IInv, [Next]_vars
    PROVE  Sending'
  <1> USE LogbackAssumption DEF IInv, TypeOK, Sending
  <1>1. CASE Tick \/ UNCHANGED vars
    BY <1>1 DEF Tick, vars
  <1>2. ASSUME NEW i \in Instances,
               (\E m \in Logbacks, d \in 1..MaxDelay : Dispatch(i, m, d))
                 \/ Receive(i) \/ Persist(i) \/ Fill(i) \/ Take(i)
        PROVE  Sending'
    BY <1>2 DEF Dispatch, Receive, Persist, Fill, Take
  <1>3. ASSUME NEW i \in Instances, Poll(i) \/ PollEnd(i)
        PROVE  Sending'
    BY <1>3 DEF Poll, PollEnd
  <1>4. ASSUME NEW i \in Instances, Send(i)
        PROVE  Sending'
    BY <1>4 DEF Send
  <1>5. ASSUME NEW i \in Instances, Delete(i)
        PROVE  Sending'
    BY <1>5 DEF Delete
  <1>6. ASSUME NEW i \in Instances, Crash(i)
        PROVE  Sending'
    BY <1>6 DEF Crash
  <1> QED
    BY <1>1, <1>2, <1>3, <1>4, <1>5, <1>6 DEF Next, Fetcher

LEMMA DurableInductive ==
    ASSUME IInv, [Next]_vars
    PROVE  DurableUntilSent'
  <1> USE LogbackAssumption DEF IInv, TypeOK, DurableUntilSent
  <1>1. CASE Tick \/ UNCHANGED vars
    <2>1. \A m \in Logbacks : db[m] # None => db'[m] # None
      <3>1. CASE Tick
        <4>1. db' = [m \in Logbacks |-> CountDown(db[m])]
          BY <3>1 DEF Tick
        <4>2. \A m \in Logbacks : db[m] # None => CountDown(db[m]) # None
          BY TimeLeft
        <4> QED
          BY <4>1, <4>2
      <3>2. CASE UNCHANGED vars
        BY <3>2 DEF vars
      <3> QED
        BY <1>1, <3>1, <3>2
    <2>2. UNCHANGED <<persisted, sends>>
      BY <1>1 DEF Tick, vars
    <2> QED
      BY <2>1, <2>2
  <1>2. ASSUME NEW i \in Instances,
               (\E m \in Logbacks, d \in 1..MaxDelay : Dispatch(i, m, d))
                 \/ Receive(i) \/ Fill(i) \/ Take(i) \/ Poll(i) \/ PollEnd(i) \/ Crash(i)
        PROVE  DurableUntilSent'
    BY <1>2 DEF Dispatch, Receive, Fill, Take, Poll, PollEnd, Crash
  <1>3. ASSUME NEW i \in Instances, Persist(i)
        PROVE  DurableUntilSent'
    <2>1. hand[i] \in Logbacks /\ delay[hand[i]] # None /\ UNCHANGED sends
      BY <1>3, TimeLeft DEF Persist
    <2>2. CASE db' = [db EXCEPT ![hand[i]] = Due(hand[i])]
               /\ persisted' = persisted \cup {hand[i]}
      BY <2>1, <2>2 DEF Due
    <2> QED
      BY <1>3, <2>1, <2>2 DEF Persist
  <1>4. ASSUME NEW i \in Instances, Send(i)
        PROVE  DurableUntilSent'
    BY <1>4 DEF Send
  <1>5. ASSUME NEW i \in Instances, Delete(i)
        PROVE  DurableUntilSent'
    BY <1>5 DEF Delete, DeleteSent, Sending
  <1> QED
    BY <1>1, <1>2, <1>3, <1>4, <1>5 DEF Next, Fetcher

-----------------------------------------------------------------------------
(* The inductive invariant: a logback in memory is in one place, the       *)
(* database is not ahead of its delay, and a poll deletes what it sent.    *)
THEOREM Invariance == Spec => []IInv
  <1>1. ASSUME IInv, [Next]_vars PROVE IInv'
    BY <1>1, TypeInductive, UnaskedInductive, InMemoryInductive, PunctualInductive,
       SendingInductive, DurableInductive DEF IInv
  <1> QED
    BY InitIInv, <1>1, PTL DEF Spec

(* Every variable keeps its type, through crashes and storage errors. *)
THEOREM TypeCorrectness == Spec => []TypeOK
  <1>1. IInv => TypeOK
    BY DEF IInv
  <1> QED
    BY Invariance, <1>1, PTL

(* However many instances poll the database, a logback whose insert        *)
(* succeeded is in it until one of them has sent it.                       *)
THEOREM NotDroppedUnsent == Spec => []DurableUntilSent
  <1>1. IInv => DurableUntilSent
    BY DEF IInv
  <1> QED
    BY Invariance, <1>1, PTL

(* However many instances poll the database, none sends a logback before   *)
(* the delay the rule asked for has passed, restarts included.             *)
NeverEarly == [][\A m \in Logbacks : sends'[m] > sends[m] => wait[m] = 0]_vars

THEOREM SentInTime == Spec => NeverEarly
  <1>1. ASSUME IInv, [Next]_vars
        PROVE  [\A m \in Logbacks : sends'[m] > sends[m] => wait[m] = 0]_vars
    <2>1. ASSUME NEW i \in Instances, Send(i), NEW m \in Logbacks, sends'[m] > sends[m]
          PROVE  wait[m] = 0
      <3>1. PICK n \in heap[i] : sends' = [sends EXCEPT ![n] = @ + 1]
        BY <2>1 DEF Send
      <3>2. wait[n] = 0
        BY <1>1 DEF IInv, Punctual
      <3>3. sends[m] \in Nat /\ sends \in [Logbacks -> Nat]
        BY <1>1 DEF IInv, TypeOK
      <3>4. m = n
        BY <2>1, <3>1, <3>3
      <3> QED
        BY <3>2, <3>4
    <2>2. CASE UNCHANGED sends
      BY <1>1, <2>2 DEF IInv, TypeOK
    <2>3. ASSUME NEW i \in Instances,
                 (\E m \in Logbacks, d \in 1..MaxDelay : Dispatch(i, m, d))
                   \/ Receive(i) \/ Persist(i) \/ Fill(i) \/ Take(i) \/ Poll(i)
                   \/ PollEnd(i) \/ Delete(i) \/ Crash(i)
          PROVE  UNCHANGED sends
      BY <2>3 DEF Dispatch, Receive, Persist, Fill, Take, Poll, PollEnd, Delete, Crash
    <2>4. CASE Tick \/ UNCHANGED vars
      BY <2>2, <2>4 DEF Tick, vars
    <2> QED
      BY <1>1, <2>1, <2>2, <2>3, <2>4 DEF Next, Fetcher
  <1> QED
    BY Invariance, <1>1, PTL DEF Spec, NeverEarly

-----------------------------------------------------------------------------
(* The refinement *)

LEMMA ExclusiveInductive ==
    ASSUME OnePoller, IInv, Exclusive, [Next]_vars
    PROVE  Exclusive'
  <1> USE DEF IInv
  <1>1. CASE Tick
    <2>1. \A m \in Logbacks : db[m] = 0 => db'[m] = 0
      BY <1>1, TimeLeft DEF Tick, TypeOK
    <2>2. UNCHANGED <<poll, heap, sent>>
      BY <1>1 DEF Tick
    <2>3. \A i \in Instances : heap[i] \subseteq Logbacks /\ sent[i] \in Logbacks \cup {None}
      BY DEF TypeOK
    <2> QED
      BY <2>1, <2>2, <2>3 DEF Exclusive
  <1>2. ASSUME NEW i \in Instances,
               (\E m \in Logbacks, d \in 1..MaxDelay : Dispatch(i, m, d))
                 \/ Receive(i) \/ Fill(i) \/ Take(i)
        PROVE  Exclusive'
    <2>1. UNCHANGED <<db, poll, heap, sent>>
      BY <1>2 DEF Dispatch, Receive, Fill, Take
    <2> QED
      BY <2>1 DEF Exclusive
  <1>3. ASSUME NEW i \in Instances, Persist(i)
        PROVE  Exclusive'
    <2>1. db[hand[i]] = None
      BY <1>3 DEF Persist, InMemory
    <2>2. \A m \in Logbacks : db[m] = 0 => db'[m] = 0
      BY <1>3, <2>1, TimeLeft DEF Persist, TypeOK
    <2>3. UNCHANGED <<poll, heap, sent>>
      BY <1>3 DEF Persist
    <2>4. \A j \in Instances : heap[j] \subseteq Logbacks /\ sent[j] \in Logbacks \cup {None}
      BY DEF TypeOK
    <2> QED
      BY <2>2, <2>3, <2>4 DEF Exclusive
  <1>4. ASSUME NEW i \in Instances, Poll(i)
        PROVE  Exclusive'
    <2>1. /\ i \in LogbackRole
          /\ heap'[i] = Elapsed /\ poll'[i] = "work" /\ sent[i] = None
          /\ \A j \in Instances \ {i} : heap'[j] = heap[j] /\ poll'[j] = poll[j]
          /\ UNCHANGED <<db, sent>>
      BY <1>4 DEF Poll, TypeOK, Sending
    <2>2. \A m \in Elapsed : m # None /\ db[m] = 0
      BY ElapsedHasWaited, LogbackAssumption
    <2> QED
      BY <2>1, <2>2 DEF Exclusive
  <1>5. ASSUME NEW i \in Instances, Send(i)
        PROVE  Exclusive'
    <2>1. PICK m \in heap[i] : /\ heap' = [heap EXCEPT ![i] = @ \ {m}]
                               /\ sent' = [sent EXCEPT ![i] = m]
      BY <1>5 DEF Send
    <2>2. /\ heap'[i] = heap[i] \ {m} /\ sent'[i] = m
          /\ \A j \in Instances \ {i} : heap'[j] = heap[j] /\ sent'[j] = sent[j]
      BY <2>1 DEF TypeOK
    <2>3. /\ poll[i] = "work" /\ poll'[i] = "delete"
          /\ \A j \in Instances \ {i} : poll'[j] = poll[j]
          /\ UNCHANGED db
      BY <1>5 DEF Send, TypeOK
    <2> QED
      BY <2>2, <2>3 DEF Exclusive
  <1>6. ASSUME NEW i \in Instances, Delete(i)
        PROVE  Exclusive'
    <2>1. /\ poll[i] = "delete" /\ poll'[i] = "work"
          /\ sent'[i] = None
          /\ \A j \in Instances \ {i} : poll'[j] = poll[j] /\ sent'[j] = sent[j]
          /\ UNCHANGED heap
      BY <1>6 DEF Delete, TypeOK
    <2>2. \A j \in Instances \ {i} : poll[j] = "idle" /\ heap[j] = {} /\ sent[j] = None
      BY <2>1 DEF OnePoller, Exclusive, Sending
    <2>3. \A m \in heap[i] : db'[m] = 0
      BY <1>6 DEF Delete, DeleteSent, Exclusive, TypeOK
    <2> QED
      BY <2>1, <2>2, <2>3, LogbackAssumption DEF Exclusive, TypeOK
  <1>7. ASSUME NEW i \in Instances, PollEnd(i) \/ Crash(i)
        PROVE  Exclusive'
    <2>1. /\ poll'[i] = "idle" /\ heap'[i] = {} /\ sent'[i] = None
          /\ \A j \in Instances \ {i} :
               poll'[j] = poll[j] /\ heap'[j] = heap[j] /\ sent'[j] = sent[j]
          /\ UNCHANGED db
      BY <1>7 DEF PollEnd, Crash, TypeOK, Sending
    <2> QED
      BY <2>1 DEF Exclusive
  <1>8. CASE UNCHANGED vars
    BY <1>8 DEF vars, Exclusive
  <1> QED
    BY <1>1, <1>2, <1>3, <1>4, <1>5, <1>6, <1>7, <1>8 DEF Next, Fetcher

LEMMA MoveStep ==
    ASSUME NEW m \in Logbacks, NEW from, NEW to, Stage(m) = from, Stage(m)' = to,
           \A n \in Logbacks \ {m} : Stage(n)' = Stage(n)
    PROVE  Delivery!Move(m, from, to)
  BY DEF Delivery!Move

LEMMA FaultStep ==
    ASSUME UNCHANGED wait,
           \A m \in Logbacks : \/ Stage(m)' = Stage(m)
                               \/ Stage(m) = "volatile" /\ Stage(m)' = "gone"
                               \/ Stage(m) = "handed" /\ Stage(m)' = "durable"
    PROVE  Delivery!Fault
<1> DEFINE lost == {m \in Logbacks : Stage(m) = "volatile" /\ Stage(m)' = "gone"}
           again == {m \in Logbacks : Stage(m) = "handed" /\ Stage(m)' = "durable"}
           stage == [m \in Logbacks |-> Stage(m)]
<1>1. /\ lost \in SUBSET {m \in Logbacks : stage[m] = "volatile"}
      /\ again \in SUBSET {m \in Logbacks : stage[m] = "handed"}
  OBVIOUS
<1>2. [m \in Logbacks |-> Stage(m)'] =
        [m \in Logbacks |-> IF m \in lost THEN "gone"
                            ELSE IF m \in again THEN "durable" ELSE stage[m]]
  OBVIOUS
<1> QED BY <1>1, <1>2 DEF Delivery!Fault

(* The members of a channel after a send and after a receive. *)
LEMMA MembersOfAppend ==
    ASSUME NEW S, NEW s \in Seq(S), NEW m \in S, NEW a, a = Append(s, m), NEW n \in S
    PROVE  (\E k \in DOMAIN a : a[k] = n) <=> n = m \/ \E k \in DOMAIN s : s[k] = n
<1>1. /\ a \in Seq(S) /\ Len(s) \in Nat /\ Len(a) = Len(s) + 1
      /\ \A k \in 1..Len(a) : a[k] = IF k = Len(s) + 1 THEN m ELSE s[k]
  BY Appended
<1>2. DOMAIN s = 1..Len(s) /\ DOMAIN a = 1..Len(s) + 1
  BY <1>1, LenProperties
<1>3. ASSUME n = m PROVE \E k \in DOMAIN a : a[k] = n
  <2>1. Len(s) + 1 \in DOMAIN a /\ a[Len(s) + 1] = m
    BY <1>1, <1>2
  <2> QED BY <1>3, <2>1
<1>4. ASSUME NEW k \in DOMAIN s PROVE k \in DOMAIN a /\ a[k] = s[k]
  BY <1>1, <1>2
<1>5. ASSUME NEW k \in DOMAIN a PROVE a[k] = m \/ (k \in DOMAIN s /\ a[k] = s[k])
  <2>1. k \in 1..Len(a)
    BY <1>1, <1>2
  <2>2. k = Len(s) + 1 \/ k \in 1..Len(s)
    BY <1>1, <2>1
  <2>3. a[k] = IF k = Len(s) + 1 THEN m ELSE s[k]
    BY <1>1, <2>1
  <2>4. k = Len(s) + 1 => a[k] = m
    BY <2>3
  <2>5. k # Len(s) + 1 => a[k] = s[k] /\ k \in DOMAIN s
    BY <1>2, <2>2, <2>3
  <2> QED BY <2>4, <2>5
<1> QED BY <1>3, <1>4, <1>5

LEMMA MembersOfTail ==
    ASSUME NEW S, NEW s \in Seq(S), s # <<>>, NEW n
    PROVE  (\E k \in DOMAIN s : s[k] = n)
             <=> n = Head(s) \/ \E k \in DOMAIN Tail(s) : Tail(s)[k] = n
<1> DEFINE t == Tail(s)
<1>1. /\ Head(s) = s[1] /\ t \in Seq(S)
      /\ Len(s) \in Nat \ {0} /\ Len(t) = Len(s) - 1
      /\ \A k \in 1..Len(t) : t[k] = s[k+1] /\ k+1 \in 1..Len(s)
  BY Taken
<1> HIDE DEF t
<1>2. DOMAIN s = 1..Len(s) /\ DOMAIN t = 1..Len(s) - 1
  BY <1>1, LenProperties
<1>3. 1 \in DOMAIN s
  BY <1>1, <1>2
<1>4. ASSUME NEW k \in DOMAIN t PROVE k+1 \in DOMAIN s /\ s[k+1] = t[k]
  BY <1>1, <1>2
<1>5. ASSUME NEW k \in DOMAIN s PROVE k = 1 \/ (k-1 \in DOMAIN t /\ t[k-1] = s[k])
  <2>1. k \in 1..Len(s) /\ k - 1 + 1 = k
    BY <1>1, <1>2
  <2>2. k = 1 \/ k-1 \in 1..Len(t)
    BY <1>1, <2>1
  <2>3. k-1 \in 1..Len(t) => t[k-1] = s[k-1+1]
    BY <1>1
  <2>4. k # 1 => k-1 \in DOMAIN t
    BY <1>1, <1>2, <2>2
  <2>5. k # 1 => t[k-1] = s[k]
    BY <2>1, <2>2, <2>3
  <2> QED BY <2>4, <2>5
<1> QED BY <1>1, <1>3, <1>4, <1>5 DEF t

(* Whether a logback is in memory, after each of the steps that move it.   *)
LEMMA HeldAfterDispatch ==
    ASSUME TypeOK, NEW i \in Instances, NEW m \in Logbacks, NEW d \in 1..MaxDelay,
           Dispatch(i, m, d), NEW n \in Logbacks
    PROVE  IsHeld(n)' <=> n = m \/ IsHeld(n)
<1>1. channel \in [Instances -> Seq(Logbacks)] /\ UNCHANGED hand
  BY DEF TypeOK, Dispatch
<1>2. channel' = [channel EXCEPT ![i] = Append(channel[i], m)]
  BY DEF Dispatch
<1>3. channel'[i] = Append(channel[i], m) /\ \A j \in Instances \ {i} : channel'[j] = channel[j]
  BY <1>1, <1>2
<1>4. (\E k \in DOMAIN channel'[i] : channel'[i][k] = n)
        <=> n = m \/ \E k \in DOMAIN channel[i] : channel[i][k] = n
  <2>1. channel[i] \in Seq(Logbacks)
    BY <1>1
  <2>2. ASSUME NEW a, a = Append(channel[i], m)
        PROVE  (\E k \in DOMAIN a : a[k] = n) <=> n = m \/ \E k \in DOMAIN channel[i] : channel[i][k] = n
    BY <2>1, <2>2, MembersOfAppend
  <2> QED BY <1>3, <2>2
<1> QED BY <1>1, <1>3, <1>4 DEF IsHeld

LEMMA HeldAfterReceive ==
    ASSUME TypeOK, NEW i \in Instances, Receive(i), NEW n \in Logbacks
    PROVE  IsHeld(n)' <=> IsHeld(n)
<1>1. /\ channel \in [Instances -> Seq(Logbacks)]
      /\ hand \in [Instances -> Logbacks \cup {None}]
  BY DEF TypeOK
<1>2. /\ channel' = [channel EXCEPT ![i] = Tail(channel[i])]
      /\ hand' = [hand EXCEPT ![i] = Head(channel[i])]
      /\ channel[i] # <<>> /\ hand[i] # n
  BY LogbackAssumption DEF Receive
<1>3. /\ channel'[i] = Tail(channel[i]) /\ hand'[i] = Head(channel[i])
      /\ \A j \in Instances \ {i} : channel'[j] = channel[j] /\ hand'[j] = hand[j]
  BY <1>1, <1>2
<1>4. (\E k \in DOMAIN channel[i] : channel[i][k] = n)
        <=> n = hand'[i] \/ \E k \in DOMAIN channel'[i] : channel'[i][k] = n
  <2>1. channel[i] \in Seq(Logbacks) /\ channel[i] # <<>>
    BY <1>1, <1>2
  <2>2. (\E k \in DOMAIN channel[i] : channel[i][k] = n)
          <=> n = Head(channel[i]) \/ \E k \in DOMAIN Tail(channel[i]) : Tail(channel[i])[k] = n
    BY <2>1, MembersOfTail
  <2> QED BY <1>3, <2>2
<1> QED BY <1>2, <1>3, <1>4 DEF IsHeld

(* With one poller every step is a step of DelayedDelivery or none at all. *)
LEMMA StepSimulation ==
    ASSUME OnePoller, IInv, Exclusive, [Next]_vars
    PROVE  [Delivery!Next]_(Delivery!vars)
  <1> DEFINE Same(M) == \A n \in M : Stage(n)' = Stage(n)
  <1>a. ASSUME UNCHANGED wait, Same(Logbacks)
        PROVE  UNCHANGED Delivery!vars
    BY <1>a DEF Delivery!vars
  <1>1. CASE Tick
    <2>1. \A m \in Logbacks : wait[m] \in 0..MaxDelay /\ (db'[m] = None <=> db[m] = None)
      <3>1. \A m \in Logbacks : /\ wait[m] \in 0..MaxDelay
                                /\ db[m] \in Nat \/ db[m] = None
                                /\ db'[m] = CountDown(db[m])
        BY <1>1, LogbackAssumption DEF Tick, IInv, TypeOK
      <3> QED
        BY <3>1, TimeLeft
    <2>2. Same(Logbacks)
      BY <1>1, <2>1 DEF Tick, Stage, IsSent, IsHeld
    <2>3. wait' = [m \in Logbacks |-> IF wait[m] = 0 THEN 0 ELSE wait[m] - 1]
      BY <1>1, <2>1 DEF Tick, CountDown
    <2>4. Delivery!Tick
      BY <2>2, <2>3 DEF Delivery!Tick
    <2> QED
      BY <2>4 DEF Delivery!Next
  <1>2. ASSUME NEW i \in Instances, NEW m \in Logbacks, NEW d \in 1..MaxDelay,
               Dispatch(i, m, d)
        PROVE  Delivery!Ask(m)
    <2>1. /\ delay[m] = 0 /\ delay'[m] = d /\ \A n \in Logbacks \ {m} : delay'[n] = delay[n]
          /\ wait' = [wait EXCEPT ![m] = d]
          /\ UNCHANGED <<db, sent>>
      BY <1>2 DEF Dispatch, IInv, TypeOK
    <2>2. db[m] = None /\ ~IsSent(m)
      BY <2>1 DEF IInv, Unasked, IsSent
    <2>3. Same(Logbacks \ {m})
      BY <1>2, <2>1, HeldAfterDispatch DEF Stage, IsSent, IInv
    <2>4. Stage(m) = "unasked" /\ Stage(m)' = "volatile"
      BY <1>2, <2>1, <2>2, HeldAfterDispatch DEF Stage, IsSent, IInv
    <2>5. Delivery!Move(m, "unasked", "volatile")
      BY <2>3, <2>4, MoveStep
    <2> QED
      BY <2>1, <2>5 DEF Delivery!Ask
  <1>3. ASSUME NEW i \in Instances, Receive(i)
        PROVE  UNCHANGED Delivery!vars
    <2>1. UNCHANGED <<delay, db, sent, wait>>
      BY <1>3 DEF Receive
    <2>2. Same(Logbacks)
      BY <1>3, <2>1, HeldAfterReceive DEF Stage, IsSent, IInv
    <2> QED
      BY <1>a, <2>1, <2>2
  <1>4. ASSUME NEW i \in Instances, Persist(i)
        PROVE  (\E m \in Logbacks : Delivery!Secure(m)) \/ Delivery!Fault
    <2>0. PICK m \in Logbacks : m = hand[i]
      BY <1>4 DEF Persist, IInv, TypeOK
    <2>1. db[m] = None /\ delay[m] # 0 /\ delay[m] # None
      BY <1>4, <2>0, TimeLeft DEF Persist, IInv, TypeOK, InMemory, Unasked
    <2>2. /\ UNCHANGED <<delay, channel, sent, wait>>
          /\ hand'[i] = None /\ \A j \in Instances \ {i} : hand'[j] = hand[j]
      BY <1>4 DEF Persist, IInv, TypeOK
    <2>3. ~IsSent(m) /\ ~IsSent(m)' /\ IsHeld(m)
      BY <2>0, <2>1, <2>2, TimeLeft, LogbackAssumption DEF IsSent, IsHeld, Exclusive
    <2>4. ASSUME NEW n \in Logbacks \ {m}
          PROVE  IsHeld(n)' <=> IsHeld(n)
      <3>1. \A j \in Instances : hand'[j] = n <=> hand[j] = n
        BY <2>0, <2>2, LogbackAssumption
      <3> QED
        BY <2>2, <3>1 DEF IsHeld
    <2>5. Stage(m) = "volatile"
      BY <2>1, <2>3 DEF Stage
    <2>6. CASE db' = [db EXCEPT ![m] = Due(m)]
      <3>1. db'[m] = delay[m] /\ \A n \in Logbacks \ {m} : db'[n] = db[n]
        BY <2>1, <2>6 DEF IInv, TypeOK, Due
      <3>2. Stage(m)' = "durable"
        BY <2>1, <2>2, <2>3, <3>1 DEF Stage
      <3>3. Same(Logbacks \ {m})
        BY <2>2, <2>4, <3>1 DEF Stage, IsSent
      <3>4. Delivery!Move(m, "volatile", "durable")
        BY <2>5, <3>2, <3>3, MoveStep
      <3> QED
        BY <2>2, <3>4 DEF Delivery!Secure
    <2>7. CASE UNCHANGED db
      <3>1. Stage(m)' \in {"volatile", "gone"}
        BY <2>1, <2>2, <2>3, <2>7 DEF Stage
      <3>2. Same(Logbacks \ {m})
        BY <2>2, <2>4, <2>7 DEF Stage, IsSent
      <3> QED
        BY <2>2, <2>5, <3>1, <3>2, FaultStep
    <2> QED
      BY <1>4, <2>0, <2>6, <2>7 DEF Persist
  <1>5. ASSUME NEW i \in Instances, Poll(i) \/ PollEnd(i) \/ Fill(i) \/ Take(i)
        PROVE  UNCHANGED Delivery!vars
    <2>1. UNCHANGED <<delay, channel, hand, db, sent, wait>>
      BY <1>5 DEF Poll, PollEnd, Fill, Take
    <2>2. Same(Logbacks)
      BY <2>1 DEF Stage, IsSent, IsHeld
    <2> QED
      BY <1>a, <2>1, <2>2
  <1>6. ASSUME NEW i \in Instances, Send(i)
        PROVE  \E m \in Logbacks : Delivery!Hand(m)
    <2>1. PICK m \in heap[i] : sent' = [sent EXCEPT ![i] = m]
      BY <1>6 DEF Send
    <2>2. m \in Logbacks /\ db[m] = 0 /\ db[m] # None /\ wait[m] = 0
      BY TimeLeft DEF IInv, TypeOK, Exclusive, Punctual
    <2>3. delay[m] # 0
      BY <2>2 DEF IInv, Unasked
    <2>4. poll[i] = "work" /\ UNCHANGED <<delay, channel, hand, db, wait>>
      BY <1>6 DEF Send
    <2>5. \A j \in Instances : sent[j] = None
      BY <2>4 DEF OnePoller, IInv, Exclusive, Sending
    <2>6. \A j \in Instances : sent'[j] = IF j = i THEN m ELSE None
      BY <2>1, <2>5 DEF IInv, TypeOK
    <2>7. /\ \A n \in Logbacks : ~IsSent(n)
          /\ IsSent(m)' /\ \A n \in Logbacks \ {m} : ~IsSent(n)'
      BY <2>5, <2>6, LogbackAssumption DEF IsSent
    <2>8. Stage(m) = "durable" /\ Stage(m)' = "handed"
      BY <2>2, <2>3, <2>4, <2>7 DEF Stage
    <2>9. Same(Logbacks \ {m})
      BY <2>4, <2>7 DEF Stage, IsHeld
    <2>10. Delivery!Move(m, "durable", "handed")
      BY <2>2, <2>8, <2>9, MoveStep
    <2> QED
      BY <2>2, <2>4, <2>10 DEF Delivery!Hand
  <1>7. ASSUME NEW i \in Instances, Delete(i)
        PROVE  (\E m \in Logbacks : Delivery!Settle(m)) \/ Delivery!Fault
    <2>0. PICK m \in Logbacks : m = sent[i]
      BY <1>7 DEF Delete, IInv, TypeOK, Sending
    <2>1. poll[i] = "delete" /\ db[m] = 0 /\ db[m] # None
      BY <1>7, <2>0, TimeLeft DEF Delete, IInv, TypeOK, Sending, Exclusive
    <2>2. delay[m] # 0
      BY <2>1 DEF IInv, Unasked
    <2>3. /\ UNCHANGED <<delay, channel, hand, wait>>
          /\ sent'[i] = None /\ \A j \in Instances \ {i} : sent'[j] = sent[j]
      BY <1>7 DEF Delete, IInv, TypeOK
    <2>4. \A j \in Instances \ {i} : sent[j] = None
      BY <2>1 DEF OnePoller, IInv, Exclusive, Sending
    <2>5. /\ IsSent(m) /\ \A n \in Logbacks \ {m} : ~IsSent(n)
          /\ \A n \in Logbacks : ~IsSent(n)'
      BY <2>0, <2>3, <2>4, LogbackAssumption DEF IsSent
    <2>6. ~IsHeld(m)
      <3>1. \A j \in Instances : hand[j] # m
        BY <2>1, LogbackAssumption DEF IInv, InMemory
      <3>2. \A j \in Instances : \A k \in DOMAIN channel[j] : channel[j][k] # m
        BY <2>1, ChannelType DEF IInv, InMemory
      <3> QED
        BY <3>1, <3>2 DEF IsHeld
    <2>7. Stage(m) = "handed"
      BY <2>2, <2>5 DEF Stage
    <2>8. CASE db' = DeleteSent(i)
      <3>1. db'[m] = None /\ \A n \in Logbacks \ {m} : db'[n] = db[n]
        BY <2>0, <2>1, <2>8 DEF IInv, TypeOK, DeleteSent
      <3>2. Stage(m)' = "gone"
        BY <2>2, <2>3, <2>5, <2>6, <3>1 DEF Stage, IsHeld
      <3>3. Same(Logbacks \ {m})
        BY <2>3, <2>5, <3>1 DEF Stage, IsHeld
      <3>4. Delivery!Move(m, "handed", "gone")
        BY <2>7, <3>2, <3>3, MoveStep
      <3> QED
        BY <2>1, <2>3, <3>4 DEF Delivery!Settle
    <2>9. CASE UNCHANGED db
      <3>1. Stage(m)' = "durable"
        BY <2>1, <2>2, <2>3, <2>5, <2>9 DEF Stage
      <3>2. Same(Logbacks \ {m})
        BY <2>3, <2>5, <2>9 DEF Stage, IsHeld
      <3> QED
        BY <2>3, <2>7, <3>1, <3>2, FaultStep
    <2> QED
      BY <1>7, <2>8, <2>9 DEF Delete
  <1>8. ASSUME NEW i \in Instances, Crash(i)
        PROVE  Delivery!Fault
    <2>1. /\ UNCHANGED <<delay, db, wait>>
          /\ \A j \in Instances : hand'[j] \in {hand[j], None} /\ sent'[j] \in {sent[j], None}
      BY <1>8 DEF Crash, IInv, TypeOK
    <2>2. \A j \in Instances : channel'[j] = channel[j] \/ channel'[j] = <<>>
      BY <1>8 DEF Crash, IInv, TypeOK
    <2>3. \A n \in Logbacks : (IsSent(n)' => IsSent(n)) /\ (IsHeld(n)' => IsHeld(n))
      BY <2>1, <2>2, LogbackAssumption DEF IsSent, IsHeld
    <2>4. \A n \in Logbacks : IsSent(n) => db[n] # None /\ delay[n] # 0
      BY TimeLeft, LogbackAssumption DEF IsSent, IInv, Exclusive, Unasked
    <2>5. \A n \in Logbacks : \/ Stage(n)' = Stage(n)
                              \/ Stage(n) = "volatile" /\ Stage(n)' = "gone"
                              \/ Stage(n) = "handed" /\ Stage(n)' = "durable"
      BY <2>1, <2>3, <2>4 DEF Stage
    <2> QED
      BY <2>1, <2>5, FaultStep
  <1>9. CASE UNCHANGED vars
    <2>1. UNCHANGED <<delay, channel, hand, db, sent, wait>>
      BY <1>9 DEF vars
    <2>2. Same(Logbacks)
      BY <2>1 DEF Stage, IsSent, IsHeld
    <2> QED
      BY <1>a, <2>1, <2>2
  <1> QED
    BY <1>1, <1>2, <1>3, <1>4, <1>5, <1>6, <1>7, <1>8, <1>9
    DEF Next, Fetcher, Delivery!Next

LEMMA InitSimulation == Init => Delivery!Init
  <1> SUFFICES ASSUME Init PROVE Delivery!Init
    OBVIOUS
  <1>1. \A m \in Logbacks : Stage(m) = "unasked"
    BY DEF Init, Stage
  <1>2. wait = [m \in Logbacks |-> 0]
    BY DEF Init
  <1> QED
    BY <1>1, <1>2 DEF Delivery!Init

(* The instances, channels, polls and the shared database implement        *)
(* delayed delivery, for any number of instances, crashes and storage      *)
(* errors, as long as at most one instance has the logbacks role.          *)
THEOREM Refinement ==
    ASSUME OnePoller
    PROVE  Spec => ImplementsDelivery
  <1>1. Spec => []Exclusive
    <2>1. ASSUME IInv, Exclusive, [Next]_vars PROVE Exclusive'
      BY <2>1, OnePoller, ExclusiveInductive
    <2> QED
      BY InitIInv, Invariance, <2>1, PTL DEF Spec
  <1>2. ASSUME IInv, Exclusive, [Next]_vars PROVE [Delivery!Next]_(Delivery!vars)
    BY <1>2, OnePoller, StepSimulation
  <1> QED
    BY InitSimulation, Invariance, <1>1, <1>2, PTL DEF Spec, ImplementsDelivery, Delivery!Spec

=============================================================================

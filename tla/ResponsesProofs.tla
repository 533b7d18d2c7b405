--------------------------- MODULE ResponsesProofs ---------------------------
(***************************************************************************)
(* Proofs about Responses, for any number of threads, requests and values: *)
(* type correctness, and a request is answered with what its own           *)
(* execution set.                                                          *)
(***************************************************************************)
EXTENDS Responses, SequenceTheorems, TLAPS

(* A request that has not been submitted yet has no execution. *)
Unsubmitted ==
    \A g \in Gets : get[g] \in {"new", "body"} => chan[g] = "pending" /\ own[g] = None

(* A request in the channel is there once, waits and was not run. *)
Queued ==
    \A i \in 1..Len(queue) : queue[i] \in Gets =>
        /\ get[queue[i]] = "wait" /\ chan[queue[i]] = "pending"
        /\ own[queue[i]] = None
        /\ \A j \in 1..Len(queue) : queue[j] = queue[i] => j = i

(* A request a thread runs is run by that thread alone and has left the    *)
(* channel; what its execution set is the response in the thread's Env.    *)
Running ==
    \A t \in Threads :
        /\ touched[t] => response[t] \in Values
        /\ job[t] \in Gets =>
             /\ get[job[t]] = "wait" /\ chan[job[t]] = "pending"
             /\ own[job[t]] = IF touched[t] THEN response[t] ELSE None
             /\ \A u \in Threads : job[u] = job[t] => u = t
             /\ \A i \in 1..Len(queue) : queue[i] # job[t]

(* What a sender was given is what the execution set, if that fits. *)
Answers ==
    \A g \in Gets :
        chan[g] # "pending" /\ persistent /\ own[g] \in Values \ Big => chan[g] = own[g]

IInv ==
    TypeOK /\ Unsubmitted /\ Queued /\ Running /\ Answers /\ AnsweredByOwn

USE DEF config

-----------------------------------------------------------------------------
(* The channel *)

(* What Append and Tail do to the positions of the channel. *)
LEMMA Appended ==
    ASSUME TypeOK, NEW m \in Gets \cup {Log}
    PROVE  /\ Append(queue, m) \in Seq(Gets \cup {Log})
           /\ Len(Append(queue, m)) = Len(queue) + 1
           /\ Len(queue) \in Nat
           /\ \A i \in 1..Len(queue) : Append(queue, m)[i] = queue[i]
           /\ Append(queue, m)[Len(queue) + 1] = m
  BY AppendProperties, LenProperties DEF TypeOK

LEMMA Taken ==
    ASSUME TypeOK, queue # <<>>
    PROVE  /\ Head(queue) = queue[1]
           /\ Head(queue) \in Gets \cup {Log}
           /\ Len(queue) \in Nat \ {0}
           /\ Tail(queue) \in Seq(Gets \cup {Log})
           /\ Len(Tail(queue)) = Len(queue) - 1
           /\ \A i \in 1..Len(Tail(queue)) : Tail(queue)[i] = queue[i+1]
  BY HeadTailProperties, EmptySeq, LenProperties DEF TypeOK

-----------------------------------------------------------------------------
LEMMA InitIInv == Init => IInv
  <1> SUFFICES ASSUME Init PROVE IInv
    OBVIOUS
  <1> USE ResponseAssumption DEF Init
  <1>1. TypeOK
    BY EmptySeq DEF TypeOK, Maybe, Modes
  <1>2. Len(queue) = 0
    BY EmptySeq
  <1>3. Unsubmitted /\ Running /\ Answers /\ AnsweredByOwn
    BY DEF Unsubmitted, Running, Answers, AnsweredByOwn
  <1>4. Queued
    BY <1>2 DEF Queued
  <1> QED
    BY <1>1, <1>3, <1>4 DEF IInv

LEMMA TypeInductive ==
    ASSUME IInv, [Next]_vars
    PROVE  TypeOK'
  <1> USE ResponseAssumption DEF IInv, TypeOK, Maybe
  <1>1. CASE Tick
    BY <1>1 DEF Tick
  <1>2. CASE SendLog
    <2>1. queue' \in Seq(Gets \cup {Log}) /\ Len(queue') <= QueueSize
      BY <1>2, Appended DEF SendLog, HasRoom
    <2>2. /\ logs' \in 0..MaxLogs
          /\ UNCHANGED <<config, pr, cache, now, job, response, get, chan, reply,
                         touched, lastSet, own>>
      BY <1>2 DEF SendLog
    <2> QED
      BY <2>1, <2>2
  <1>3. ASSUME NEW g \in Gets, Arrive(g) \/ GetRuns(g) \/ BodyError(g)
        PROVE  TypeOK'
    BY <1>3 DEF Arrive, GetRuns, BodyError, Reply
  <1>4. ASSUME NEW g \in Gets, GetCached(g) \/ GetPersistent(g)
        PROVE  TypeOK'
    BY <1>4 DEF GetCached, GetPersistent, Reply, CacheIsValid
  <1>5. ASSUME NEW g \in Gets, Submit(g)
        PROVE  TypeOK'
    <2>1. queue' \in Seq(Gets \cup {Log}) /\ Len(queue') <= QueueSize
      <3>1. CASE HasRoom
        <4>1. queue' = Append(queue, g)
          BY <1>5, <3>1 DEF Submit
        <4>2. Append(queue, g) \in Seq(Gets \cup {Log})
              /\ Len(Append(queue, g)) = Len(queue) + 1 /\ Len(queue) \in Nat
          BY Appended
        <4> QED
          BY <3>1, <4>1, <4>2 DEF HasRoom
      <3>2. CASE ~HasRoom
        BY <1>5, <3>2 DEF Submit
      <3> QED
        BY <3>1, <3>2
    <2>2. /\ get' \in [Gets -> {"new", "body", "wait", "done"}]
          /\ chan' \in [Gets -> Values \cup {"pending", "none", "dropped"}]
          /\ UNCHANGED <<config, pr, cache, now, job, response, reply, logs,
                         touched, lastSet, own>>
      BY <1>5 DEF Submit
    <2> QED
      BY <2>1, <2>2
  <1>6. ASSUME NEW g \in Gets, Answer(g)
        PROVE  TypeOK'
    BY <1>6 DEF Answer, Reply
  <1>7. ASSUME NEW t \in Threads, Start(t)
        PROVE  TypeOK'
    BY <1>7, Taken DEF Start
  <1>8. ASSUME NEW t \in Threads, Fail(t)
        PROVE  TypeOK'
    BY <1>8 DEF Fail, Done
  <1>9. ASSUME NEW t \in Threads, Finish(t)
        PROVE  TypeOK'
    <2>1. /\ pr' \in Maybe /\ lastSet' \in Maybe
          /\ \E s \in Values \cup {"none", "dropped"} : Done(t, s)
          /\ UNCHANGED <<config, cache, now, queue, get, reply, logs, own>>
      BY <1>9 DEF Finish, Sent, Kept
    <2> QED
      BY <2>1 DEF Done
  <1>10. ASSUME NEW t \in Threads, NEW v \in Values, SetResponse(t, v)
         PROVE  TypeOK'
    BY <1>10 DEF SetResponse
  <1>11. CASE UNCHANGED vars
    BY <1>11 DEF vars
  <1> QED
    BY <1>1, <1>2, <1>3, <1>4, <1>5, <1>6, <1>7, <1>8, <1>9, <1>10, <1>11 DEF Next

LEMMA UnsubmittedInductive ==
    ASSUME IInv, [Next]_vars
    PROVE  Unsubmitted'
  <1> USE ResponseAssumption DEF IInv, TypeOK, Unsubmitted
  <1>1. CASE Tick \/ SendLog \/ UNCHANGED vars
    BY <1>1 DEF Tick, SendLog, vars
  <1>2. ASSUME NEW g \in Gets, Arrive(g) \/ GetCached(g) \/ GetPersistent(g)
                              \/ GetRuns(g) \/ BodyError(g)
        PROVE  Unsubmitted'
    BY <1>2 DEF Arrive, GetCached, GetPersistent, GetRuns, BodyError, Reply
  <1>3. ASSUME NEW g \in Gets, Submit(g) \/ Answer(g)
        PROVE  Unsubmitted'
    BY <1>3 DEF Submit, Answer, Reply
  <1>4. ASSUME NEW t \in Threads, Start(t)
        PROVE  Unsubmitted'
    BY <1>4 DEF Start
  <1>5. ASSUME NEW t \in Threads, Fail(t) \/ Finish(t)
        PROVE  Unsubmitted'
    BY <1>5 DEF Fail, Finish, Done, Running
  <1>6. ASSUME NEW t \in Threads, NEW v \in Values, SetResponse(t, v)
        PROVE  Unsubmitted'
    BY <1>6 DEF SetResponse, Running
  <1> QED
    BY <1>1, <1>2, <1>3, <1>4, <1>5, <1>6 DEF Next

LEMMA QueuedInductive ==
    ASSUME IInv, [Next]_vars
    PROVE  Queued'
  <1> USE ResponseAssumption DEF IInv, TypeOK, Queued
  <1>1. CASE Tick \/ UNCHANGED vars
    BY <1>1 DEF Tick, vars
  <1>2. CASE SendLog
    BY <1>2, Appended DEF SendLog
  <1>3. ASSUME NEW g \in Gets, Arrive(g) \/ GetCached(g) \/ GetPersistent(g)
                              \/ GetRuns(g) \/ BodyError(g)
        PROVE  Queued'
    BY <1>3 DEF Arrive, GetCached, GetPersistent, GetRuns, BodyError, Reply
  <1>4. ASSUME NEW g \in Gets, Submit(g)
        PROVE  Queued'
    <2>1. CASE HasRoom
      <3>1. queue' = Append(queue, g) /\ chan' = chan
        BY <1>4, <2>1 DEF Submit
      <3>2. \A i \in 1..Len(queue) : queue[i] # g
        BY <1>4 DEF Submit
      <3> QED
        BY <1>4, <3>1, <3>2, Appended DEF Submit, Unsubmitted
    <2>2. CASE ~HasRoom
      BY <1>4, <2>2 DEF Submit
    <2> QED
      BY <2>1, <2>2
  <1>5. ASSUME NEW g \in Gets, Answer(g)
        PROVE  Queued'
    BY <1>5 DEF Answer, Reply
  <1>6. ASSUME NEW t \in Threads, Start(t)
        PROVE  Queued'
    BY <1>6, Taken DEF Start
  <1>7. ASSUME NEW t \in Threads, Fail(t) \/ Finish(t)
        PROVE  Queued'
    BY <1>7 DEF Fail, Finish, Done, Running
  <1>8. ASSUME NEW t \in Threads, NEW v \in Values, SetResponse(t, v)
        PROVE  Queued'
    BY <1>8 DEF SetResponse, Running
  <1> QED
    BY <1>1, <1>2, <1>3, <1>4, <1>5, <1>6, <1>7, <1>8 DEF Next

LEMMA RunningInductive ==
    ASSUME IInv, [Next]_vars
    PROVE  Running'
  <1> USE ResponseAssumption DEF IInv, TypeOK, Running
  <1>1. CASE Tick \/ UNCHANGED vars
    BY <1>1 DEF Tick, vars
  <1>2. CASE SendLog
    BY <1>2, Appended DEF SendLog
  <1>3. ASSUME NEW g \in Gets, Arrive(g) \/ GetCached(g) \/ GetPersistent(g)
                              \/ GetRuns(g) \/ BodyError(g)
        PROVE  Running'
    BY <1>3 DEF Arrive, GetCached, GetPersistent, GetRuns, BodyError, Reply
  <1>4. ASSUME NEW g \in Gets, Submit(g)
        PROVE  Running'
    <2>1. \A t \in Threads : job[t] # g
      BY <1>4 DEF Submit
    <2>2. CASE HasRoom
      <3>1. queue' = Append(queue, g) /\ chan' = chan
        BY <1>4, <2>2 DEF Submit
      <3>2. \A t \in Threads : job[t] \in Gets =>
              \A i \in 1..Len(queue') : queue'[i] # job[t]
        BY <2>1, <3>1, Appended
      <3> QED
        BY <1>4, <2>1, <3>1, <3>2 DEF Submit
    <2>3. CASE ~HasRoom
      BY <1>4, <2>1, <2>3 DEF Submit
    <2> QED
      BY <2>2, <2>3
  <1>5. ASSUME NEW g \in Gets, Answer(g)
        PROVE  Running'
    BY <1>5 DEF Answer, Reply
  <1>6. ASSUME NEW t \in Threads, Start(t)
        PROVE  Running'
    BY <1>6, Taken DEF Start, Queued
  <1>7. ASSUME NEW t \in Threads, Fail(t)
        PROVE  Running'
    BY <1>7 DEF Fail, Done
  <1>8. ASSUME NEW t \in Threads, Finish(t)
        PROVE  Running'
    BY <1>8 DEF Finish, Done
  <1>9. ASSUME NEW t \in Threads, NEW v \in Values, SetResponse(t, v)
        PROVE  Running'
    BY <1>9 DEF SetResponse
  <1> QED
    BY <1>1, <1>2, <1>3, <1>4, <1>5, <1>6, <1>7, <1>8, <1>9 DEF Next

LEMMA AnswersInductive ==
    ASSUME IInv, [Next]_vars
    PROVE  Answers'
  <1> USE ResponseAssumption DEF IInv, TypeOK, Answers
  <1>1. CASE Tick \/ SendLog \/ UNCHANGED vars
    BY <1>1 DEF Tick, SendLog, vars
  <1>2. ASSUME NEW g \in Gets, Arrive(g) \/ GetCached(g) \/ GetPersistent(g)
                              \/ GetRuns(g) \/ BodyError(g)
        PROVE  Answers'
    BY <1>2 DEF Arrive, GetCached, GetPersistent, GetRuns, BodyError, Reply
  <1>3. ASSUME NEW g \in Gets, Submit(g) \/ Answer(g)
        PROVE  Answers'
    BY <1>3 DEF Submit, Answer, Reply, Unsubmitted
  <1>4. ASSUME NEW t \in Threads, Start(t)
        PROVE  Answers'
    BY <1>4 DEF Start
  <1>5. ASSUME NEW t \in Threads, NEW v \in Values, SetResponse(t, v)
        PROVE  Answers'
    BY <1>5 DEF SetResponse, Running
  <1>6. ASSUME NEW t \in Threads, Fail(t)
        PROVE  Answers'
    BY <1>6 DEF Fail, Done, Running
  <1>7. ASSUME NEW t \in Threads, Finish(t)
        PROVE  Answers'
    BY <1>7 DEF Finish, Done, Running, Fits, Sent, Maybe
  <1> QED
    BY <1>1, <1>2, <1>3, <1>4, <1>5, <1>6, <1>7 DEF Next

LEMMA AnsweredInductive ==
    ASSUME IInv, [Next]_vars
    PROVE  AnsweredByOwn'
  <1> USE ResponseAssumption DEF IInv, TypeOK, AnsweredByOwn
  <1>1. CASE Tick \/ SendLog \/ UNCHANGED vars
    BY <1>1 DEF Tick, SendLog, vars
  <1>2. ASSUME NEW g \in Gets, Arrive(g) \/ GetCached(g) \/ GetPersistent(g)
                              \/ GetRuns(g) \/ BodyError(g) \/ Submit(g)
        PROVE  AnsweredByOwn'
    <2>1. CASE Arrive(g) \/ GetRuns(g) \/ Submit(g)
      BY <2>1 DEF Arrive, GetRuns, Submit
    <2>2. CASE GetCached(g) \/ GetPersistent(g) \/ BodyError(g)
      <3>1. own[g] = None /\ UNCHANGED <<persistent, own>>
        BY <2>2 DEF GetCached, GetPersistent, BodyError, Unsubmitted
      <3>2. \E body : Reply(g, body)
        BY <2>2 DEF GetCached, GetPersistent, BodyError
      <3> QED
        BY <3>1, <3>2 DEF Reply
    <2> QED
      BY <1>2, <2>1, <2>2
  <1>3. ASSUME NEW g \in Gets, Answer(g)
        PROVE  AnsweredByOwn'
    BY <1>3 DEF Answer, Reply, Answers
  <1>4. ASSUME NEW t \in Threads, Start(t) \/ Finish(t)
        PROVE  AnsweredByOwn'
    BY <1>4 DEF Start, Finish
  <1>5. ASSUME NEW t \in Threads, Fail(t)
        PROVE  AnsweredByOwn'
    BY <1>5 DEF Fail, Running
  <1>6. ASSUME NEW t \in Threads, NEW v \in Values, SetResponse(t, v)
        PROVE  AnsweredByOwn'
    BY <1>6 DEF SetResponse, Running
  <1> QED
    BY <1>1, <1>2, <1>3, <1>4, <1>5, <1>6 DEF Next

-----------------------------------------------------------------------------
(* The inductive invariant: a request is in one place, and what its        *)
(* execution set is with the thread that runs it.                          *)
THEOREM Invariance == Spec => []IInv
  <1>1. ASSUME IInv, [Next]_vars PROVE IInv'
    BY <1>1, TypeInductive, UnsubmittedInductive, QueuedInductive, RunningInductive,
       AnswersInductive, AnsweredInductive DEF IInv
  <1> QED
    BY InitIInv, <1>1, PTL DEF Spec

(* Every variable keeps its type, for every caching mode. *)
THEOREM TypeCorrectness == Spec => []TypeOK
  <1>1. IInv => TypeOK
    BY DEF IInv
  <1> QED
    BY Invariance, <1>1, PTL

(* A request whose execution set a response that fits is given that one.   *)
THEOREM OwnAnswer == Spec => []AnsweredByOwn
  <1>1. IInv => AnsweredByOwn
    BY DEF IInv
  <1> QED
    BY Invariance, <1>1, PTL

=============================================================================

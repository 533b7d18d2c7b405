--------------------------- MODULE ExecutorProofs ---------------------------
(***************************************************************************)
(* Proofs about Executor, for every number of threads, pools, generators,  *)
(* requests and messages: type correctness, no accepted message is lost,   *)
(* the drain is bounded, a graceful shutdown leaves nothing in memory, and *)
(* while storage works no thread receives a message twice.                 *)
(***************************************************************************)
EXTENDS Executor, TLAPS

(* What a thread, a task or main holds in each of its control states. *)
Holdings ==
    /\ \A w \in Workers :
         /\ pc[w] \in {"run", "dispatch"} <=> cur[w] # NoMsg
         /\ pc[w] = "dispatch" => pend[w].msg \in Message
         /\ pend[w].immediate => pc[w] = "dispatch" /\ imm[w]
         /\ imm[w] => pc[w] \in {"run", "dispatch"}
    /\ \A g \in Generators : generator[g] = "send" <=> out[g] # NoMsg
    /\ fetcher = "delete" <=> sent # NoMsg
    /\ hand["listener"] # NoMsg => listener = "work"
    /\ hand["main"] # NoMsg => main = "flush"

(* How far main is, and what has ended by then. *)
Progress ==
    /\ cancelled <=> main # "serving"
    /\ server # "up" => cancelled
    /\ server = "down" => \A r \in Requests : request[r] \in {"none", "replied"}
    /\ main \notin {"serving", "joinTasks"} => TasksExited
    /\ ~MainHoldsSenders => server = "down"
    /\ main \in {"flush", "exited"} => ThreadsExited
    /\ main = "exited" => delayed = <<>>

(* A thread that left saw its channel empty and without senders. *)
Departed ==
    \A w \in Workers : pc[w] = "exited" =>
        queue[PoolOf[w]] = <<>> /\ Disconnected(PoolOf[w])

(* A thread that may still send late has not done so yet. *)
LateOnce ==
    \A w \in Workers :
        /\ late[w] <= 1
        /\ ~cancelled \/ pend[w].immediate => late[w] = 0

(* What the internal processor is about to delete is already forwarded. *)
SentIsForwarded == sent # NoMsg => Forwarded(sent)

IInv == /\ TypeOK /\ Holdings /\ Progress /\ Departed /\ LateOnce
        /\ SentIsForwarded /\ NoMessageLost

USE DEF mainVars, workerVars, listenerVars, fetcherVars, generatorVars,
        serverVars, historyVars

-----------------------------------------------------------------------------
(* Typing *)

LEMMA NewMessageType ==
    ASSUME TypeOK, FreshId, NEW t \in LogTypes, NEW b \in Budget,
           NEW r \in GetRequests \cup {NoReply}
    PROVE  /\ NewMessage(t, b, r) \in Message
           /\ nextId' \in 1..MaxId+1
  BY ConstantsAssumption DEF TypeOK, FreshId, NewMessage, Message

LEMMA ChargeType ==
    ASSUME NEW x \in Budget, NEW asked \in Budget, MayLogBack(x, asked)
    PROVE  Charge(x, asked) \in Budget
  BY ConstantsAssumption DEF MayLogBack, Charge, Budget

LEMMA TypeInductive ==
    ASSUME TypeOK, Holdings, [Next]_vars
    PROVE  TypeOK'
  <1> USE ConstantsAssumption
  <1>a. ASSUME NEW p \in Pool, queue[p] # <<>>
        PROVE  /\ Head(queue[p]) \in Message
               /\ Tail(queue[p]) \in Seq(Message)
               /\ Head(queue[p]).budget \in Budget
    <2>1. queue[p] \in Seq(Message)
      BY DEF TypeOK
    <2>2. Head(queue[p]) \in Message /\ Tail(queue[p]) \in Seq(Message)
      BY <1>a, <2>1
    <2> QED
      BY <2>2 DEF Message
  <1>b. ASSUME NEW p \in Pool, NEW m \in Message, Enqueue(p, m)
        PROVE  queue' \in [Pool -> Seq(Message)]
    BY <1>b DEF TypeOK, Enqueue
  <1>c. General \in Pool
    BY DEF Pool
  <1>d. \A w \in Workers : PoolOf[w] \in Pool
    OBVIOUS
  <1>1. ASSUME NEW w \in Workers, Recv(w) PROVE TypeOK'
    BY <1>1, <1>a, <1>d DEF TypeOK, Recv, WorkerPC
  <1>2. ASSUME NEW w \in Workers, RecvUnknown(w) PROVE TypeOK'
    BY <1>2, <1>a, <1>d DEF TypeOK, RecvUnknown
  <1>3. ASSUME NEW w \in Workers, RecvError(w) PROVE TypeOK'
    BY <1>3 DEF TypeOK, RecvError, WorkerPC
  <1>4. ASSUME NEW w \in Workers, LogBack(w) PROVE TypeOK'
    <2>1. PICK t \in LogTypes, asked \in Budget, delay \in {0, 1} :
             /\ MayLogBack(left[w], asked)
             /\ left' = [left EXCEPT ![w] = Charge(@, asked)]
             /\ pend' = [pend EXCEPT ![w] =
                   [msg |-> NewMessage(t, asked, NoReply),
                    immediate |-> Immediate(w, delay)]]
      BY <1>4 DEF LogBack
    <2>2. NewMessage(t, asked, NoReply) \in Message /\ nextId' \in 1..MaxId+1
      BY <1>4, NewMessageType DEF LogBack
    <2>3. left' \in [Workers -> Budget]
      BY <2>1, ChargeType DEF TypeOK
    <2>4. Immediate(w, delay) \in BOOLEAN
      BY DEF Immediate, TypeOK
    <2>5. pend' \in [Workers -> [msg: Message \cup {NoMsg}, immediate: BOOLEAN]]
      BY <2>1, <2>2, <2>4 DEF TypeOK
    <2> QED
      BY <1>4, <2>2, <2>3, <2>5 DEF TypeOK, LogBack, WorkerPC
  <1>5. ASSUME NEW w \in Workers, LogBackFault(w) PROVE TypeOK'
    BY <1>5, ChargeType DEF TypeOK, LogBackFault
  <1>6. ASSUME NEW w \in Workers, DispatchImmediate(w) PROVE TypeOK'
    <2>1. pend[w].msg \in Message
      BY <1>6 DEF DispatchImmediate, Holdings
    <2>2. queue' \in [Pool -> Seq(Message)]
      BY <1>6, <1>b, <1>c, <2>1 DEF DispatchImmediate, TypeOK
    <2>3. pend' \in [Workers -> [msg: Message \cup {NoMsg}, immediate: BOOLEAN]]
      BY <1>6 DEF DispatchImmediate, TypeOK, NoPending
    <2>4. late' \in [Workers -> Nat]
      <3>1. late[w] \in Nat /\ (IF cancelled THEN late[w] + 1 ELSE late[w]) \in Nat
        BY DEF TypeOK
      <3>2. \/ late' = late
            \/ late' = [late EXCEPT ![w] = IF cancelled THEN late[w] + 1 ELSE late[w]]
        BY <1>6 DEF DispatchImmediate
      <3> QED
        BY <3>1, <3>2 DEF TypeOK
    <2>5. accepted' \subseteq Message
      <3>1. \/ accepted' = accepted
            \/ accepted' = accepted \cup {pend[w].msg}
        BY <1>6 DEF DispatchImmediate
      <3> QED
        BY <2>1, <3>1 DEF TypeOK
    <2>6. pc' \in [Workers -> WorkerPC]
      BY <1>6 DEF DispatchImmediate, TypeOK, WorkerPC
    <2>7. UNCHANGED <<mainVars, cur, idx, left, imm, delayed, db, listenerVars,
                      fetcherVars, generatorVars, serverVars, nextId,
                      taken, done, lost>>
      BY <1>6 DEF DispatchImmediate
    <2> QED
      BY <2>2, <2>3, <2>4, <2>5, <2>6, <2>7 DEF TypeOK
  <1>7. ASSUME NEW w \in Workers, DispatchDelayed(w) PROVE TypeOK'
    <2>1. pend[w].msg \in Message
      BY <1>7 DEF DispatchDelayed, Holdings
    <2>2. pend' \in [Workers -> [msg: Message \cup {NoMsg}, immediate: BOOLEAN]]
      BY <1>7 DEF DispatchDelayed, TypeOK, NoPending
    <2>3. delayed' \in Seq(Message) /\ accepted' \subseteq Message
      <3>1. \/ /\ delayed' = Append(delayed, pend[w].msg)
               /\ accepted' = accepted \cup {pend[w].msg}
            \/ delayed' = delayed /\ accepted' = accepted
        BY <1>7 DEF DispatchDelayed
      <3>2. delayed \in Seq(Message) /\ accepted \subseteq Message
        BY DEF TypeOK
      <3>3. Append(delayed, pend[w].msg) \in Seq(Message)
        BY <2>1, <3>2
      <3> QED
        BY <2>1, <3>1, <3>2, <3>3
    <2>4. /\ pc' = [pc EXCEPT ![w] = "run"]
          /\ UNCHANGED <<mainVars, queue, cur, idx, left, imm, db, listenerVars,
                         fetcherVars, generatorVars, serverVars, nextId,
                         taken, done, lost, late>>
      BY <1>7 DEF DispatchDelayed
    <2> QED
      BY <2>2, <2>3, <2>4 DEF TypeOK, WorkerPC
  <1>8. ASSUME NEW w \in Workers, NextRule(w) PROVE TypeOK'
    <2>1. cur[w] \in Message
      BY <1>8 DEF NextRule, Holdings, TypeOK
    <2>2. cur[w].budget \in Budget
      BY <2>1 DEF Message
    <2> QED
      BY <1>8, <2>2 DEF TypeOK, NextRule
  <1>9. ASSUME NEW w \in Workers, EndOfMessage(w) PROVE TypeOK'
    <2>1. cur[w] \in Message
      BY <1>9 DEF EndOfMessage, Holdings, TypeOK
    <2>2. request' \in [Requests -> RequestState]
      BY <1>9 DEF EndOfMessage, Answered, TypeOK, RequestState
    <2> QED
      BY <1>9, <2>1, <2>2 DEF TypeOK, EndOfMessage, WorkerPC
  <1>10. ASSUME NEW p \in Persisters, ReceiveDelayed(p) PROVE TypeOK'
    BY <1>10 DEF TypeOK, ReceiveDelayed
  <1>11. ASSUME NEW p \in Persisters, PersistDelayedLog(p) PROVE TypeOK'
    BY <1>11 DEF TypeOK, PersistDelayedLog
  <1>12. CASE Listener
    BY <1>12 DEF TypeOK, Listener, ListenerWake, ListenerSleep, AfterWake
  <1>13. CASE FetcherWake
    BY <1>13 DEF TypeOK, FetcherWake, AfterWake
  <1>14. CASE FetcherSend
    <2>1. PICK m \in heap : Enqueue(General, m) /\ heap' = heap \ {m} /\ sent' = m
      BY <1>14 DEF FetcherSend
    <2>2. m \in Message /\ queue' \in [Pool -> Seq(Message)]
      BY <2>1, <1>b, <1>c DEF TypeOK
    <2> QED
      BY <1>14, <2>1, <2>2 DEF TypeOK, FetcherSend
  <1>15. CASE FetcherDelete
    BY <1>15 DEF TypeOK, FetcherDelete, SentDeleted
  <1>16. CASE FetcherSleep
    BY <1>16 DEF TypeOK, FetcherSleep
  <1>17. ASSUME NEW g \in Generators, GeneratorWake(g) \/ GeneratorSleep(g)
         PROVE  TypeOK'
    BY <1>17 DEF TypeOK, GeneratorWake, GeneratorSleep, AfterWake
  <1>18. ASSUME NEW g \in Generators, GeneratorFetch(g) PROVE TypeOK'
    BY <1>18, NewMessageType DEF TypeOK, GeneratorFetch
  <1>19. ASSUME NEW g \in Generators, GeneratorSend(g) PROVE TypeOK'
    <2>1. out[g] \in Message
      BY <1>19 DEF GeneratorSend, Holdings, TypeOK
    <2>2. queue' \in [Pool -> Seq(Message)]
      BY <1>19, <1>b, <1>c, <2>1 DEF GeneratorSend, TypeOK
    <2> QED
      BY <1>19, <2>1, <2>2 DEF TypeOK, GeneratorSend
  <1>20. ASSUME NEW r \in Requests, Arrive(r) \/ BodyError(r) PROVE TypeOK'
    BY <1>20 DEF TypeOK, Arrive, BodyError, RequestState
  <1>21. ASSUME NEW r \in Requests, PostHandler(r) PROVE TypeOK'
    <2>1. PICK t \in LogTypes :
            IF HasRoom(WebhookPool(t))
              THEN /\ Enqueue(WebhookPool(t), NewMessage(t, SourceBudget, NoReply))
                   /\ accepted' = accepted \cup {NewMessage(t, SourceBudget, NoReply)}
              ELSE UNCHANGED <<queue, accepted>>
      BY <1>21 DEF PostHandler
    <2>2. /\ NewMessage(t, SourceBudget, NoReply) \in Message
          /\ nextId' \in 1..MaxId+1
      BY <1>21, NewMessageType DEF PostHandler
    <2>3. WebhookPool(t) \in Pool
      BY DEF WebhookPool, Pool
    <2>4. queue' \in [Pool -> Seq(Message)] /\ accepted' \subseteq Message
      BY <2>1, <2>2, <2>3, <1>b DEF TypeOK
    <2> QED
      BY <1>21, <2>2, <2>4 DEF TypeOK, PostHandler, RequestState
  <1>22. ASSUME NEW r \in GetRequests, GetHandler(r) PROVE TypeOK'
    <2>1. PICK t \in LogTypes :
            IF HasRoom(General)
              THEN /\ Enqueue(General, NewMessage(t, SourceBudget, r))
                   /\ accepted' = accepted \cup {NewMessage(t, SourceBudget, r)}
                   /\ request' = [request EXCEPT ![r] = "waiting"]
              ELSE /\ request' = [request EXCEPT ![r] = "replied"]
                   /\ UNCHANGED <<queue, accepted>>
      BY <1>22 DEF GetHandler
    <2>2. /\ NewMessage(t, SourceBudget, r) \in Message
          /\ nextId' \in 1..MaxId+1
      BY <1>22, NewMessageType DEF GetHandler
    <2>3. queue' \in [Pool -> Seq(Message)] /\ accepted' \subseteq Message
      BY <2>1, <2>2, <1>b, <1>c DEF TypeOK
    <2>4. request' \in [Requests -> RequestState]
      BY <2>1 DEF TypeOK, RequestState, Requests
    <2> QED
      BY <1>22, <2>2, <2>3, <2>4 DEF TypeOK, GetHandler
  <1>23. CASE Server
    BY <1>23 DEF TypeOK, Server, ServerStopsAccepting, ServerReturns
  <1>24. CASE Cancel \/ Shutdown
    <2>1. /\ main' \in MainPC /\ cancelled' \in {cancelled, TRUE}
          /\ UNCHANGED <<queue, workerVars, delayed, db, listenerVars, fetcherVars,
                         generatorVars, serverVars, nextId, historyVars>>
      BY <1>24 DEF Cancel, Shutdown, JoinTasks, JoinServers, JoinThreads,
                   FlushDone, MainPC
    <2> QED
      BY <2>1 DEF TypeOK
  <1>25. CASE UNCHANGED vars
    BY <1>25 DEF TypeOK, vars
  <1> QED
    BY <1>1, <1>2, <1>3, <1>4, <1>5, <1>6, <1>7, <1>8, <1>9, <1>10, <1>11,
       <1>12, <1>13, <1>14, <1>15, <1>16, <1>17, <1>18, <1>19, <1>20, <1>21,
       <1>22, <1>23, <1>24, <1>25
    DEF Next, Rule, Thread, Persist, Fetcher, Generator, Handler, Terminated

-----------------------------------------------------------------------------
(* Control state and data *)

(* One step per component; a step only disturbs the holdings of the         *)
(* component that takes it.                                                 *)
LEMMA HoldingsInductive ==
    ASSUME TypeOK, TypeOK', Holdings, [Next]_vars
    PROVE  Holdings'
  <1> USE ConstantsAssumption
  <1>1. ASSUME NEW w \in Workers, Recv(w) PROVE Holdings'
    <2>1. Head(queue[PoolOf[w]]) # NoMsg
      <3>1. queue[PoolOf[w]] \in Seq(Message) /\ queue[PoolOf[w]] # <<>>
        BY <1>1 DEF TypeOK, Recv
      <3> QED
        BY <3>1
    <2> QED
      BY <1>1, <2>1 DEF TypeOK, Holdings, Recv
  <1>2. ASSUME NEW w \in Workers, RecvUnknown(w) \/ RecvError(w) PROVE Holdings'
    BY <1>2 DEF TypeOK, Holdings, RecvUnknown, RecvError
  <1>3. ASSUME NEW w \in Workers, LogBack(w) PROVE Holdings'
    <2>1. PICK t \in LogTypes, asked \in Budget, delay \in {0, 1} :
             pend' = [pend EXCEPT ![w] =
                   [msg |-> NewMessage(t, asked, NoReply),
                    immediate |-> Immediate(w, delay)]]
      BY <1>3 DEF LogBack
    <2>2. NewMessage(t, asked, NoReply) \in Message
      BY <1>3, NewMessageType DEF LogBack
    <2>3. Immediate(w, delay) => imm[w]
      BY DEF Immediate
    <2> QED
      BY <1>3, <2>1, <2>2, <2>3 DEF TypeOK, Holdings, LogBack
  <1>4. ASSUME NEW w \in Workers, LogBackFault(w) \/ NextRule(w) PROVE Holdings'
    <2>1. UNCHANGED <<mainVars, pc, cur, imm, pend, listenerVars, fetcherVars,
                      generatorVars>>
      BY <1>4 DEF LogBackFault, NextRule
    <2> QED
      BY <2>1 DEF Holdings
  <1>5. ASSUME NEW w \in Workers, DispatchImmediate(w) \/ DispatchDelayed(w)
        PROVE  Holdings'
    <2>1. /\ pc' = [pc EXCEPT ![w] = "run"]
          /\ pend' = [pend EXCEPT ![w] = NoPending]
          /\ pc[w] = "dispatch"
          /\ UNCHANGED <<main, cur, imm, listenerVars, fetcherVars, generatorVars>>
      BY <1>5 DEF DispatchImmediate, DispatchDelayed
    <2> QED
      BY <2>1 DEF TypeOK, Holdings, NoPending
  <1>6. ASSUME NEW w \in Workers, EndOfMessage(w) PROVE Holdings'
    BY <1>6 DEF TypeOK, Holdings, EndOfMessage
  <1>7. ASSUME NEW p \in Persisters, Persist(p) PROVE Holdings'
    BY <1>7 DEF TypeOK, Holdings, Persist, ReceiveDelayed, PersistDelayedLog,
                Listening, Persisters
  <1>8. CASE Listener
    BY <1>8 DEF TypeOK, Holdings, Listener, ListenerWake, ListenerSleep, AfterWake
  <1>9. CASE Fetcher
    BY <1>9 DEF TypeOK, Holdings, Fetcher, FetcherWake, FetcherSend,
                FetcherDelete, FetcherSleep, AfterWake
  <1>10. ASSUME NEW g \in Generators,
                GeneratorWake(g) \/ GeneratorSleep(g) \/ GeneratorSend(g)
         PROVE  Holdings'
    <2>1. CASE GeneratorWake(g) \/ GeneratorSleep(g)
      BY <2>1 DEF TypeOK, Holdings, GeneratorWake, GeneratorSleep, AfterWake
    <2>2. CASE GeneratorSend(g)
      BY <2>2 DEF TypeOK, Holdings, GeneratorSend
    <2> QED
      BY <1>10, <2>1, <2>2
  <1>11. ASSUME NEW g \in Generators, GeneratorFetch(g) PROVE Holdings'
    BY <1>11, NewMessageType DEF TypeOK, Holdings, GeneratorFetch
  <1>12. ASSUME NEW r \in Requests, Arrive(r) \/ Handler(r) PROVE Holdings'
    BY <1>12 DEF Holdings, Arrive, Handler, BodyError, PostHandler, GetHandler
  <1>13. CASE Server \/ Cancel \/ Shutdown
    BY <1>13 DEF Holdings, Server, ServerStopsAccepting, ServerReturns, Cancel,
                 Shutdown, JoinTasks, JoinServers, JoinThreads, FlushDone, Flushed
  <1>14. CASE UNCHANGED vars
    BY <1>14 DEF Holdings, vars
  <1> QED
    BY <1>1, <1>2, <1>3, <1>4, <1>5, <1>6, <1>7, <1>8, <1>9, <1>10, <1>11,
       <1>12, <1>13, <1>14
    DEF Next, Rule, Thread, Generator, Terminated

(* The order in which main joins: nothing that has ended starts again. *)
LEMMA ProgressInductive ==
    ASSUME TypeOK, Holdings, Progress, [Next]_vars
    PROVE  Progress'
  <1> USE DEF MainHoldsSenders, TasksExited, ThreadsExited
  <1>1. ASSUME NEW w \in Workers,
               \/ Recv(w) \/ RecvUnknown(w) \/ RecvError(w) \/ LogBack(w)
               \/ LogBackFault(w) \/ NextRule(w)
        PROVE  Progress'
    BY <1>1 DEF TypeOK, Progress, Recv, RecvUnknown, RecvError, LogBack,
                LogBackFault, NextRule
  <1>2. ASSUME NEW w \in Workers, DispatchImmediate(w) \/ DispatchDelayed(w)
        PROVE  Progress'
    BY <1>2 DEF TypeOK, Progress, DispatchImmediate, DispatchDelayed
  <1>3. ASSUME NEW w \in Workers, EndOfMessage(w) PROVE Progress'
    BY <1>3 DEF TypeOK, Progress, EndOfMessage, Answered
  <1>4. ASSUME NEW p \in Persisters, Persist(p) PROVE Progress'
    BY <1>4 DEF TypeOK, Progress, Persist, ReceiveDelayed, PersistDelayedLog
  <1>5. CASE Listener
    BY <1>5 DEF TypeOK, Progress, Listener, ListenerWake, ListenerSleep
  <1>6. CASE Fetcher
    BY <1>6 DEF TypeOK, Progress, Fetcher, FetcherWake, FetcherSend,
                FetcherDelete, FetcherSleep
  <1>7. ASSUME NEW g \in Generators, Generator(g) PROVE Progress'
    BY <1>7 DEF TypeOK, Progress, Generator, GeneratorWake, GeneratorFetch,
                GeneratorSend, GeneratorSleep
  <1>8. ASSUME NEW r \in Requests, Arrive(r) \/ Handler(r) PROVE Progress'
    BY <1>8 DEF TypeOK, Progress, Arrive, Handler, BodyError, PostHandler,
                GetHandler
  <1>9. CASE Server
    BY <1>9 DEF TypeOK, Progress, Server, ServerStopsAccepting, ServerReturns
  <1>10. CASE Cancel
    BY <1>10 DEF TypeOK, Progress, Cancel
  <1>11. CASE Shutdown
    BY <1>11 DEF TypeOK, Progress, Shutdown, JoinTasks, JoinServers, JoinThreads,
                 FlushDone, Flushed
  <1>12. CASE UNCHANGED vars
    BY <1>12 DEF Progress, vars
  <1> QED
    BY <1>1, <1>2, <1>3, <1>4, <1>5, <1>6, <1>7, <1>8, <1>9, <1>10, <1>11, <1>12
    DEF Next, Rule, Thread, Terminated

(* A task that ended, and the server, do not come back. *)
LEMMA TasksStayExited ==
    ASSUME TypeOK, [Next]_vars
    PROVE  /\ server = "down" => server' = "down"
           /\ fetcher = "exited" => fetcher' = "exited"
           /\ \A g \in Generators :
                generator[g] = "exited" => generator'[g] = "exited"
  <1>1. ASSUME NEW w \in Workers, Rule(w) \/ Thread(w)
        PROVE  UNCHANGED <<server, fetcher, generator>>
    BY <1>1 DEF Rule, Thread, LogBack, LogBackFault, Recv, RecvUnknown, RecvError,
                DispatchImmediate, DispatchDelayed, NextRule, EndOfMessage
  <1>2. ASSUME NEW p \in Persisters, Persist(p)
        PROVE  UNCHANGED <<server, fetcher, generator>>
    BY <1>2 DEF Persist, ReceiveDelayed, PersistDelayedLog
  <1>3. CASE Listener \/ Cancel \/ Shutdown \/ UNCHANGED vars
    BY <1>3 DEF Listener, ListenerWake, ListenerSleep, Cancel, Shutdown, JoinTasks,
                JoinServers, JoinThreads, FlushDone, vars
  <1>4. CASE Fetcher
    BY <1>4 DEF Fetcher, FetcherWake, FetcherSend, FetcherDelete, FetcherSleep
  <1>5. ASSUME NEW g \in Generators, Generator(g)
        PROVE  /\ UNCHANGED <<server, fetcher>>
               /\ \A h \in Generators :
                    generator[h] = "exited" => generator'[h] = "exited"
    BY <1>5 DEF Generator, GeneratorWake, GeneratorFetch, GeneratorSend,
                GeneratorSleep, TypeOK
  <1>6. ASSUME NEW r \in Requests, Arrive(r) \/ Handler(r)
        PROVE  UNCHANGED <<server, fetcher, generator>>
    BY <1>6 DEF Arrive, Handler, BodyError, PostHandler, GetHandler
  <1>7. CASE Server
    BY <1>7 DEF Server, ServerStopsAccepting, ServerReturns
  <1> QED
    BY <1>1, <1>2, <1>3, <1>4, <1>5, <1>6, <1>7 DEF Next, Terminated

(* Who could disturb a thread's exit: another receiver or sender of its      *)
(* channel.  The first sees it empty, the second cannot exist any more.      *)
LEMMA DepartedInductive ==
    ASSUME TypeOK, Holdings, Progress, Departed, [Next]_vars
    PROVE  Departed'
  <1> USE ConstantsAssumption DEF MainHoldsSenders, Disconnected
  <1>s. /\ server = "down" => server' = "down"
        /\ fetcher = "exited" => fetcher' = "exited"
        /\ \A g \in Generators : generator[g] = "exited" => generator'[g] = "exited"
    BY TasksStayExited
  <1>a. ASSUME UNCHANGED <<queue, pc, imm, main>> PROVE Departed'
    BY <1>a, <1>s DEF Departed
  <1>b. ASSUME NEW v \in Workers, pc[v] = "exited"
        PROVE  /\ ~MainHoldsSenders /\ TasksExited
               /\ \A r \in Requests : request[r] # "reading"
               /\ PoolOf[v] = General => \A w \in Workers : ~imm[w]
    BY <1>b DEF Departed, Progress
  <1>1. ASSUME NEW w \in Workers, Recv(w) PROVE Departed'
    <2> SUFFICES ASSUME NEW v \in Workers, pc'[v] = "exited"
                 PROVE  queue'[PoolOf[v]] = <<>> /\ Disconnected(PoolOf[v])'
      BY DEF Departed
    <2>1. v # w /\ pc[v] = "exited"
      BY <1>1 DEF Recv, TypeOK
    <2>2. queue[PoolOf[v]] = <<>> /\ ~MainHoldsSenders
      BY <2>1, <1>b DEF Departed
    <2>3. queue'[PoolOf[v]] = <<>>
      BY <1>1, <2>2 DEF Recv, TypeOK
    <2>4. Disconnected(PoolOf[v])'
      BY <1>1, <2>1, <2>2, <1>b, <1>s DEF Recv, TypeOK, Departed
    <2> QED
      BY <2>3, <2>4
  <1>2. ASSUME NEW w \in Workers, RecvUnknown(w) PROVE Departed'
    BY <1>2, <1>s DEF RecvUnknown, TypeOK, Departed
  <1>3. ASSUME NEW w \in Workers, RecvError(w) PROVE Departed'
    BY <1>3, <1>s DEF RecvError, TypeOK, Departed
  <1>4. ASSUME NEW w \in Workers, LogBack(w) \/ DispatchDelayed(w) \/ EndOfMessage(w)
        PROVE  Departed'
    <2>1. /\ UNCHANGED <<main, queue>>
          /\ \A v \in Workers : pc'[v] = "exited" => pc[v] = "exited"
          /\ \A v \in Workers : imm'[v] => imm[v]
      <3>1. CASE LogBack(w)
        BY <3>1 DEF LogBack, TypeOK
      <3>2. CASE DispatchDelayed(w)
        <4>1. pc' = [pc EXCEPT ![w] = "run"] /\ UNCHANGED <<main, queue, imm>>
          BY <3>2 DEF DispatchDelayed
        <4> QED
          BY <4>1 DEF TypeOK
      <3>3. CASE EndOfMessage(w)
        BY <3>3 DEF EndOfMessage, TypeOK
      <3> QED
        BY <1>4, <3>1, <3>2, <3>3
    <2> QED
      BY <2>1, <1>s DEF Departed
  <1>5. ASSUME NEW w \in Workers, DispatchImmediate(w) PROVE Departed'
    <2>1. imm[w]
      BY <1>5 DEF DispatchImmediate, Holdings
    <2>2. \A v \in Workers : pc[v] = "exited" => PoolOf[v] # General
      BY <2>1, <1>b
    <2>3. \A v \in Workers : PoolOf[v] # General => queue'[PoolOf[v]] = queue[PoolOf[v]]
      BY <1>5 DEF DispatchImmediate, Enqueue, TypeOK
    <2>4. \A v \in Workers : pc'[v] = "exited" => pc[v] = "exited"
      BY <1>5 DEF DispatchImmediate, TypeOK
    <2>5. UNCHANGED <<main, imm>>
      BY <1>5 DEF DispatchImmediate
    <2> QED
      BY <2>2, <2>3, <2>4, <2>5, <1>s DEF Departed
  <1>6. CASE FetcherSend
    BY <1>6, <1>b DEF FetcherSend, TasksExited, Departed
  <1>7. ASSUME NEW g \in Generators, GeneratorSend(g) PROVE Departed'
    BY <1>7, <1>b DEF GeneratorSend, TasksExited, Departed
  <1>8. ASSUME NEW r \in Requests, PostHandler(r) \/ GetHandler(r) PROVE Departed'
    BY <1>8, <1>b DEF PostHandler, GetHandler, Departed
  <1>9. CASE Cancel \/ Shutdown
    BY <1>9, <1>s DEF Cancel, Shutdown, JoinTasks, JoinServers, JoinThreads,
                      FlushDone, Departed
  <1>10. ASSUME NEW w \in Workers, LogBackFault(w) \/ NextRule(w) PROVE Departed'
    BY <1>10, <1>a DEF LogBackFault, NextRule
  <1>11. ASSUME NEW p \in Persisters, Persist(p) PROVE Departed'
    BY <1>11, <1>a DEF Persist, ReceiveDelayed, PersistDelayedLog
  <1>12. CASE \/ Listener \/ FetcherWake \/ FetcherDelete \/ FetcherSleep
              \/ Server \/ UNCHANGED vars
    BY <1>12, <1>a DEF Listener, ListenerWake, ListenerSleep, FetcherWake,
                       FetcherDelete, FetcherSleep, Server,
                       ServerStopsAccepting, ServerReturns, vars
  <1>13. ASSUME NEW g \in Generators,
                GeneratorWake(g) \/ GeneratorFetch(g) \/ GeneratorSleep(g)
         PROVE  Departed'
    BY <1>13, <1>a DEF GeneratorWake, GeneratorFetch, GeneratorSleep
  <1>14. ASSUME NEW r \in Requests, Arrive(r) \/ BodyError(r) PROVE Departed'
    BY <1>14, <1>a DEF Arrive, BodyError
  <1> QED
    BY <1>1, <1>2, <1>3, <1>4, <1>5, <1>6, <1>7, <1>8, <1>9, <1>10, <1>11,
       <1>12, <1>13, <1>14
    DEF Next, Rule, Thread, Fetcher, Generator, Handler, Terminated

(* Only LogBack before the cancellation can leave an immediate dispatch     *)
(* pending, and that dispatch is used up by the late send.                  *)
LEMMA LateOnceInductive ==
    ASSUME TypeOK, LateOnce, [Next]_vars
    PROVE  LateOnce'
  <1>a. ASSUME UNCHANGED <<late, pend, cancelled>> PROVE LateOnce'
    BY <1>a DEF LateOnce
  <1>1. ASSUME NEW w \in Workers, LogBack(w) PROVE LateOnce'
    <2>1. PICK t \in LogTypes, asked \in Budget, delay \in {0, 1} :
             pend' = [pend EXCEPT ![w] =
                   [msg |-> NewMessage(t, asked, NoReply),
                    immediate |-> Immediate(w, delay)]]
      BY <1>1 DEF LogBack
    <2>2. Immediate(w, delay) => ~cancelled
      BY DEF Immediate
    <2>3. \A v \in Workers : pend'[v].immediate => pend[v].immediate \/ ~cancelled
      BY <2>1, <2>2 DEF TypeOK
    <2> QED
      BY <1>1, <2>3 DEF LateOnce, LogBack
  <1>2. ASSUME NEW w \in Workers, DispatchImmediate(w) PROVE LateOnce'
    <2>1. late[w] = 0
      BY <1>2 DEF DispatchImmediate, LateOnce
    <2>2. \/ late' = late
          \/ late' = [late EXCEPT ![w] = IF cancelled THEN late[w] + 1 ELSE late[w]]
      BY <1>2 DEF DispatchImmediate
    <2>3. /\ ~pend'[w].immediate
          /\ \A v \in Workers \ {w} : pend'[v] = pend[v]
          /\ cancelled' = cancelled
      BY <1>2 DEF DispatchImmediate, NoPending, TypeOK
    <2>4. /\ late'[w] <= 1
          /\ ~cancelled => late'[w] = 0
          /\ \A v \in Workers \ {w} : late'[v] = late[v]
      BY <2>1, <2>2 DEF TypeOK
    <2> QED
      BY <2>3, <2>4 DEF LateOnce
  <1>3. ASSUME NEW w \in Workers, DispatchDelayed(w) PROVE LateOnce'
    BY <1>3 DEF DispatchDelayed, NoPending, TypeOK, LateOnce
  <1>4. CASE Cancel
    BY <1>4 DEF Cancel, LateOnce
  <1>5. ASSUME NEW w \in Workers,
               \/ Recv(w) \/ RecvUnknown(w) \/ RecvError(w) \/ LogBackFault(w)
               \/ NextRule(w) \/ EndOfMessage(w)
        PROVE  LateOnce'
    BY <1>5, <1>a DEF Recv, RecvUnknown, RecvError, LogBackFault, NextRule,
                      EndOfMessage
  <1>6. ASSUME NEW p \in Persisters, Persist(p) PROVE LateOnce'
    BY <1>6, <1>a DEF Persist, ReceiveDelayed, PersistDelayedLog
  <1>7. CASE Listener \/ Fetcher \/ Server \/ Shutdown \/ UNCHANGED vars
    BY <1>7, <1>a DEF Listener, ListenerWake, ListenerSleep, Fetcher, FetcherWake,
                      FetcherSend, FetcherDelete, FetcherSleep, Server,
                      ServerStopsAccepting, ServerReturns, Shutdown, JoinTasks,
                      JoinServers, JoinThreads, FlushDone, vars
  <1>8. ASSUME NEW g \in Generators, Generator(g) PROVE LateOnce'
    BY <1>8, <1>a DEF Generator, GeneratorWake, GeneratorFetch, GeneratorSend,
                      GeneratorSleep
  <1>9. ASSUME NEW r \in Requests, Arrive(r) \/ Handler(r) PROVE LateOnce'
    BY <1>9, <1>a DEF Arrive, Handler, BodyError, PostHandler, GetHandler
  <1> QED
    BY <1>1, <1>2, <1>3, <1>4, <1>5, <1>6, <1>7, <1>8, <1>9
    DEF Next, Rule, Thread, Terminated

-----------------------------------------------------------------------------
(* Conservation of messages *)

LEMMA InAppended ==
    ASSUME NEW s \in Seq(Message), NEW x \in Message
    PROVE  /\ InSeq(x, Append(s, x))
           /\ \A m : InSeq(m, s) => InSeq(m, Append(s, x))
  <1>1. /\ Len(Append(s, x)) = Len(s) + 1
        /\ Append(s, x)[Len(s) + 1] = x
        /\ \A i \in 1..Len(s) : Append(s, x)[i] = s[i]
        /\ Len(s) \in Nat
    OBVIOUS
  <1> QED
    BY <1>1 DEF InSeq

LEMMA InTailOrHead ==
    ASSUME NEW s \in Seq(Message), s # <<>>, NEW m, InSeq(m, s)
    PROVE  m = Head(s) \/ InSeq(m, Tail(s))
  <1>1. PICK i \in 1..Len(s) : s[i] = m
    BY DEF InSeq
  <1>2. CASE i = 1
    BY <1>1, <1>2
  <1>3. CASE i # 1
    <2>1. i - 1 \in 1..Len(Tail(s)) /\ Tail(s)[i - 1] = m
      BY <1>1, <1>3
    <2> QED
      BY <2>1 DEF InSeq
  <1> QED
    BY <1>2, <1>3

LEMMA EnqueueKeeps ==
    ASSUME TypeOK, NEW p \in Pool, NEW x \in Message, Enqueue(p, x)
    PROVE  /\ InQueues(x)'
           /\ \A m : InQueues(m) => InQueues(m)'
  <1>1. /\ queue[p] \in Seq(Message)
        /\ queue'[p] = Append(queue[p], x)
        /\ \A q \in Pool : q # p => queue'[q] = queue[q]
    BY DEF TypeOK, Enqueue
  <1>2. /\ InSeq(x, queue'[p])
        /\ \A m : InSeq(m, queue[p]) => InSeq(m, queue'[p])
    BY <1>1, InAppended
  <1>3. ASSUME NEW m, NEW q \in Pool, InSeq(m, queue[q])
        PROVE  InSeq(m, queue'[q])
    BY <1>1, <1>2, <1>3
  <1> QED
    BY <1>2, <1>3 DEF InQueues, InSeq

(* What recv takes from a channel is the only message that leaves it. *)
LEMMA DequeueKeeps ==
    ASSUME TypeOK, NEW p \in Pool, queue[p] # <<>>,
           queue' = [queue EXCEPT ![p] = Tail(@)], NEW m, InQueues(m)
    PROVE  m = Head(queue[p]) \/ InQueues(m)'
  <1>1. /\ queue[p] \in Seq(Message)
        /\ queue'[p] = Tail(queue[p])
        /\ \A q \in Pool : q # p => queue'[q] = queue[q]
    BY DEF TypeOK
  <1>2. PICK q \in Pool : InSeq(m, queue[q])
    BY DEF InQueues
  <1>3. CASE q = p
    <2>1. m = Head(queue[p]) \/ InSeq(m, Tail(queue[p]))
      BY <1>1, <1>2, <1>3, InTailOrHead
    <2>2. InSeq(m, Tail(queue[p])) => InSeq(m, queue[p])'
      BY <1>1 DEF InSeq
    <2> QED
      BY <2>1, <2>2 DEF InQueues
  <1>4. CASE q # p
    BY <1>1, <1>2, <1>4 DEF InQueues, InSeq
  <1> QED
    BY <1>3, <1>4

(* A message the execution system has stays with it: one step per action    *)
(* that moves messages between channels, threads and done.                  *)
LEMMA ForwardedIsKept ==
    ASSUME TypeOK, Holdings, [Next]_vars, NEW m \in Message, Forwarded(m)
    PROVE  Forwarded(m)'
  <1> USE ConstantsAssumption
  <1>a. ASSUME UNCHANGED <<queue, cur, done>> PROVE Forwarded(m)'
    BY <1>a DEF Forwarded, InQueues, InSeq
  <1>b. ASSUME NEW p \in Pool, NEW x \in Message, Enqueue(p, x), UNCHANGED <<cur, done>>
        PROVE  Forwarded(m)'
    BY <1>b, EnqueueKeeps DEF Forwarded
  <1>c. General \in Pool
    BY DEF Pool
  <1>1. ASSUME NEW w \in Workers, Recv(w) PROVE Forwarded(m)'
    <2> DEFINE p == PoolOf[w]
    <2>1. /\ p \in Pool /\ queue[p] # <<>>
          /\ queue' = [queue EXCEPT ![p] = Tail(@)]
          /\ cur' = [cur EXCEPT ![w] = Head(queue[p])]
          /\ UNCHANGED done
      BY <1>1 DEF Recv
    <2>2. cur[w] = NoMsg
      BY <1>1 DEF Recv, Holdings
    <2>3. cur'[w] = Head(queue[p]) /\ \A v \in Workers \ {w} : cur'[v] = cur[v]
      BY <2>1 DEF TypeOK
    <2>4. InQueues(m) => m = Head(queue[p]) \/ InQueues(m)'
      BY <2>1, DequeueKeeps
    <2> QED
      BY <2>1, <2>2, <2>3, <2>4 DEF Forwarded
  <1>2. ASSUME NEW w \in Workers, RecvUnknown(w) PROVE Forwarded(m)'
    <2> DEFINE p == PoolOf[w]
    <2>1. /\ p \in Pool /\ queue[p] # <<>>
          /\ queue' = [queue EXCEPT ![p] = Tail(@)]
          /\ done' = done \cup {Head(queue[p])}
          /\ UNCHANGED cur
      BY <1>2 DEF RecvUnknown
    <2>2. InQueues(m) => m = Head(queue[p]) \/ InQueues(m)'
      BY <2>1, DequeueKeeps
    <2> QED
      BY <2>1, <2>2 DEF Forwarded
  <1>3. ASSUME NEW w \in Workers, EndOfMessage(w) PROVE Forwarded(m)'
    <2>1. /\ cur' = [cur EXCEPT ![w] = NoMsg]
          /\ done' = done \cup {cur[w]}
          /\ UNCHANGED queue
      BY <1>3 DEF EndOfMessage
    <2>2. \A v \in Workers \ {w} : cur'[v] = cur[v]
      BY <2>1 DEF TypeOK
    <2> QED
      BY <2>1, <2>2 DEF Forwarded, InQueues, InSeq
  <1>4. ASSUME NEW w \in Workers, DispatchImmediate(w) PROVE Forwarded(m)'
    <2>1. pend[w].msg \in Message
      BY <1>4 DEF DispatchImmediate, Holdings
    <2>2. UNCHANGED <<cur, done>>
      BY <1>4 DEF DispatchImmediate
    <2>3. Enqueue(General, pend[w].msg) \/ UNCHANGED queue
      BY <1>4 DEF DispatchImmediate
    <2> QED
      BY <2>1, <2>2, <2>3, <1>a, <1>b, <1>c
  <1>5. CASE FetcherSend
    BY <1>5, <1>b, <1>c DEF FetcherSend, TypeOK
  <1>6. ASSUME NEW g \in Generators, GeneratorSend(g) PROVE Forwarded(m)'
    <2>1. out[g] \in Message
      BY <1>6 DEF GeneratorSend, Holdings, TypeOK
    <2> QED
      BY <1>6, <2>1, <1>a, <1>b, <1>c DEF GeneratorSend
  <1>7. ASSUME NEW r \in Requests, PostHandler(r) PROVE Forwarded(m)'
    <2>1. PICK t \in LogTypes :
            \/ Enqueue(WebhookPool(t), NewMessage(t, SourceBudget, NoReply))
            \/ UNCHANGED queue
      BY <1>7 DEF PostHandler
    <2>2. NewMessage(t, SourceBudget, NoReply) \in Message
      BY <1>7, NewMessageType DEF PostHandler
    <2>3. WebhookPool(t) \in Pool
      BY DEF WebhookPool, Pool
    <2>4. UNCHANGED <<cur, done>>
      BY <1>7 DEF PostHandler
    <2> QED
      BY <2>1, <2>2, <2>3, <2>4, <1>a, <1>b
  <1>8. ASSUME NEW r \in GetRequests, GetHandler(r) PROVE Forwarded(m)'
    <2>1. PICK t \in LogTypes :
            Enqueue(General, NewMessage(t, SourceBudget, r)) \/ UNCHANGED queue
      BY <1>8 DEF GetHandler
    <2>2. NewMessage(t, SourceBudget, r) \in Message
      BY <1>8, NewMessageType DEF GetHandler
    <2>3. UNCHANGED <<cur, done>>
      BY <1>8 DEF GetHandler
    <2> QED
      BY <2>1, <2>2, <2>3, <1>a, <1>b, <1>c
  <1>9. ASSUME NEW w \in Workers,
               \/ RecvError(w) \/ LogBack(w) \/ LogBackFault(w) \/ NextRule(w)
               \/ DispatchDelayed(w)
        PROVE  Forwarded(m)'
    BY <1>9, <1>a DEF RecvError, LogBack, LogBackFault, NextRule, DispatchDelayed
  <1>10. ASSUME NEW p \in Persisters, Persist(p) PROVE Forwarded(m)'
    BY <1>10, <1>a DEF Persist, ReceiveDelayed, PersistDelayedLog
  <1>11. CASE Listener \/ FetcherWake \/ FetcherDelete \/ FetcherSleep \/ Server
              \/ Cancel \/ Shutdown \/ UNCHANGED vars
    BY <1>11, <1>a DEF Listener, ListenerWake, ListenerSleep, FetcherWake,
                       FetcherDelete, FetcherSleep, Server, ServerStopsAccepting,
                       ServerReturns, Cancel, Shutdown, JoinTasks, JoinServers,
                       JoinThreads, FlushDone, vars
  <1>12. ASSUME NEW g \in Generators,
                GeneratorWake(g) \/ GeneratorFetch(g) \/ GeneratorSleep(g)
         PROVE  Forwarded(m)'
    BY <1>12, <1>a DEF GeneratorWake, GeneratorFetch, GeneratorSleep
  <1>13. ASSUME NEW r \in Requests, Arrive(r) \/ BodyError(r) PROVE Forwarded(m)'
    BY <1>13, <1>a DEF Arrive, BodyError
  <1> QED
    BY <1>1, <1>2, <1>3, <1>4, <1>5, <1>6, <1>7, <1>8, <1>9, <1>10, <1>11,
       <1>12, <1>13
    DEF Next, Rule, Thread, Fetcher, Generator, Handler, Terminated

LEMMA SentIsForwardedInductive ==
    ASSUME TypeOK, Holdings, SentIsForwarded, [Next]_vars
    PROVE  SentIsForwarded'
  <1> USE ConstantsAssumption
  <1>1. CASE FetcherSend
    <2>1. PICK m \in heap : Enqueue(General, m) /\ sent' = m
      BY <1>1 DEF FetcherSend
    <2>2. InQueues(m)'
      BY <2>1, EnqueueKeeps DEF TypeOK, Pool
    <2> QED
      BY <2>1, <2>2 DEF SentIsForwarded, Forwarded, InQueues
  <1>2. CASE FetcherDelete
    BY <1>2 DEF FetcherDelete, SentIsForwarded
  <1>3. CASE sent' = sent
    <2>1. CASE sent = NoMsg
      BY <1>3, <2>1 DEF SentIsForwarded
    <2>2. CASE sent # NoMsg
      <3>1. sent \in Message /\ Forwarded(sent)
        BY <2>2 DEF TypeOK, SentIsForwarded
      <3>2. PICK m \in Message : m = sent
        BY <3>1
      <3>3. Forwarded(m)'
        BY <3>1, <3>2, ForwardedIsKept
      <3> QED
        BY <1>3, <3>2, <3>3 DEF SentIsForwarded, Forwarded, InQueues
    <2> QED
      BY <2>1, <2>2
  <1>4. FetcherSend \/ FetcherDelete \/ sent' = sent
    BY DEF Next, Rule, Thread, Persist, Listener, Fetcher, Generator, Handler,
           Server, Shutdown, Terminated, vars, Recv, RecvUnknown, RecvError,
           LogBack, LogBackFault, DispatchImmediate, DispatchDelayed, NextRule,
           EndOfMessage, ListenerWake, ReceiveDelayed, PersistDelayedLog,
           ListenerSleep, FetcherWake, FetcherSleep, GeneratorWake,
           GeneratorFetch, GeneratorSend, GeneratorSleep, Arrive, BodyError,
           PostHandler, GetHandler, ServerStopsAccepting, ServerReturns, Cancel,
           JoinTasks, JoinServers, JoinThreads, FlushDone
  <1> QED
    BY <1>1, <1>2, <1>3, <1>4

(* Every hand-over of an accepted message. *)
LEMMA NoLossInductive ==
    ASSUME TypeOK, Holdings, SentIsForwarded, NoMessageLost, [Next]_vars
    PROVE  NoMessageLost'
  <1> USE ConstantsAssumption
  <1>a. \A m \in accepted : m \in Message /\ m # NoMsg /\ (Forwarded(m) => Forwarded(m)')
    BY ForwardedIsKept DEF TypeOK
  <1>b. ASSUME UNCHANGED <<accepted, delayed, hand, db, lost>> PROVE NoMessageLost'
    BY <1>a, <1>b DEF NoMessageLost, Waiting, InSeq
  <1>c. General \in Pool
    BY DEF Pool
  (* a message x is accepted by a channel of the execution system *)
  <1>d. ASSUME NEW p \in Pool, NEW x \in Message, Enqueue(p, x),
               accepted' = accepted \cup {x}, UNCHANGED <<delayed, hand, db, lost>>
        PROVE  NoMessageLost'
    <2>1. InQueues(x)'
      BY <1>d, EnqueueKeeps
    <2>2. Forwarded(x)'
      BY <2>1 DEF Forwarded
    <2> QED
      BY <1>a, <1>d, <2>2 DEF NoMessageLost, Waiting, InSeq
  <1>1. ASSUME NEW w \in Workers, DispatchImmediate(w) PROVE NoMessageLost'
    <2>1. pend[w].msg \in Message
      BY <1>1 DEF DispatchImmediate, Holdings
    <2>2. UNCHANGED <<delayed, hand, db, lost>>
      BY <1>1 DEF DispatchImmediate
    <2>3. \/ /\ Enqueue(General, pend[w].msg)
             /\ accepted' = accepted \cup {pend[w].msg}
          \/ UNCHANGED accepted
      BY <1>1 DEF DispatchImmediate
    <2> QED
      BY <2>1, <2>2, <2>3, <1>b, <1>c, <1>d
  <1>2. ASSUME NEW w \in Workers, DispatchDelayed(w) PROVE NoMessageLost'
    <2>1. pend[w].msg \in Message
      BY <1>2 DEF DispatchDelayed, Holdings
    <2>2. UNCHANGED <<hand, db, lost>>
      BY <1>2 DEF DispatchDelayed
    <2>3. \/ /\ delayed' = Append(delayed, pend[w].msg)
             /\ accepted' = accepted \cup {pend[w].msg}
          \/ UNCHANGED <<delayed, accepted>>
      BY <1>2 DEF DispatchDelayed
    <2>4. CASE UNCHANGED <<delayed, accepted>>
      BY <2>2, <2>4, <1>b
    <2>5. CASE /\ delayed' = Append(delayed, pend[w].msg)
               /\ accepted' = accepted \cup {pend[w].msg}
      <3>1. /\ InSeq(pend[w].msg, delayed')
            /\ \A m : InSeq(m, delayed) => InSeq(m, delayed')
        BY <2>1, <2>5, InAppended DEF TypeOK
      <3> QED
        BY <1>a, <2>2, <2>5, <3>1 DEF NoMessageLost, Waiting, InSeq
    <2> QED
      BY <2>3, <2>4, <2>5
  <1>3. ASSUME NEW p \in Persisters, ReceiveDelayed(p) PROVE NoMessageLost'
    <2>1. /\ hand[p] = NoMsg /\ delayed # <<>>
          /\ hand' = [hand EXCEPT ![p] = Head(delayed)]
          /\ delayed' = Tail(delayed)
          /\ UNCHANGED <<accepted, db, lost>>
      BY <1>3 DEF ReceiveDelayed, HandFree
    <2>2. hand'[p] = Head(delayed) /\ \A q \in Persisters \ {p} : hand'[q] = hand[q]
      BY <2>1 DEF TypeOK
    <2>3. \A m : InSeq(m, delayed) => m = Head(delayed) \/ InSeq(m, delayed')
      BY <2>1, InTailOrHead DEF TypeOK
    <2> QED
      BY <1>a, <2>1, <2>2, <2>3 DEF NoMessageLost, Waiting, InSeq
  <1>4. ASSUME NEW p \in Persisters, PersistDelayedLog(p) PROVE NoMessageLost'
    <2>1. /\ hand' = [hand EXCEPT ![p] = NoMsg]
          /\ hand[p] \in db' \cup lost' /\ db \subseteq db' /\ lost \subseteq lost'
          /\ UNCHANGED <<accepted, delayed>>
      BY <1>4 DEF PersistDelayedLog
    <2>2. \A q \in Persisters \ {p} : hand'[q] = hand[q]
      BY <2>1 DEF TypeOK
    <2> QED
      BY <1>a, <2>1, <2>2 DEF NoMessageLost, Waiting, InSeq
  <1>5. CASE FetcherDelete
    <2>1. /\ db \ {sent} \subseteq db' /\ sent # NoMsg
          /\ UNCHANGED <<accepted, delayed, hand, lost>>
      BY <1>5 DEF FetcherDelete, SentDeleted, Holdings
    <2>2. Forwarded(sent)
      BY <2>1 DEF SentIsForwarded
    <2>3. \A m \in accepted : m = sent => Forwarded(m)'
      BY <1>a, <2>2
    <2> QED
      BY <1>a, <2>1, <2>3 DEF NoMessageLost, Waiting, InSeq
  <1>6. ASSUME NEW g \in Generators, GeneratorSend(g) PROVE NoMessageLost'
    <2>1. out[g] \in Message
      BY <1>6 DEF GeneratorSend, Holdings, TypeOK
    <2> QED
      BY <1>6, <2>1, <1>b, <1>c, <1>d DEF GeneratorSend
  <1>7. ASSUME NEW r \in Requests, PostHandler(r) PROVE NoMessageLost'
    <2>1. PICK t \in LogTypes :
            \/ /\ Enqueue(WebhookPool(t), NewMessage(t, SourceBudget, NoReply))
               /\ accepted' = accepted \cup {NewMessage(t, SourceBudget, NoReply)}
            \/ UNCHANGED accepted
      BY <1>7 DEF PostHandler
    <2>2. NewMessage(t, SourceBudget, NoReply) \in Message
      BY <1>7, NewMessageType DEF PostHandler
    <2>3. WebhookPool(t) \in Pool
      BY DEF WebhookPool, Pool
    <2>4. UNCHANGED <<delayed, hand, db, lost>>
      BY <1>7 DEF PostHandler
    <2> QED
      BY <2>1, <2>2, <2>3, <2>4, <1>b, <1>d
  <1>8. ASSUME NEW r \in GetRequests, GetHandler(r) PROVE NoMessageLost'
    <2>1. PICK t \in LogTypes :
            \/ /\ Enqueue(General, NewMessage(t, SourceBudget, r))
               /\ accepted' = accepted \cup {NewMessage(t, SourceBudget, r)}
            \/ UNCHANGED accepted
      BY <1>8 DEF GetHandler
    <2>2. NewMessage(t, SourceBudget, r) \in Message
      BY <1>8, NewMessageType DEF GetHandler
    <2>3. UNCHANGED <<delayed, hand, db, lost>>
      BY <1>8 DEF GetHandler
    <2> QED
      BY <2>1, <2>2, <2>3, <1>b, <1>c, <1>d
  <1>9. ASSUME NEW w \in Workers,
               \/ Recv(w) \/ RecvUnknown(w) \/ RecvError(w) \/ LogBack(w)
               \/ LogBackFault(w) \/ NextRule(w) \/ EndOfMessage(w)
        PROVE  NoMessageLost'
    BY <1>9, <1>b DEF Recv, RecvUnknown, RecvError, LogBack, LogBackFault,
                      NextRule, EndOfMessage
  <1>10. CASE Listener \/ FetcherWake \/ FetcherSend \/ FetcherSleep \/ Server
              \/ Cancel \/ Shutdown \/ UNCHANGED vars
    BY <1>10, <1>b DEF Listener, ListenerWake, ListenerSleep, FetcherWake,
                       FetcherSend, FetcherSleep, Server, ServerStopsAccepting,
                       ServerReturns, Cancel, Shutdown, JoinTasks, JoinServers,
                       JoinThreads, FlushDone, vars
  <1>11. ASSUME NEW g \in Generators,
                GeneratorWake(g) \/ GeneratorFetch(g) \/ GeneratorSleep(g)
         PROVE  NoMessageLost'
    BY <1>11, <1>b DEF GeneratorWake, GeneratorFetch, GeneratorSleep
  <1>12. ASSUME NEW r \in Requests, Arrive(r) \/ BodyError(r) PROVE NoMessageLost'
    BY <1>12, <1>b DEF Arrive, BodyError
  <1> QED
    BY <1>1, <1>2, <1>3, <1>4, <1>5, <1>6, <1>7, <1>8, <1>9, <1>10, <1>11, <1>12
    DEF Next, Rule, Thread, Persist, Fetcher, Generator, Handler, Terminated

-----------------------------------------------------------------------------
(* A message is in one place *)

(* Where a message may be, from its creation until a thread receives it. *)
Queued == {m \in Message : InQueues(m)}
Pending == {m \in Message : \E w \in Workers : pend[w].msg = m}
Outgoing == {m \in Message : \E g \in Generators : out[g] = m}
Delayed == {m \in Message : InSeq(m, delayed)}
Held == {m \in Message : \E p \in Persisters : hand[p] = m}
Everywhere ==
    Queued \cup Pending \cup Outgoing \cup Delayed \cup Held \cup db \cup taken

(* No channel has a message twice, no two channels and no two holders have  *)
(* the same message.                                                        *)
Distinct(s) == \A i, j \in 1..Len(s) : s[i] = s[j] => i = j
QueuedOnce ==
    /\ \A p \in Pool : Distinct(queue[p])
    /\ \A p, q \in Pool : p # q =>
         \A m \in Message : ~(InSeq(m, queue[p]) /\ InSeq(m, queue[q]))
DelayedOnce == Distinct(delayed)
PendingOnce ==
    \A v, w \in Workers : pend[v].msg = pend[w].msg /\ pend[v].msg # NoMsg => v = w
OutgoingOnce ==
    \A f, g \in Generators : out[f] = out[g] /\ out[f] # NoMsg => f = g
HeldOnce ==
    \A p, q \in Persisters : hand[p] = hand[q] /\ hand[p] # NoMsg => p = q

(* A message is in one place at a time, but for the logback that the        *)
(* internal processor sent and has not deleted yet; what a thread received  *)
(* is nowhere else.                                                         *)
Apart ==
    /\ (db \ {sent}) \cap (Queued \cup taken) = {}
    /\ Queued \cap taken = {}
    /\ (Pending \cup Outgoing \cup Delayed \cup Held) \cap (Queued \cup taken \cup db) = {}
    /\ Pending \cap (Outgoing \cup Delayed \cup Held) = {}
    /\ Outgoing \cap (Delayed \cup Held) = {}
    /\ Delayed \cap Held = {}

(* The elapsed logbacks of the internal processor are in the database, and  *)
(* the one it sent is no longer one of them.                                *)
Elapsed == heap \subseteq db \ {sent}

(* No message has an id that is still to be given. *)
Known == \A m \in Everywhere : m.id < nextId

InOnePlace == /\ QueuedOnce /\ DelayedOnce /\ PendingOnce /\ OutgoingOnce /\ HeldOnce
              /\ Apart /\ Elapsed /\ Known

LEMMA DistinctAppend ==
    ASSUME NEW s \in Seq(Message), NEW x \in Message, Distinct(s), ~InSeq(x, s),
           NEW a, a = Append(s, x)
    PROVE  /\ Distinct(a)
           /\ \A m : InSeq(m, a) <=> InSeq(m, s) \/ m = x
  <1>1. /\ Len(a) = Len(s) + 1 /\ Len(s) \in Nat
        /\ a[Len(s) + 1] = x
        /\ \A i \in 1..Len(s) : a[i] = s[i]
    OBVIOUS
  <1>2. \A i \in 1..Len(s) : s[i] # x
    BY DEF InSeq
  <1>3. Distinct(a)
    <2> SUFFICES ASSUME NEW i \in 1..Len(a), NEW j \in 1..Len(a), a[i] = a[j]
                 PROVE  i = j
      BY DEF Distinct
    <2>1. CASE i \in 1..Len(s) /\ j \in 1..Len(s)
      BY <1>1, <2>1 DEF Distinct
    <2>2. CASE i = Len(s) + 1 \/ j = Len(s) + 1
      BY <1>1, <1>2, <2>2
    <2> QED
      BY <1>1, <2>1, <2>2
  <1>4. ASSUME NEW m, InSeq(m, a) PROVE InSeq(m, s) \/ m = x
    <2>1. PICK i \in 1..Len(a) : a[i] = m
      BY <1>4 DEF InSeq
    <2> QED
      BY <1>1, <2>1 DEF InSeq
  <1>5. InSeq(x, a) /\ \A m : InSeq(m, s) => InSeq(m, a)
    BY InAppended
  <1> QED
    BY <1>3, <1>4, <1>5

LEMMA DistinctTail ==
    ASSUME NEW s \in Seq(Message), s # <<>>, Distinct(s), NEW t, t = Tail(s)
    PROVE  /\ Distinct(t)
           /\ Head(s) \in Message /\ InSeq(Head(s), s)
           /\ \A m : InSeq(m, t) <=> InSeq(m, s) /\ m # Head(s)
  <1>1. /\ Len(s) \in Nat /\ Len(s) > 0 /\ Len(t) = Len(s) - 1
        /\ Head(s) = s[1] /\ Head(s) \in Message
        /\ \A i \in 1..Len(t) : t[i] = s[i + 1]
    OBVIOUS
  <1>2. Distinct(t)
    <2> SUFFICES ASSUME NEW i \in 1..Len(t), NEW j \in 1..Len(t), t[i] = t[j]
                 PROVE  i = j
      BY DEF Distinct
    <2>1. i + 1 \in 1..Len(s) /\ j + 1 \in 1..Len(s) /\ s[i + 1] = s[j + 1]
      BY <1>1
    <2>2. i + 1 = j + 1
      BY <2>1 DEF Distinct
    <2> QED
      BY <2>2
  <1>3. InSeq(Head(s), s)
    BY <1>1 DEF InSeq
  <1>4. ASSUME NEW m, InSeq(m, t) PROVE InSeq(m, s) /\ m # Head(s)
    <2>1. PICK i \in 1..Len(t) : t[i] = m
      BY <1>4 DEF InSeq
    <2>2. i + 1 \in 1..Len(s) /\ s[i + 1] = m /\ 1 \in 1..Len(s) /\ i + 1 # 1
      BY <1>1, <2>1
    <2>3. m # s[1]
      BY <2>2 DEF Distinct
    <2> QED
      BY <1>1, <2>2, <2>3 DEF InSeq
  <1>5. \A m : InSeq(m, s) => m = Head(s) \/ InSeq(m, t)
    BY InTailOrHead
  <1> QED
    BY <1>1, <1>2, <1>3, <1>4, <1>5

(* A channel of the execution system gets a message no channel has. *)
LEMMA Enqueued ==
    ASSUME TypeOK, QueuedOnce, NEW p \in Pool, NEW x \in Message, x \notin Queued,
           Enqueue(p, x)
    PROVE  QueuedOnce' /\ Queued' = Queued \cup {x}
  <1>1. /\ queue[p] \in Seq(Message)
        /\ queue'[p] = Append(queue[p], x)
        /\ \A q \in Pool : q # p => queue'[q] = queue[q]
    BY DEF TypeOK, Enqueue
  <1>2. Distinct(queue[p]) /\ \A q \in Pool : ~InSeq(x, queue[q])
    BY DEF QueuedOnce, Queued, InQueues
  <1>3. /\ Distinct(queue'[p])
        /\ \A m : InSeq(m, queue'[p]) <=> InSeq(m, queue[p]) \/ m = x
    BY <1>1, <1>2, DistinctAppend
  <1>4. \A q \in Pool : q # p => Distinct(queue'[q])
    BY <1>1 DEF QueuedOnce
  <1>5. \A q \in Pool : \A m : q # p => (InSeq(m, queue'[q]) <=> InSeq(m, queue[q]))
    BY <1>1
  <1>6. \A q, r \in Pool : q # r =>
          \A m \in Message : ~(InSeq(m, queue'[q]) /\ InSeq(m, queue'[r]))
    BY <1>2, <1>3, <1>5 DEF QueuedOnce
  <1>7. QueuedOnce'
    BY <1>3, <1>4, <1>6 DEF QueuedOnce, Distinct, InSeq
  <1>8. \A m : (\E q \in Pool : InSeq(m, queue'[q])) <=> InQueues(m) \/ m = x
    BY <1>3, <1>5 DEF InQueues
  <1>9. \A m : InQueues(m)' <=> InQueues(m) \/ m = x
    BY <1>8 DEF InQueues, InSeq
  <1> QED
    BY <1>7, <1>9 DEF Queued

(* recv takes the first message of a channel. *)
LEMMA Dequeued ==
    ASSUME TypeOK, QueuedOnce, NEW p \in Pool, queue[p] # <<>>,
           queue' = [queue EXCEPT ![p] = Tail(@)]
    PROVE  /\ QueuedOnce'
           /\ Head(queue[p]) \in Queued
           /\ Queued' = Queued \ {Head(queue[p])}
  <1>1. /\ queue[p] \in Seq(Message)
        /\ queue'[p] = Tail(queue[p])
        /\ \A q \in Pool : q # p => queue'[q] = queue[q]
    BY DEF TypeOK
  <1>2. Distinct(queue[p])
    BY DEF QueuedOnce
  <1>3. /\ Distinct(queue'[p])
        /\ Head(queue[p]) \in Message /\ InSeq(Head(queue[p]), queue[p])
        /\ \A m : InSeq(m, queue'[p]) <=> InSeq(m, queue[p]) /\ m # Head(queue[p])
    BY <1>1, <1>2, DistinctTail
  <1>4. \A q \in Pool : q # p => Distinct(queue'[q])
    BY <1>1 DEF QueuedOnce
  <1>5. \A q \in Pool : \A m : q # p => (InSeq(m, queue'[q]) <=> InSeq(m, queue[q]))
    BY <1>1
  <1>6. \A q, r \in Pool : q # r =>
          \A m \in Message : ~(InSeq(m, queue'[q]) /\ InSeq(m, queue'[r]))
    BY <1>3, <1>5 DEF QueuedOnce
  <1>7. QueuedOnce'
    BY <1>3, <1>4, <1>6 DEF QueuedOnce, Distinct, InSeq
  <1>8. \A q \in Pool : q # p => ~InSeq(Head(queue[p]), queue[q])
    BY <1>3 DEF QueuedOnce
  <1>9. \A m : (\E q \in Pool : InSeq(m, queue'[q])) <=> InQueues(m) /\ m # Head(queue[p])
    BY <1>3, <1>5, <1>8 DEF InQueues
  <1>10. \A m : InQueues(m)' <=> InQueues(m) /\ m # Head(queue[p])
    BY <1>9 DEF InQueues, InSeq
  <1>11. Head(queue[p]) \in Queued
    BY <1>3 DEF Queued, InQueues
  <1> QED
    BY <1>7, <1>10, <1>11 DEF Queued

(* A thread starts to dispatch the logback x, or is done with what it      *)
(* dispatched.                                                             *)
LEMMA PendingStep ==
    ASSUME TypeOK, PendingOnce, NEW w \in Workers, NEW x \in Message \cup {NoMsg},
           x \notin Pending, NEW b, pend' = [pend EXCEPT ![w] = [msg |-> x, immediate |-> b]]
    PROVE  PendingOnce' /\ Pending' = (Pending \ {pend[w].msg}) \cup ({x} \cap Message)
  <1>1. pend'[w].msg = x /\ \A v \in Workers : v # w => pend'[v] = pend[v]
    BY DEF TypeOK
  <1>2. \A v \in Workers : pend[v].msg # x \/ x = NoMsg
    BY DEF Pending
  <1>3. PendingOnce'
    BY <1>1, <1>2 DEF PendingOnce
  <1>4. ASSUME NEW m \in Message
        PROVE  (\E v \in Workers : pend'[v].msg = m) <=>
                 m = x \/ (m # pend[w].msg /\ \E v \in Workers : pend[v].msg = m)
    <2>1. m # NoMsg
      BY ConstantsAssumption
    <2>2. \A v \in Workers : v # w => pend[v].msg # pend[w].msg \/ pend[w].msg = NoMsg
      BY DEF PendingOnce
    <2> QED
      BY <1>1, <2>1, <2>2
  <1> QED
    BY <1>3, <1>4 DEF Pending

LEMMA OutgoingStep ==
    ASSUME TypeOK, OutgoingOnce, NEW g \in Generators, NEW x \in Message \cup {NoMsg},
           x \notin Outgoing, out' = [out EXCEPT ![g] = x]
    PROVE  OutgoingOnce' /\ Outgoing' = (Outgoing \ {out[g]}) \cup ({x} \cap Message)
  <1>1. out'[g] = x /\ \A f \in Generators : f # g => out'[f] = out[f]
    BY DEF TypeOK
  <1>2. \A f \in Generators : out[f] # x \/ x = NoMsg
    BY DEF Outgoing
  <1>3. OutgoingOnce'
    BY <1>1, <1>2 DEF OutgoingOnce
  <1>4. ASSUME NEW m \in Message
        PROVE  (\E f \in Generators : out'[f] = m) <=>
                 m = x \/ (m # out[g] /\ \E f \in Generators : out[f] = m)
    <2>1. m # NoMsg
      BY ConstantsAssumption
    <2>2. \A f \in Generators : f # g => out[f] # out[g] \/ out[g] = NoMsg
      BY DEF OutgoingOnce
    <2> QED
      BY <1>1, <2>1, <2>2
  <1> QED
    BY <1>3, <1>4 DEF Outgoing

LEMMA HeldStep ==
    ASSUME TypeOK, HeldOnce, NEW p \in Persisters, NEW x \in Message \cup {NoMsg},
           x \notin Held, hand' = [hand EXCEPT ![p] = x]
    PROVE  HeldOnce' /\ Held' = (Held \ {hand[p]}) \cup ({x} \cap Message)
  <1>1. hand'[p] = x /\ \A q \in Persisters : q # p => hand'[q] = hand[q]
    BY DEF TypeOK
  <1>2. \A q \in Persisters : hand[q] # x \/ x = NoMsg
    BY DEF Held
  <1>3. HeldOnce'
    BY <1>1, <1>2 DEF HeldOnce
  <1>4. ASSUME NEW m \in Message
        PROVE  (\E q \in Persisters : hand'[q] = m) <=>
                 m = x \/ (m # hand[p] /\ \E q \in Persisters : hand[q] = m)
    <2>1. m # NoMsg
      BY ConstantsAssumption
    <2>2. \A q \in Persisters : q # p => hand[q] # hand[p] \/ hand[p] = NoMsg
      BY DEF HeldOnce
    <2> QED
      BY <1>1, <2>1, <2>2
  <1> QED
    BY <1>3, <1>4 DEF Held

(* The delayed channel gets a message it does not have. *)
LEMMA DelayedAppend ==
    ASSUME TypeOK, DelayedOnce, NEW x \in Message, x \notin Delayed,
           delayed' = Append(delayed, x)
    PROVE  DelayedOnce' /\ Delayed' = Delayed \cup {x}
  <1>1. delayed \in Seq(Message) /\ Distinct(delayed) /\ ~InSeq(x, delayed)
    BY DEF TypeOK, DelayedOnce, Delayed
  <1>2. /\ Distinct(delayed')
        /\ \A m : InSeq(m, delayed') <=> InSeq(m, delayed) \/ m = x
    BY <1>1, DistinctAppend
  <1>3. DelayedOnce'
    BY <1>2 DEF DelayedOnce, Distinct
  <1> QED
    BY <1>2, <1>3 DEF Delayed, InSeq

(* A persister takes the first message of the delayed channel. *)
LEMMA DelayedTail ==
    ASSUME TypeOK, DelayedOnce, delayed # <<>>, delayed' = Tail(delayed)
    PROVE  /\ DelayedOnce' /\ Head(delayed) \in Delayed
           /\ Delayed' = Delayed \ {Head(delayed)}
  <1>1. delayed \in Seq(Message) /\ Distinct(delayed)
    BY DEF TypeOK, DelayedOnce
  <1>2. /\ Distinct(delayed')
        /\ Head(delayed) \in Message /\ InSeq(Head(delayed), delayed)
        /\ \A m : InSeq(m, delayed') <=> InSeq(m, delayed) /\ m # Head(delayed)
    BY <1>1, DistinctTail
  <1>3. DelayedOnce'
    BY <1>2 DEF DelayedOnce, Distinct
  <1> QED
    BY <1>2, <1>3 DEF Delayed, InSeq

(* A step that moves no message. *)
LEMMA InOnePlaceFrame ==
    ASSUME InOnePlace,
           UNCHANGED <<queue, pend, out, delayed, hand, db, taken, heap, sent, nextId>>
    PROVE  InOnePlace'
  <1>1. UNCHANGED <<Queued, Pending, Outgoing, Delayed, Held>>
    BY DEF Queued, Pending, Outgoing, Delayed, Held, InQueues, InSeq
  <1>2. Apart' /\ Elapsed' /\ Known'
    BY <1>1 DEF InOnePlace, Apart, Elapsed, Known, Everywhere
  <1>3. QueuedOnce' /\ DelayedOnce'
    BY DEF InOnePlace, QueuedOnce, DelayedOnce, Distinct, InSeq
  <1>4. PendingOnce' /\ OutgoingOnce' /\ HeldOnce'
    BY DEF InOnePlace, PendingOnce, OutgoingOnce, HeldOnce
  <1> QED
    BY <1>2, <1>3, <1>4 DEF InOnePlace

(* The parts of InOnePlace that only look at variables a step leaves alone. *)
LEMMA PlacesFrame ==
    ASSUME InOnePlace
    PROVE  /\ UNCHANGED queue => QueuedOnce' /\ UNCHANGED Queued
           /\ UNCHANGED delayed => DelayedOnce' /\ UNCHANGED Delayed
           /\ UNCHANGED pend => PendingOnce' /\ UNCHANGED Pending
           /\ UNCHANGED out => OutgoingOnce' /\ UNCHANGED Outgoing
           /\ UNCHANGED hand => HeldOnce' /\ UNCHANGED Held
  <1>1. UNCHANGED queue => QueuedOnce' /\ UNCHANGED Queued
    BY DEF InOnePlace, QueuedOnce, Distinct, InSeq, Queued, InQueues
  <1>2. UNCHANGED delayed => DelayedOnce' /\ UNCHANGED Delayed
    BY DEF InOnePlace, DelayedOnce, Distinct, InSeq, Delayed
  <1>3. /\ UNCHANGED pend => PendingOnce' /\ UNCHANGED Pending
        /\ UNCHANGED out => OutgoingOnce' /\ UNCHANGED Outgoing
        /\ UNCHANGED hand => HeldOnce' /\ UNCHANGED Held
    BY DEF InOnePlace, PendingOnce, OutgoingOnce, HeldOnce, Pending, Outgoing, Held
  <1> QED
    BY <1>1, <1>2, <1>3

(* A new message is nowhere yet. *)
LEMMA NewIsNowhere ==
    ASSUME TypeOK, Known, FreshId, NEW t \in LogTypes, NEW b \in Budget,
           NEW r \in GetRequests \cup {NoReply}
    PROVE  /\ NewMessage(t, b, r) \in Message \ Everywhere
           /\ NewMessage(t, b, r).id = nextId
           /\ nextId \in Nat /\ nextId' = nextId + 1
  <1>1. NewMessage(t, b, r) \in Message
    BY NewMessageType
  <1>2. nextId \in Nat /\ nextId' = nextId + 1
    BY ConstantsAssumption DEF TypeOK, FreshId
  <1>3. NewMessage(t, b, r).id = nextId
    BY DEF NewMessage
  <1>4. NewMessage(t, b, r) \notin Everywhere
    <2> SUFFICES ASSUME NewMessage(t, b, r) \in Everywhere PROVE FALSE
      OBVIOUS
    <2>1. NewMessage(t, b, r).id < nextId
      BY DEF Known
    <2> QED
      BY <1>2, <1>3, <2>1
  <1> QED
    BY <1>1, <1>2, <1>3, <1>4

(* The ids of what is anywhere stay below the next one. *)
LEMMA KnownStep ==
    ASSUME TypeOK, TypeOK', Known,
           \/ Everywhere' \subseteq Everywhere /\ nextId' = nextId
           \/ \E x \in Message : /\ Everywhere' \subseteq Everywhere \cup {x}
                                 /\ x.id = nextId /\ nextId' = nextId + 1
    PROVE  Known'
  <1>1. nextId \in Nat
    BY ConstantsAssumption DEF TypeOK
  <1>2. \A m \in Everywhere : m.id \in Nat /\ m.id < nextId
    <2>1. Everywhere \subseteq Message
      BY DEF Everywhere, Queued, Pending, Outgoing, Delayed, Held, TypeOK
    <2>2. \A m \in Message : m.id \in Nat
      BY ConstantsAssumption DEF Message
    <2> QED
      BY <2>1, <2>2 DEF Known
  <1>3. CASE Everywhere' \subseteq Everywhere /\ nextId' = nextId
    BY <1>2, <1>3 DEF Known
  <1>4. CASE \E x \in Message : /\ Everywhere' \subseteq Everywhere \cup {x}
                                /\ x.id = nextId /\ nextId' = nextId + 1
    <2>1. PICK x \in Message : /\ Everywhere' \subseteq Everywhere \cup {x}
                               /\ x.id = nextId /\ nextId' = nextId + 1
      BY <1>4
    <2>2. \A m \in Everywhere' : m.id < nextId + 1
      BY <1>1, <1>2, <2>1
    <2> QED
      BY <2>1, <2>2 DEF Known
  <1> QED
    BY <1>3, <1>4

(* A message is handed on, one step per action that moves one: what the     *)
(* step does to the places, then that no two places share a message.        *)
LEMMA InOnePlaceInductive ==
    ASSUME ~StorageFails, TypeOK, TypeOK', Holdings, InOnePlace, [Next]_vars
    PROVE  InOnePlace'
  <1> USE ConstantsAssumption
  <1>a. General \in Pool /\ \A w \in Workers : PoolOf[w] \in Pool
    BY DEF Pool
  <1>b. NoMsg \notin Everywhere
    BY DEF Everywhere, Queued, Pending, Outgoing, Delayed, Held, TypeOK
  <1>c. /\ QueuedOnce /\ DelayedOnce /\ PendingOnce /\ OutgoingOnce /\ HeldOnce
        /\ Apart /\ Elapsed /\ Known
    BY DEF InOnePlace
  <1>1. ASSUME NEW w \in Workers, Recv(w) \/ RecvUnknown(w) PROVE InOnePlace'
    <2>1. /\ queue[PoolOf[w]] # <<>>
          /\ queue' = [queue EXCEPT ![PoolOf[w]] = Tail(@)]
          /\ taken' = taken \cup {Head(queue[PoolOf[w]])}
          /\ UNCHANGED <<pend, out, delayed, hand, db, heap, sent, nextId>>
      BY <1>1 DEF Recv, RecvUnknown
    <2>2. /\ QueuedOnce' /\ Head(queue[PoolOf[w]]) \in Queued
          /\ Queued' = Queued \ {Head(queue[PoolOf[w]])}
      BY <1>a, <1>c, <2>1, Dequeued
    <2>3. /\ DelayedOnce' /\ PendingOnce' /\ OutgoingOnce' /\ HeldOnce'
          /\ UNCHANGED <<Pending, Outgoing, Delayed, Held>>
      BY <2>1, PlacesFrame
    <2>4. Apart' /\ Elapsed'
      BY <1>c, <2>1, <2>2, <2>3 DEF Apart, Elapsed
    <2>5. Everywhere' \subseteq Everywhere
      BY <2>1, <2>2, <2>3 DEF Everywhere
    <2>6. Known'
      BY <1>c, <2>1, <2>5, KnownStep
    <2> QED
      BY <2>2, <2>3, <2>4, <2>6 DEF InOnePlace
  <1>2. ASSUME NEW w \in Workers, LogBack(w) PROVE InOnePlace'
    <2>1. PICK t \in LogTypes, asked \in Budget, delay \in {0, 1} :
             pend' = [pend EXCEPT ![w] =
                   [msg |-> NewMessage(t, asked, NoReply),
                    immediate |-> Immediate(w, delay)]]
      BY <1>2 DEF LogBack
    <2>2. PICK x \in Message : x = NewMessage(t, asked, NoReply)
      BY <1>2, NewMessageType DEF LogBack
    <2>3. x \notin Everywhere /\ x.id = nextId /\ nextId' = nextId + 1
      BY <1>2, <1>c, <2>2, NewIsNowhere DEF LogBack
    <2>4. UNCHANGED <<queue, out, delayed, hand, db, taken, heap, sent>>
      BY <1>2 DEF LogBack
    <2>5. PendingOnce' /\ Pending' \subseteq Pending \cup {x}
      <3>1. x \notin Pending /\ x \in Message \cup {NoMsg}
        BY <2>3 DEF Everywhere
      <3>2. pend' = [pend EXCEPT ![w] = [msg |-> x, immediate |-> Immediate(w, delay)]]
        BY <2>1, <2>2
      <3>3. PendingOnce' /\ Pending' = (Pending \ {pend[w].msg}) \cup ({x} \cap Message)
        BY <1>c, <3>1, <3>2, PendingStep
      <3> QED
        BY <3>3
    <2>6. /\ QueuedOnce' /\ DelayedOnce' /\ OutgoingOnce' /\ HeldOnce'
          /\ UNCHANGED <<Queued, Outgoing, Delayed, Held>>
      BY <2>4, PlacesFrame
    <2>7. Apart' /\ Elapsed'
      BY <1>c, <2>3, <2>4, <2>5, <2>6 DEF Apart, Elapsed, Everywhere
    <2>8. Everywhere' \subseteq Everywhere \cup {x}
      BY <2>4, <2>5, <2>6 DEF Everywhere
    <2>9. Known'
      BY <1>c, <2>3, <2>8, KnownStep
    <2> QED
      BY <2>5, <2>6, <2>7, <2>9 DEF InOnePlace
  (* a thread is done with the logback x that it dispatches *)
  <1>d. ASSUME NEW w \in Workers, DispatchImmediate(w) \/ DispatchDelayed(w)
        PROVE  /\ pend[w].msg \in Pending
               /\ PendingOnce' /\ Pending' = Pending \ {pend[w].msg}
               /\ UNCHANGED <<out, hand, db, taken, heap, sent, nextId>>
    <2>1. /\ pc[w] = "dispatch" /\ pend' = [pend EXCEPT ![w] = NoPending]
          /\ UNCHANGED <<out, hand, db, taken, heap, sent, nextId>>
      BY <1>d DEF DispatchImmediate, DispatchDelayed
    <2>2. pend[w].msg \in Pending
      BY <2>1 DEF Holdings, Pending
    <2>3. NoMsg \notin Pending /\ NoMsg \notin Message
      BY DEF Pending
    <2>4. pend' = [pend EXCEPT ![w] = [msg |-> NoMsg, immediate |-> FALSE]]
      BY <2>1 DEF NoPending
    <2>5. PendingOnce' /\ Pending' = (Pending \ {pend[w].msg}) \cup ({NoMsg} \cap Message)
      BY <1>c, <2>3, <2>4, PendingStep
    <2> QED
      BY <2>1, <2>2, <2>3, <2>5
  <1>3. ASSUME NEW w \in Workers, DispatchImmediate(w) PROVE InOnePlace'
    <2>1. /\ pend[w].msg \in Pending
          /\ PendingOnce' /\ Pending' = Pending \ {pend[w].msg}
          /\ UNCHANGED <<out, hand, db, taken, heap, sent, nextId>>
      BY <1>3, <1>d
    <2>2. PICK x \in Pending : x = pend[w].msg
      BY <2>1
    <2>3. (Enqueue(General, x) \/ UNCHANGED queue) /\ UNCHANGED delayed
      BY <1>3, <2>2 DEF DispatchImmediate
    <2>4. x \in Message /\ x \notin Queued
      BY <1>c DEF Pending, Apart
    <2>5. QueuedOnce' /\ Queued' \subseteq Queued \cup {x}
      BY <1>a, <1>c, <2>3, <2>4, Enqueued, PlacesFrame
    <2>6. /\ DelayedOnce' /\ OutgoingOnce' /\ HeldOnce'
          /\ UNCHANGED <<Outgoing, Delayed, Held>>
      BY <2>1, <2>3, PlacesFrame
    <2>7. Apart' /\ Elapsed'
      BY <1>c, <2>1, <2>2, <2>5, <2>6 DEF Apart, Elapsed
    <2>8. Everywhere' \subseteq Everywhere
      BY <2>1, <2>2, <2>5, <2>6 DEF Everywhere
    <2>9. Known'
      BY <1>c, <2>1, <2>8, KnownStep
    <2> QED
      BY <2>1, <2>5, <2>6, <2>7, <2>9 DEF InOnePlace
  <1>4. ASSUME NEW w \in Workers, DispatchDelayed(w) PROVE InOnePlace'
    <2>1. /\ pend[w].msg \in Pending
          /\ PendingOnce' /\ Pending' = Pending \ {pend[w].msg}
          /\ UNCHANGED <<out, hand, db, taken, heap, sent, nextId>>
      BY <1>4, <1>d
    <2>2. PICK x \in Pending : x = pend[w].msg
      BY <2>1
    <2>3. (delayed' = Append(delayed, x) \/ UNCHANGED delayed) /\ UNCHANGED queue
      BY <1>4, <2>2 DEF DispatchDelayed
    <2>4. x \in Message /\ x \notin Delayed
      BY <1>c DEF Pending, Apart
    <2>5. DelayedOnce' /\ Delayed' \subseteq Delayed \cup {x}
      BY <1>c, <2>3, <2>4, DelayedAppend, PlacesFrame
    <2>6. /\ QueuedOnce' /\ OutgoingOnce' /\ HeldOnce'
          /\ UNCHANGED <<Queued, Outgoing, Held>>
      BY <2>1, <2>3, PlacesFrame
    <2>7. Apart' /\ Elapsed'
      BY <1>c, <2>1, <2>2, <2>5, <2>6 DEF Apart, Elapsed
    <2>8. Everywhere' \subseteq Everywhere
      BY <2>1, <2>2, <2>5, <2>6 DEF Everywhere
    <2>9. Known'
      BY <1>c, <2>1, <2>8, KnownStep
    <2> QED
      BY <2>1, <2>5, <2>6, <2>7, <2>9 DEF InOnePlace
  <1>5. ASSUME NEW p \in Persisters, ReceiveDelayed(p) PROVE InOnePlace'
    <2>1. /\ hand[p] = NoMsg /\ delayed # <<>>
          /\ hand' = [hand EXCEPT ![p] = Head(delayed)]
          /\ delayed' = Tail(delayed)
          /\ UNCHANGED <<queue, pend, out, db, taken, heap, sent, nextId>>
      BY <1>5 DEF ReceiveDelayed, HandFree
    <2>2. /\ DelayedOnce' /\ Head(delayed) \in Delayed
          /\ Delayed' = Delayed \ {Head(delayed)}
      BY <1>c, <2>1, DelayedTail
    <2>3. PICK x \in Delayed : x = Head(delayed)
      BY <2>2
    <2>4. x \in Message /\ x \notin Held
      BY <1>c DEF Delayed, Apart
    <2>5. HeldOnce' /\ Held' \subseteq Held \cup {x}
      <3>1. x \in Message \cup {NoMsg} /\ hand' = [hand EXCEPT ![p] = x]
        BY <2>1, <2>3, <2>4
      <3>2. HeldOnce' /\ Held' = (Held \ {hand[p]}) \cup ({x} \cap Message)
        BY <1>c, <2>4, <3>1, HeldStep
      <3> QED
        BY <3>2
    <2>6. /\ QueuedOnce' /\ PendingOnce' /\ OutgoingOnce'
          /\ UNCHANGED <<Queued, Pending, Outgoing>>
      BY <2>1, PlacesFrame
    <2>7. Apart' /\ Elapsed'
      BY <1>c, <2>1, <2>2, <2>3, <2>5, <2>6 DEF Apart, Elapsed
    <2>8. Everywhere' \subseteq Everywhere
      BY <2>1, <2>2, <2>3, <2>5, <2>6 DEF Everywhere
    <2>9. Known'
      BY <1>c, <2>1, <2>8, KnownStep
    <2> QED
      BY <2>2, <2>5, <2>6, <2>7, <2>9 DEF InOnePlace
  <1>6. ASSUME NEW p \in Persisters, PersistDelayedLog(p) PROVE InOnePlace'
    <2>1. /\ hand[p] # NoMsg
          /\ hand' = [hand EXCEPT ![p] = NoMsg]
          /\ db' = db \cup {hand[p]}
          /\ UNCHANGED <<queue, pend, out, delayed, taken, heap, sent, nextId>>
      BY <1>6 DEF PersistDelayedLog
    <2>2. PICK x \in Held : x = hand[p]
      BY <2>1 DEF Held, TypeOK
    <2>3. NoMsg \notin Held /\ NoMsg \notin Message
      BY DEF Held
    <2>4. HeldOnce' /\ Held' = Held \ {x}
      <3>1. HeldOnce' /\ Held' = (Held \ {hand[p]}) \cup ({NoMsg} \cap Message)
        BY <1>c, <2>1, <2>3, HeldStep
      <3> QED
        BY <2>2, <2>3, <3>1
    <2>5. /\ QueuedOnce' /\ DelayedOnce' /\ PendingOnce' /\ OutgoingOnce'
          /\ UNCHANGED <<Queued, Pending, Outgoing, Delayed>>
      BY <2>1, PlacesFrame
    <2>6. Apart' /\ Elapsed'
      BY <1>c, <2>1, <2>2, <2>4, <2>5 DEF Apart, Elapsed
    <2>7. Everywhere' \subseteq Everywhere
      BY <2>1, <2>2, <2>4, <2>5 DEF Everywhere
    <2>8. Known'
      BY <1>c, <2>1, <2>7, KnownStep
    <2> QED
      BY <2>4, <2>5, <2>6, <2>8 DEF InOnePlace
  <1>7. CASE FetcherWake \/ FetcherSleep
    <2>1. /\ heap' \subseteq db \/ heap' = heap
          /\ sent = NoMsg
          /\ UNCHANGED <<queue, pend, out, delayed, hand, db, taken, sent, nextId>>
      BY <1>7 DEF FetcherWake, FetcherSleep, Holdings
    <2>2. /\ QueuedOnce' /\ DelayedOnce' /\ PendingOnce' /\ OutgoingOnce' /\ HeldOnce'
          /\ UNCHANGED <<Queued, Pending, Outgoing, Delayed, Held>>
      BY <2>1, PlacesFrame
    <2>3. NoMsg \notin db
      BY DEF TypeOK
    <2>4. Apart' /\ Elapsed' /\ Known'
      BY <1>c, <2>1, <2>2, <2>3 DEF Apart, Elapsed, Known, Everywhere
    <2> QED
      BY <2>2, <2>4 DEF InOnePlace
  <1>8. CASE FetcherSend
    <2>1. PICK x \in heap : Enqueue(General, x) /\ heap' = heap \ {x} /\ sent' = x
      BY <1>8 DEF FetcherSend
    <2>2. /\ sent = NoMsg
          /\ UNCHANGED <<pend, out, delayed, hand, db, taken, nextId>>
      BY <1>8 DEF FetcherSend, Holdings
    <2>3. x \in Message /\ x \in db /\ x \notin Queued /\ x \notin taken
      BY <1>c DEF TypeOK, Elapsed, Apart
    <2>4. QueuedOnce' /\ Queued' = Queued \cup {x}
      BY <1>a, <1>c, <2>1, <2>3, Enqueued
    <2>5. /\ DelayedOnce' /\ PendingOnce' /\ OutgoingOnce' /\ HeldOnce'
          /\ UNCHANGED <<Pending, Outgoing, Delayed, Held>>
      BY <2>2, PlacesFrame
    <2>6. NoMsg \notin db
      BY DEF TypeOK
    <2>7. Apart' /\ Elapsed'
      BY <1>c, <2>1, <2>2, <2>3, <2>4, <2>5, <2>6 DEF Apart, Elapsed
    <2>8. Everywhere' \subseteq Everywhere
      BY <2>2, <2>3, <2>4, <2>5 DEF Everywhere
    <2>9. Known'
      BY <1>c, <2>2, <2>8, KnownStep
    <2> QED
      BY <2>4, <2>5, <2>7, <2>9 DEF InOnePlace
  <1>9. CASE FetcherDelete
    <2>1. /\ db' = db \ {sent} /\ sent' = NoMsg
          /\ UNCHANGED <<queue, pend, out, delayed, hand, taken, heap, nextId>>
      BY <1>9 DEF FetcherDelete, SentDeleted
    <2>2. /\ QueuedOnce' /\ DelayedOnce' /\ PendingOnce' /\ OutgoingOnce' /\ HeldOnce'
          /\ UNCHANGED <<Queued, Pending, Outgoing, Delayed, Held>>
      BY <2>1, PlacesFrame
    <2>3. NoMsg \notin db
      BY DEF TypeOK
    <2>4. Apart' /\ Elapsed'
      BY <1>c, <2>1, <2>2, <2>3 DEF Apart, Elapsed
    <2>5. Everywhere' \subseteq Everywhere
      BY <2>1, <2>2 DEF Everywhere
    <2>6. Known'
      BY <1>c, <2>1, <2>5, KnownStep
    <2> QED
      BY <2>2, <2>4, <2>6 DEF InOnePlace
  <1>10. ASSUME NEW g \in Generators, GeneratorFetch(g) PROVE InOnePlace'
    <2>1. PICK t \in LogTypes :
             out' = [out EXCEPT ![g] = NewMessage(t, SourceBudget, NoReply)]
      BY <1>10 DEF GeneratorFetch
    <2>2. PICK x \in Message : x = NewMessage(t, SourceBudget, NoReply)
      BY <1>10, NewMessageType DEF GeneratorFetch
    <2>3. x \notin Everywhere /\ x.id = nextId /\ nextId' = nextId + 1
      BY <1>10, <1>c, <2>2, NewIsNowhere DEF GeneratorFetch
    <2>4. UNCHANGED <<queue, pend, delayed, hand, db, taken, heap, sent>>
      BY <1>10 DEF GeneratorFetch
    <2>5. OutgoingOnce' /\ Outgoing' \subseteq Outgoing \cup {x}
      <3>1. x \notin Outgoing /\ x \in Message \cup {NoMsg}
        BY <2>3 DEF Everywhere
      <3>2. out' = [out EXCEPT ![g] = x]
        BY <2>1, <2>2
      <3>3. OutgoingOnce' /\ Outgoing' = (Outgoing \ {out[g]}) \cup ({x} \cap Message)
        BY <1>c, <3>1, <3>2, OutgoingStep
      <3> QED
        BY <3>3
    <2>6. /\ QueuedOnce' /\ DelayedOnce' /\ PendingOnce' /\ HeldOnce'
          /\ UNCHANGED <<Queued, Pending, Delayed, Held>>
      BY <2>4, PlacesFrame
    <2>7. Apart' /\ Elapsed'
      BY <1>c, <2>3, <2>4, <2>5, <2>6 DEF Apart, Elapsed, Everywhere
    <2>8. Everywhere' \subseteq Everywhere \cup {x}
      BY <2>4, <2>5, <2>6 DEF Everywhere
    <2>9. Known'
      BY <1>c, <2>3, <2>8, KnownStep
    <2> QED
      BY <2>5, <2>6, <2>7, <2>9 DEF InOnePlace
  <1>11. ASSUME NEW g \in Generators, GeneratorSend(g) PROVE InOnePlace'
    <2>1. /\ generator[g] = "send"
          /\ out' = [out EXCEPT ![g] = NoMsg]
          /\ Enqueue(General, out[g]) \/ UNCHANGED queue
          /\ UNCHANGED <<pend, delayed, hand, db, taken, heap, sent, nextId>>
      BY <1>11 DEF GeneratorSend
    <2>2. PICK x \in Outgoing : x = out[g]
      BY <2>1 DEF Outgoing, Holdings, TypeOK
    <2>3. NoMsg \notin Outgoing /\ NoMsg \notin Message
      BY DEF Outgoing
    <2>4. OutgoingOnce' /\ Outgoing' = Outgoing \ {x}
      <3>1. OutgoingOnce' /\ Outgoing' = (Outgoing \ {out[g]}) \cup ({NoMsg} \cap Message)
        BY <1>c, <2>1, <2>3, OutgoingStep
      <3> QED
        BY <2>2, <2>3, <3>1
    <2>5. x \in Message /\ x \notin Queued
      BY <1>c DEF Outgoing, Apart
    <2>6. QueuedOnce' /\ Queued' \subseteq Queued \cup {x}
      BY <1>a, <1>c, <2>1, <2>2, <2>5, Enqueued, PlacesFrame
    <2>7. /\ DelayedOnce' /\ PendingOnce' /\ HeldOnce'
          /\ UNCHANGED <<Pending, Delayed, Held>>
      BY <2>1, PlacesFrame
    <2>8. Apart' /\ Elapsed'
      BY <1>c, <2>1, <2>2, <2>4, <2>6, <2>7 DEF Apart, Elapsed
    <2>9. Everywhere' \subseteq Everywhere
      BY <2>1, <2>2, <2>4, <2>6, <2>7 DEF Everywhere
    <2>10. Known'
      BY <1>c, <2>1, <2>9, KnownStep
    <2> QED
      BY <2>4, <2>6, <2>7, <2>8, <2>10 DEF InOnePlace
  (* a request brings the message x *)
  <1>e. ASSUME NEW p \in Pool, NEW x \in Message, x \notin Everywhere,
               x.id = nextId, nextId' = nextId + 1,
               Enqueue(p, x) \/ UNCHANGED queue,
               UNCHANGED <<pend, out, delayed, hand, db, taken, heap, sent>>
        PROVE  InOnePlace'
    <2>1. QueuedOnce' /\ Queued' \subseteq Queued \cup {x}
      BY <1>c, <1>e, Enqueued, PlacesFrame DEF Everywhere
    <2>2. /\ DelayedOnce' /\ PendingOnce' /\ OutgoingOnce' /\ HeldOnce'
          /\ UNCHANGED <<Pending, Outgoing, Delayed, Held>>
      BY <1>e, PlacesFrame
    <2>3. Apart' /\ Elapsed'
      BY <1>c, <1>e, <2>1, <2>2 DEF Apart, Elapsed, Everywhere
    <2>4. Everywhere' \subseteq Everywhere \cup {x}
      BY <1>e, <2>1, <2>2 DEF Everywhere
    <2>5. Known'
      BY <1>c, <1>e, <2>4, KnownStep
    <2> QED
      BY <2>1, <2>2, <2>3, <2>5 DEF InOnePlace
  <1>12. ASSUME NEW r \in Requests, PostHandler(r) PROVE InOnePlace'
    <2>1. PICK t \in LogTypes :
            \/ Enqueue(WebhookPool(t), NewMessage(t, SourceBudget, NoReply))
            \/ UNCHANGED queue
      BY <1>12 DEF PostHandler
    <2>2. PICK x \in Message : x = NewMessage(t, SourceBudget, NoReply)
      BY <1>12, NewMessageType DEF PostHandler
    <2>3. x \notin Everywhere /\ x.id = nextId /\ nextId' = nextId + 1
      BY <1>12, <1>c, <2>2, NewIsNowhere DEF PostHandler
    <2>4. WebhookPool(t) \in Pool
      BY DEF WebhookPool, Pool
    <2>5. UNCHANGED <<pend, out, delayed, hand, db, taken, heap, sent>>
      BY <1>12 DEF PostHandler
    <2> QED
      BY <2>1, <2>2, <2>3, <2>4, <2>5, <1>e
  <1>13. ASSUME NEW r \in GetRequests, GetHandler(r) PROVE InOnePlace'
    <2>1. PICK t \in LogTypes :
            Enqueue(General, NewMessage(t, SourceBudget, r)) \/ UNCHANGED queue
      BY <1>13 DEF GetHandler
    <2>2. PICK x \in Message : x = NewMessage(t, SourceBudget, r)
      BY <1>13, NewMessageType DEF GetHandler
    <2>3. x \notin Everywhere /\ x.id = nextId /\ nextId' = nextId + 1
      BY <1>13, <1>c, <2>2, NewIsNowhere DEF GetHandler
    <2>4. UNCHANGED <<pend, out, delayed, hand, db, taken, heap, sent>>
      BY <1>13 DEF GetHandler
    <2> QED
      BY <1>a, <2>1, <2>2, <2>3, <2>4, <1>e
  <1>14. ASSUME NEW w \in Workers,
                RecvError(w) \/ LogBackFault(w) \/ NextRule(w) \/ EndOfMessage(w)
         PROVE  InOnePlace'
    BY <1>14, InOnePlaceFrame DEF RecvError, LogBackFault, NextRule, EndOfMessage
  <1>15. CASE Listener \/ Server \/ Cancel \/ Shutdown \/ UNCHANGED vars
    BY <1>15, InOnePlaceFrame
       DEF Listener, ListenerWake, ListenerSleep, Server, ServerStopsAccepting,
           ServerReturns, Cancel, Shutdown, JoinTasks, JoinServers, JoinThreads,
           FlushDone, vars
  <1>16. ASSUME NEW g \in Generators, GeneratorWake(g) \/ GeneratorSleep(g)
         PROVE  InOnePlace'
    BY <1>16, InOnePlaceFrame DEF GeneratorWake, GeneratorSleep
  <1>17. ASSUME NEW r \in Requests, Arrive(r) \/ BodyError(r) PROVE InOnePlace'
    BY <1>17, InOnePlaceFrame DEF Arrive, BodyError
  <1> QED
    BY <1>1, <1>2, <1>3, <1>4, <1>5, <1>6, <1>7, <1>8, <1>9, <1>10, <1>11,
       <1>12, <1>13, <1>14, <1>15, <1>16, <1>17
    DEF Next, Rule, Thread, Persist, Fetcher, Generator, Handler, Terminated

-----------------------------------------------------------------------------
(* Theorems *)

LEMMA InitIInv == Init => IInv
  <1> SUFFICES ASSUME Init PROVE IInv
    OBVIOUS
  <1> USE ConstantsAssumption DEF Init
  <1>1. TypeOK
    <2>1. /\ queue \in [Pool -> Seq(Message)]
          /\ delayed \in Seq(Message)
      OBVIOUS
    <2>2. nextId \in 1..MaxId+1
      OBVIOUS
    <2>3. pend \in [Workers -> [msg: Message \cup {NoMsg}, immediate: BOOLEAN]]
      BY DEF NoPending
    <2>4. /\ left \in [Workers -> Budget]
          /\ idx \in [Workers -> Nat] /\ late \in [Workers -> Nat]
      OBVIOUS
    <2> QED
      BY <2>1, <2>2, <2>3, <2>4 DEF TypeOK, MainPC, WorkerPC, RequestState
  <1>2. Holdings
    BY DEF Holdings, NoPending, Persisters
  <1>3. Progress
    BY DEF Progress, MainHoldsSenders
  <1>4. Departed /\ SentIsForwarded /\ NoMessageLost
    BY DEF Departed, SentIsForwarded, NoMessageLost
  <1>5. LateOnce
    BY DEF LateOnce
  <1> QED
    BY <1>1, <1>2, <1>3, <1>4, <1>5 DEF IInv

(* The inductive invariant holds in every reachable state. *)
THEOREM Invariance == Spec => []IInv
  <1>1. IInv /\ [Next]_vars => IInv'
    <2> SUFFICES ASSUME IInv, [Next]_vars PROVE IInv'
      OBVIOUS
    <2>1. TypeOK'
      BY TypeInductive DEF IInv
    <2> QED
      BY <2>1, HoldingsInductive, ProgressInductive, DepartedInductive,
         LateOnceInductive, SentIsForwardedInductive, NoLossInductive DEF IInv
  <1> QED
    BY InitIInv, <1>1, PTL DEF Spec

(* Every variable has its type: in particular a logback budget never goes   *)
(* below zero (the u32 of log_back_detailed does not underflow).            *)
THEOREM TypeCorrectness == Spec => []TypeOK
  <1>1. IInv => TypeOK
    BY DEF IInv
  <1> QED
    BY Invariance, <1>1, PTL

(* No accepted message is lost by the hand-overs between webhook handlers,  *)
(* generators, execution threads, the delayed channel and the database.     *)
THEOREM Conservation == Spec => []NoMessageLost
  <1>1. IInv => NoMessageLost
    BY DEF IInv
  <1> QED
    BY Invariance, <1>1, PTL

(* After cancellation each thread sends at most one immediate logback. *)
THEOREM BoundedDrain == Spec => []DrainIsBounded
  <1>1. IInv => DrainIsBounded
    BY DEF IInv, LateOnce, DrainIsBounded
  <1> QED
    BY Invariance, <1>1, PTL

(* When main returns nothing accepted is left in memory. *)
THEOREM ShutdownIsGraceful == Spec => []GracefulShutdown
  <1>1. IInv => GracefulShutdown
    <2> SUFFICES ASSUME IInv, main = "exited", NEW m \in accepted
                 PROVE  m \in done \cup db \cup lost
      BY DEF GracefulShutdown
    <2>1. ThreadsExited /\ delayed = <<>>
      BY DEF IInv, Progress
    <2>2. \A p \in Pool : queue[p] = <<>>
      BY <2>1, ConstantsAssumption DEF ThreadsExited, IInv, Departed
    <2>3. ~InQueues(m)
      BY <2>2 DEF InQueues, InSeq
    <2>4. m # NoMsg
      BY ConstantsAssumption DEF IInv, TypeOK
    <2>5. \A w \in Workers : cur[w] # m
      BY <2>1, <2>4 DEF ThreadsExited, IInv, Holdings
    <2>6. TasksExited
      BY DEF IInv, Progress
    <2>7. ~InSeq(m, delayed) /\ \A p \in Persisters : hand[p] # m
      BY <2>1, <2>4, <2>6 DEF InSeq, TasksExited, Persisters, IInv, Holdings
    <2>8. Forwarded(m) \/ Waiting(m) \/ m \in lost
      BY DEF IInv, NoMessageLost
    <2> QED
      BY <2>3, <2>5, <2>7, <2>8 DEF Forwarded, Waiting
  <1> QED
    BY Invariance, <1>1, PTL

(* While storage works no thread receives a message twice: a message is in  *)
(* one place at a time, and what is in a channel was not received before.   *)
THEOREM NothingTwice ==
    ASSUME ~StorageFails PROVE Spec => ReceivedOnce
  <1>1. Init => InOnePlace
    <2> SUFFICES ASSUME Init PROVE InOnePlace
      OBVIOUS
    <2>1. /\ Queued = {} /\ Pending = {} /\ Outgoing = {} /\ Delayed = {} /\ Held = {}
      BY ConstantsAssumption
         DEF Init, Queued, Pending, Outgoing, Delayed, Held, InQueues, InSeq, NoPending
    <2>2. QueuedOnce /\ DelayedOnce
      BY DEF Init, QueuedOnce, DelayedOnce, Distinct, InSeq
    <2>3. PendingOnce /\ OutgoingOnce /\ HeldOnce
      BY DEF Init, PendingOnce, OutgoingOnce, HeldOnce, NoPending
    <2>4. Apart /\ Elapsed /\ Known
      BY <2>1 DEF Init, Apart, Elapsed, Known, Everywhere
    <2> QED
      BY <2>2, <2>3, <2>4 DEF InOnePlace
  <1>2. IInv /\ IInv' /\ InOnePlace /\ [Next]_vars => InOnePlace'
    BY InOnePlaceInductive DEF IInv
  <1>3. IInv /\ InOnePlace /\ [Next]_vars =>
          [\A w \in Workers :
             cur'[w] # cur[w] /\ cur'[w] # NoMsg => cur'[w] \notin taken]_vars
    <2> SUFFICES ASSUME IInv, InOnePlace, [Next]_vars, NEW w \in Workers,
                        cur'[w] # cur[w], cur'[w] # NoMsg
                 PROVE  cur'[w] \notin taken
      OBVIOUS
    <2>1. \/ \E v \in Workers : Recv(v)
          \/ \E v \in Workers : EndOfMessage(v)
          \/ cur' = cur
      BY DEF Next, Rule, Thread, Persist, Listener, Fetcher, Generator, Handler,
             Server, Shutdown, Terminated, vars, RecvUnknown, RecvError,
             LogBack, LogBackFault, DispatchImmediate, DispatchDelayed, NextRule,
             ListenerWake, ReceiveDelayed, PersistDelayedLog, ListenerSleep,
             FetcherWake, FetcherSend, FetcherDelete, FetcherSleep, GeneratorWake,
             GeneratorFetch, GeneratorSend, GeneratorSleep, Arrive, BodyError,
             PostHandler, GetHandler, ServerStopsAccepting, ServerReturns, Cancel,
             JoinTasks, JoinServers, JoinThreads, FlushDone
    <2>2. ASSUME NEW v \in Workers, EndOfMessage(v) PROVE FALSE
      BY <2>2 DEF EndOfMessage, IInv, TypeOK
    <2>3. ASSUME NEW v \in Workers, Recv(v) PROVE cur'[w] \notin taken
      <3>1. /\ cur'[w] = Head(queue[PoolOf[w]]) /\ queue[PoolOf[w]] # <<>>
            /\ queue' = [queue EXCEPT ![PoolOf[w]] = Tail(@)]
        BY <2>3 DEF Recv, IInv, TypeOK
      <3>2. Head(queue[PoolOf[w]]) \in Queued
        BY <3>1, Dequeued, ConstantsAssumption DEF IInv, InOnePlace
      <3> QED
        BY <3>1, <3>2 DEF InOnePlace, Apart
    <2> QED
      BY <2>1, <2>2, <2>3
  <1> QED
    BY <1>1, <1>2, <1>3, Invariance, PTL DEF Spec, ReceivedOnce

=============================================================================

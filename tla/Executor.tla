------------------------------- MODULE Executor -------------------------------
(***************************************************************************)
(* The message pipeline of one Plaid instance and its graceful shutdown.   *)
(*                                                                         *)
(* Webhook requests and data generators put messages on the bounded        *)
(* channels of the thread pools; the execution threads take them and run   *)
(* every rule of the message's log type on them; a running rule may log    *)
(* back: immediately (straight into the general channel) or delayed (into  *)
(* the delayed channel, from which the listener task persists it and the   *)
(* internal processor sends it again once its delay elapsed).  On a        *)
(* signal, main cancels the token, joins the tasks and the servers, drops  *)
(* its senders, joins the threads and flushes the delayed channel.         *)
(*                                                                         *)
(* Abstractions: a rule is only known by its position in its channel;      *)
(* payloads, headers and sources are left out; which persisted logbacks    *)
(* have elapsed when the internal processor polls, and in which order it   *)
(* pops them, is a nondeterministic choice (LogbackStore keeps the delays).*)
(***************************************************************************)
EXTENDS Naturals, Sequences, FiniteSets

CONSTANTS
    LogTypes,         \* the log types messages can have
    Dedicated,        \* the log types that have a dedicated thread pool
    General,          \* names the general thread pool
    Workers,          \* the execution threads
    PoolOf,           \* [Workers -> Pool], the pool each thread receives from
    QueueSize,        \* [Pool -> Nat], log_queue_size of each pool
    RuleCount,        \* [LogTypes -> Nat], how many rules each channel has
    DelayedCapacity,  \* CHANNEL_CAPACITY of the delayed channel
    Unlimited,        \* LogbacksAllowed::Unlimited
    Budgets,          \* the finite logback budgets in use
    SourceBudget,     \* logbacks_allowed of the webhooks and generators
    Generators,       \* the data generator tasks
    Blocking,         \* those that send with a blocking send
    PostRequests,     \* POST requests that may arrive
    GetRequests,      \* GET requests that may arrive
    StorageFails,     \* whether the storage provider may return errors
    MaxId,            \* bound: messages created in a behaviour
    NoMsg,            \* not a message
    NoReply           \* not a request

Pool == {General} \cup Dedicated
Budget == Budgets \cup {Unlimited}
Requests == PostRequests \cup GetRequests

(* Message.  id is the uuid, budget is logbacks_allowed; reply is the GET  *)
(* request that waits on response_sender, such a message also names the    *)
(* single module it is for.                                                *)
Message == [id: 1..MaxId, type: LogTypes, budget: Budget,
            reply: GetRequests \cup {NoReply}]

ASSUME ConstantsAssumption ==
    /\ Dedicated \subseteq LogTypes
    /\ General \notin LogTypes
    /\ PoolOf \in [Workers -> Pool]
    /\ \A p \in Pool : \E w \in Workers : PoolOf[w] = p
    /\ QueueSize \in [Pool -> Nat \ {0}]
    /\ RuleCount \in [LogTypes -> Nat]
    /\ DelayedCapacity \in Nat
    /\ Budgets \subseteq Nat
    /\ \A x \in Budgets : \A y \in 0..x : y \in Budgets
    /\ Unlimited \notin Nat
    /\ SourceBudget \in Budget
    /\ Blocking \subseteq Generators
    /\ PostRequests \cap GetRequests = {}
    /\ NoReply \notin Requests
    /\ StorageFails \in BOOLEAN
    /\ MaxId \in Nat
    /\ NoMsg \notin Message

VARIABLES
    main,       \* how far main() is
    cancelled,  \* the CancellationToken
    queue,      \* [Pool -> Seq(Message)], the channel of each pool
    pc,         \* [Workers -> WorkerPC], where each execution thread is
    cur,        \* [Workers -> Message or NoMsg], the message it processes
    idx,        \* [Workers -> Nat], the rule of the channel it runs
    left,       \* [Workers -> Budget], env.message.logbacks_allowed
    imm,        \* [Workers -> BOOLEAN], whether it holds env.immediate_sender
    pend,       \* [Workers -> ...], the logback it is dispatching
    delayed,    \* Seq(Message), the delayed channel
    db,         \* the messages persisted in LOGBACK_NS
    hand,       \* [Persisters -> Message or NoMsg], received, not yet persisted
    listener,   \* the task that listens for delayed logbacks
    fetcher,    \* the internal processor task
    heap,       \* its log_heap: the elapsed logbacks of this poll
    sent,       \* the logback it sent and has not deleted yet, or NoMsg
    generator,  \* [Generators -> ...], where each data generator task is
    out,        \* [Generators -> Message or NoMsg], the message it is sending
    request,    \* [Requests -> ...], where each request is
    server,     \* the webhook server task
    nextId      \* the next message id

(* History variables: they record what happened and guard no action. *)
VARIABLES
    accepted,   \* messages whose sender was told that they were enqueued
    taken,      \* messages an execution thread received
    done,       \* messages every rule of the channel has run on
    lost,       \* messages the storage provider refused to persist
    late        \* [Workers -> Nat], immediate logbacks sent after Cancel

mainVars == <<main, cancelled>>
workerVars == <<pc, cur, idx, left, imm, pend>>
listenerVars == <<listener, hand>>
fetcherVars == <<fetcher, heap, sent>>
generatorVars == <<generator, out>>
serverVars == <<request, server>>
historyVars == <<accepted, taken, done, lost, late>>
vars == <<mainVars, queue, workerVars, delayed, db, listenerVars, fetcherVars,
          generatorVars, serverVars, nextId, historyVars>>

MainPC == {"serving", "joinTasks", "joinServers", "drain", "flush", "exited"}
WorkerPC == {"recv", "run", "dispatch", "exited"}
RequestState == {"none", "reading", "waiting", "replied"}
Persisters == {"listener", "main"}
NoPending == [msg |-> NoMsg, immediate |-> FALSE]

TypeOK ==
    /\ main \in MainPC
    /\ cancelled \in BOOLEAN
    /\ queue \in [Pool -> Seq(Message)]
    /\ pc \in [Workers -> WorkerPC]
    /\ cur \in [Workers -> Message \cup {NoMsg}]
    /\ idx \in [Workers -> Nat]
    /\ left \in [Workers -> Budget]
    /\ imm \in [Workers -> BOOLEAN]
    /\ pend \in [Workers -> [msg: Message \cup {NoMsg}, immediate: BOOLEAN]]
    /\ delayed \in Seq(Message)
    /\ db \subseteq Message
    /\ hand \in [Persisters -> Message \cup {NoMsg}]
    /\ listener \in {"idle", "work", "exited"}
    /\ fetcher \in {"idle", "work", "delete", "exited"}
    /\ heap \subseteq Message
    /\ sent \in Message \cup {NoMsg}
    /\ generator \in [Generators -> {"idle", "work", "send", "exited"}]
    /\ out \in [Generators -> Message \cup {NoMsg}]
    /\ request \in [Requests -> RequestState]
    /\ server \in {"up", "draining", "down"}
    /\ nextId \in 1..MaxId+1
    /\ accepted \subseteq Message
    /\ taken \subseteq Message
    /\ done \subseteq Message
    /\ lost \subseteq Message
    /\ late \in [Workers -> Nat]

Init ==
    /\ main = "serving"
    /\ cancelled = FALSE
    /\ queue = [p \in Pool |-> <<>>]
    /\ pc = [w \in Workers |-> "recv"]
    /\ cur = [w \in Workers |-> NoMsg]
    /\ idx = [w \in Workers |-> 0]
    /\ left = [w \in Workers |-> SourceBudget]
    /\ imm = [w \in Workers |-> FALSE]
    /\ pend = [w \in Workers |-> NoPending]
    /\ delayed = <<>>
    /\ db = {}
    /\ hand = [p \in Persisters |-> NoMsg]
    /\ listener = "idle"
    /\ fetcher = "idle"
    /\ heap = {}
    /\ sent = NoMsg
    /\ generator = [g \in Generators |-> "idle"]
    /\ out = [g \in Generators |-> NoMsg]
    /\ request = [r \in Requests |-> "none"]
    /\ server = "up"
    /\ nextId = 1
    /\ accepted = {}
    /\ taken = {}
    /\ done = {}
    /\ lost = {}
    /\ late = [w \in Workers |-> 0]

-----------------------------------------------------------------------------
(* Channels and messages *)

(* The senders of the channels that main owns (log_sender,                 *)
(* exec_thread_pools, immediate_dispatch, executor); it drops them once it *)
(* joined the tasks and the servers.                                       *)
MainHoldsSenders == main \in {"serving", "joinTasks", "joinServers"}

(* crossbeam: recv fails once the channel is empty and its last sender was *)
(* dropped.  The web server has a clone of the sender of every pool, its   *)
(* handlers included; the data generators, the internal processor and the  *)
(* rules that run have clones of the general one.  The execution threads   *)
(* themselves only keep a weak reference.                                  *)
Disconnected(p) ==
    /\ ~MainHoldsSenders
    /\ server = "down"
    /\ p = General =>
         /\ \A w \in Workers : ~imm[w]
         /\ \A g \in Generators : generator[g] = "exited"
         /\ fetcher = "exited"

HasRoom(p) == Len(queue[p]) < QueueSize[p]
Enqueue(p, m) == queue' = [queue EXCEPT ![p] = Append(@, m)]

(* Message::new: a message with a fresh uuid. *)
NewMessage(t, b, r) == [id |-> nextId, type |-> t, budget |-> b, reply |-> r]
FreshId == nextId <= MaxId /\ nextId' = nextId + 1

(* How many rules run on a message: the one module it names, or every rule *)
(* of the channel of its type (none: the type has no channel).             *)
RulesFor(m) == IF m.reply # NoReply THEN 1 ELSE RuleCount[m.type]

(* mutant: the logback itself is free *)
MayLogBackForFree(x, asked) ==
    x # Unlimited => asked # Unlimited /\ asked <= x

(* log_back_detailed: the budget asked for must fit the budget left of the *)
(* message the rule runs on, the logback itself costing one.               *)
MayLogBack(x, asked) ==
    x # Unlimited => asked # Unlimited /\ asked + 1 <= x

Charge(x, asked) == IF x = Unlimited THEN x ELSE x - asked - 1

-----------------------------------------------------------------------------
(* Execution threads (execution_loop) *)

(* recv returns a message of a channel.  The token is read and the weak    *)
(* sender upgraded right after: no other step can tell the two apart.      *)
Recv(w) ==
    LET p == PoolOf[w]
        m == Head(queue[p])
    IN  /\ pc[w] = "recv"
        /\ queue[p] # <<>>
        /\ RulesFor(m) > 0
        /\ queue' = [queue EXCEPT ![p] = Tail(@)]
        /\ pc' = [pc EXCEPT ![w] = "run"]
        /\ cur' = [cur EXCEPT ![w] = m]
        /\ idx' = [idx EXCEPT ![w] = 1]
        /\ left' = [left EXCEPT ![w] = m.budget]
        /\ imm' = [imm EXCEPT ![w] = ~cancelled /\ MainHoldsSenders]
        /\ taken' = taken \cup {m}
        /\ UNCHANGED <<mainVars, pend, delayed, db, listenerVars, fetcherVars,
                       generatorVars, serverVars, nextId,
                       accepted, done, lost, late>>

(* A message of a type that has no rules is dropped with a warning. *)
RecvUnknown(w) ==
    LET p == PoolOf[w]
        m == Head(queue[p])
    IN  /\ pc[w] = "recv"
        /\ queue[p] # <<>>
        /\ RulesFor(m) = 0
        /\ queue' = [queue EXCEPT ![p] = Tail(@)]
        /\ taken' = taken \cup {m}
        /\ done' = done \cup {m}
        /\ UNCHANGED <<mainVars, workerVars, delayed, db, listenerVars,
                       fetcherVars, generatorVars, serverVars, nextId,
                       accepted, lost, late>>

(* recv returns RecvError: the thread ends. *)
RecvError(w) ==
    /\ pc[w] = "recv"
    /\ queue[PoolOf[w]] = <<>>
    /\ Disconnected(PoolOf[w])
    /\ pc' = [pc EXCEPT ![w] = "exited"]
    /\ UNCHANGED <<mainVars, queue, cur, idx, left, imm, pend, delayed, db,
                   listenerVars, fetcherVars, generatorVars, serverVars,
                   nextId, historyVars>>

(* mutant: the token is not consulted *)
ImmediateInSpiteOfToken(w, delay) == delay = 0 /\ imm[w]

(* dispatch_logback: the happy path. *)
Immediate(w, delay) == ~cancelled /\ delay = 0 /\ imm[w]

(* log_back / log_back_unlimited up to the token check of dispatch_logback: *)
(* the budget is charged, the message built and the route decided.          *)
LogBack(w) ==
    /\ pc[w] = "run"
    /\ FreshId
    /\ \E t \in LogTypes, asked \in Budget, delay \in {0, 1} :
         /\ MayLogBack(left[w], asked)
         /\ left' = [left EXCEPT ![w] = Charge(@, asked)]
         /\ pend' = [pend EXCEPT ![w] =
               [msg |-> NewMessage(t, asked, NoReply),
                immediate |-> Immediate(w, delay)]]
    /\ pc' = [pc EXCEPT ![w] = "dispatch"]
    /\ UNCHANGED <<mainVars, queue, cur, idx, imm, delayed, db, listenerVars,
                   fetcherVars, generatorVars, serverVars, historyVars>>

(* log_back whose buffers cannot be read: the budget is gone, no message. *)
LogBackFault(w) ==
    /\ pc[w] = "run"
    /\ \E asked \in Budget :
         /\ MayLogBack(left[w], asked)
         /\ left' = [left EXCEPT ![w] = Charge(@, asked)]
    /\ UNCHANGED <<mainVars, queue, pc, cur, idx, imm, pend, delayed, db,
                   listenerVars, fetcherVars, generatorVars, serverVars,
                   nextId, historyVars>>

(* The immediate route of dispatch_logback: try_send on the general        *)
(* channel; when it is full the rule gets FailedToLogBack.                 *)
DispatchImmediate(w) ==
    LET m == pend[w].msg IN
    /\ pc[w] = "dispatch"
    /\ pend[w].immediate
    /\ IF HasRoom(General)
         THEN /\ Enqueue(General, m)
              /\ accepted' = accepted \cup {m}
              /\ late' = [late EXCEPT ![w] = IF cancelled THEN @ + 1 ELSE @]
         ELSE UNCHANGED <<queue, accepted, late>>
    /\ pc' = [pc EXCEPT ![w] = "run"]
    /\ pend' = [pend EXCEPT ![w] = NoPending]
    /\ UNCHANGED <<mainVars, cur, idx, left, imm, delayed, db, listenerVars,
                   fetcherVars, generatorVars, serverVars, nextId,
                   taken, done, lost>>

(* Everything else falls through to the delayed channel, also by try_send. *)
DispatchDelayed(w) ==
    LET m == pend[w].msg IN
    /\ pc[w] = "dispatch"
    /\ ~pend[w].immediate
    /\ IF Len(delayed) < DelayedCapacity
         THEN /\ delayed' = Append(delayed, m)
              /\ accepted' = accepted \cup {m}
         ELSE UNCHANGED <<delayed, accepted>>
    /\ pc' = [pc EXCEPT ![w] = "run"]
    /\ pend' = [pend EXCEPT ![w] = NoPending]
    /\ UNCHANGED <<mainVars, queue, cur, idx, left, imm, db, listenerVars,
                   fetcherVars, generatorVars, serverVars, nextId,
                   taken, done, lost, late>>

(* A rule ended, with or without an error; the channel has another one,    *)
(* which starts with the whole budget of the message.                      *)
NextRule(w) ==
    /\ pc[w] = "run"
    /\ idx[w] < RulesFor(cur[w])
    /\ idx' = [idx EXCEPT ![w] = @ + 1]
    /\ left' = [left EXCEPT ![w] = cur[w].budget]
    /\ UNCHANGED <<mainVars, queue, pc, cur, imm, pend, delayed, db,
                   listenerVars, fetcherVars, generatorVars, serverVars,
                   nextId, historyVars>>

(* mutant: the response sender is neither used nor dropped *)
NotAnswered(m) == request

(* The oneshot of a GET message: used or dropped, it wakes the request. *)
Answered(m) ==
    [r \in Requests |-> IF r = m.reply THEN "replied" ELSE request[r]]

(* The last rule ended: the response sender of a GET is used or dropped,   *)
(* which answers the request, and the thread lets go of immediate_sender   *)
(* and of the Env (idx and left return to their initial values).           *)
EndOfMessage(w) ==
    LET m == cur[w] IN
    /\ pc[w] = "run"
    /\ idx[w] >= RulesFor(m)
    /\ pc' = [pc EXCEPT ![w] = "recv"]
    /\ cur' = [cur EXCEPT ![w] = NoMsg]
    /\ idx' = [idx EXCEPT ![w] = 0]
    /\ left' = [left EXCEPT ![w] = SourceBudget]
    /\ imm' = [imm EXCEPT ![w] = FALSE]
    /\ done' = done \cup {m}
    /\ request' = Answered(m)
    /\ UNCHANGED <<mainVars, queue, pend, delayed, db, listenerVars,
                   fetcherVars, generatorVars, server, nextId,
                   accepted, taken, lost, late>>

-----------------------------------------------------------------------------
(* Delayed logbacks (DelayedLogPersister, Internal) *)

(* mutant: the token is not checked at the top of the loop *)
NeverLeaves == "work"

(* The top of every task's loop and the select at its end: leave when the   *)
(* token is cancelled, otherwise do one turn of work.                       *)
AfterWake == IF cancelled THEN "exited" ELSE "work"

Listening(p) == IF p = "listener" THEN listener = "work" ELSE main = "flush"

ListenerWake ==
    /\ listener = "idle"
    /\ listener' = AfterWake
    /\ UNCHANGED <<mainVars, queue, workerVars, delayed, db, hand, fetcherVars,
                   generatorVars, serverVars, nextId, historyVars>>

HandFree(p) == hand[p] = NoMsg

(* listen_for_incoming_logs, by the listener task or by flush_pending. *)
ReceiveDelayed(p) ==
    /\ Listening(p)
    /\ HandFree(p)
    /\ delayed # <<>>
    /\ hand' = [hand EXCEPT ![p] = Head(delayed)]
    /\ delayed' = Tail(delayed)
    /\ UNCHANGED <<mainVars, queue, workerVars, db, listener, fetcherVars,
                   generatorVars, serverVars, nextId, historyVars>>

(* persist_delayed_log: a storage error is logged and the message is gone. *)
PersistDelayedLog(p) ==
    /\ hand[p] # NoMsg
    /\ hand' = [hand EXCEPT ![p] = NoMsg]
    /\ \/ db' = db \cup {hand[p]} /\ UNCHANGED lost
       \/ StorageFails /\ lost' = lost \cup {hand[p]} /\ UNCHANGED db
    /\ UNCHANGED <<mainVars, queue, workerVars, delayed, listener, fetcherVars,
                   generatorVars, serverVars, nextId,
                   accepted, taken, done, late>>

ListenerSleep ==
    /\ listener = "work"
    /\ hand["listener"] = NoMsg
    /\ delayed = <<>>
    /\ listener' = "idle"
    /\ UNCHANGED <<mainVars, queue, workerVars, delayed, db, hand, fetcherVars,
                   generatorVars, serverVars, nextId, historyVars>>

(* fetch_internal_logs reads the database and keeps what has elapsed. *)
FetcherWake ==
    /\ fetcher = "idle"
    /\ fetcher' = AfterWake
    /\ heap' \in IF cancelled THEN {heap} ELSE SUBSET db
    /\ UNCHANGED <<mainVars, queue, workerVars, delayed, db, listenerVars, sent,
                   generatorVars, serverVars, nextId, historyVars>>

FetcherSend ==
    /\ fetcher = "work"
    /\ HasRoom(General)
    /\ \E m \in heap :
         /\ Enqueue(General, m)
         /\ heap' = heap \ {m}
         /\ sent' = m
    /\ fetcher' = "delete"
    /\ UNCHANGED <<mainVars, workerVars, delayed, db, listenerVars,
                   generatorVars, serverVars, nextId, historyVars>>

(* mutant: the whole batch is deleted after the first send *)
BatchDeleted == db \ (heap \cup {sent})

(* mutant: what was sent stays in the database *)
NothingDeleted == db

SentDeleted == db \ {sent}

(* The delete after a send; its failure is only logged. *)
FetcherDelete ==
    /\ fetcher = "delete"
    /\ \/ db' = SentDeleted
       \/ StorageFails /\ UNCHANGED db
    /\ sent' = NoMsg
    /\ fetcher' = "work"
    /\ UNCHANGED <<mainVars, queue, workerVars, delayed, listenerVars, heap,
                   generatorVars, serverVars, nextId, historyVars>>

(* Nothing elapsed is left, or the general channel is full: try next poll. *)
FetcherSleep ==
    /\ fetcher = "work"
    /\ heap = {} \/ ~HasRoom(General)
    /\ fetcher' = "idle"
    /\ heap' = {}
    /\ UNCHANGED <<mainVars, queue, workerVars, delayed, db, listenerVars, sent,
                   generatorVars, serverVars, nextId, historyVars>>

-----------------------------------------------------------------------------
(* Data generators: they only know the sender of the general channel *)

GeneratorWake(g) ==
    /\ generator[g] = "idle"
    /\ generator' = [generator EXCEPT ![g] = AfterWake]
    /\ UNCHANGED <<mainVars, queue, workerVars, delayed, db, listenerVars,
                   fetcherVars, out, serverVars, nextId, historyVars>>

GeneratorFetch(g) ==
    /\ generator[g] = "work"
    /\ FreshId
    /\ \E t \in LogTypes :
         out' = [out EXCEPT ![g] = NewMessage(t, SourceBudget, NoReply)]
    /\ generator' = [generator EXCEPT ![g] = "send"]
    /\ UNCHANGED <<mainVars, queue, workerVars, delayed, db, listenerVars,
                   fetcherVars, serverVars, historyVars>>

(* send blocks until there is room, whatever the token says; try_send of    *)
(* the interval jobs gives up when the channel is full.                     *)
GeneratorSend(g) ==
    /\ generator[g] = "send"
    /\ \/ /\ HasRoom(General)
          /\ Enqueue(General, out[g])
          /\ accepted' = accepted \cup {out[g]}
       \/ /\ g \notin Blocking
          /\ ~HasRoom(General)
          /\ UNCHANGED <<queue, accepted>>
    /\ out' = [out EXCEPT ![g] = NoMsg]
    /\ generator' = [generator EXCEPT ![g] = "work"]
    /\ UNCHANGED <<mainVars, workerVars, delayed, db, listenerVars,
                   fetcherVars, serverVars, nextId, taken, done, lost, late>>

GeneratorSleep(g) ==
    /\ generator[g] = "work"
    /\ generator' = [generator EXCEPT ![g] = "idle"]
    /\ UNCHANGED <<mainVars, queue, workerVars, delayed, db, listenerVars,
                   fetcherVars, out, serverVars, nextId, historyVars>>

-----------------------------------------------------------------------------
(* Webhook server *)

Arrive(r) ==
    /\ server = "up"
    /\ request[r] = "none"
    /\ request' = [request EXCEPT ![r] = "reading"]
    /\ UNCHANGED <<mainVars, queue, workerVars, delayed, db, listenerVars,
                   fetcherVars, generatorVars, server, nextId, historyVars>>

(* read_body_with_limit fails: an empty answer and no message. *)
BodyError(r) ==
    /\ request[r] = "reading"
    /\ request' = [request EXCEPT ![r] = "replied"]
    /\ UNCHANGED <<mainVars, queue, workerVars, delayed, db, listenerVars,
                   fetcherVars, generatorVars, server, nextId, historyVars>>

(* execute_webhook_message: the pool a webhook message goes to. *)
WebhookPool(t) == IF t \in Dedicated THEN t ELSE General

(* post_handler after the body is read: 200, or 429 when the pool is full. *)
PostHandler(r) ==
    /\ request[r] = "reading"
    /\ FreshId
    /\ \E t \in LogTypes :
         LET p == WebhookPool(t)
             m == NewMessage(t, SourceBudget, NoReply)
         IN  IF HasRoom(p)
               THEN Enqueue(p, m) /\ accepted' = accepted \cup {m}
               ELSE UNCHANGED <<queue, accepted>>
    /\ request' = [request EXCEPT ![r] = "replied"]
    /\ UNCHANGED <<mainVars, workerVars, delayed, db, listenerVars,
                   fetcherVars, generatorVars, server, taken, done, lost, late>>

(* The GET handler in rule mode after the body is read: it waits for the   *)
(* rule; a full channel drops the response sender and answers at once.     *)
GetHandler(r) ==
    /\ request[r] = "reading"
    /\ FreshId
    /\ \E t \in LogTypes :
         LET m == NewMessage(t, SourceBudget, r)
         IN  IF HasRoom(General)
               THEN /\ Enqueue(General, m)
                    /\ accepted' = accepted \cup {m}
                    /\ request' = [request EXCEPT ![r] = "waiting"]
               ELSE /\ request' = [request EXCEPT ![r] = "replied"]
                    /\ UNCHANGED <<queue, accepted>>
    /\ UNCHANGED <<mainVars, workerVars, delayed, db, listenerVars,
                   fetcherVars, generatorVars, server, taken, done, lost, late>>

(* bind_with_graceful_shutdown: once it sees the token the server accepts   *)
(* nothing more, and it returns when the requests in flight are answered.   *)
ServerStopsAccepting ==
    /\ server = "up"
    /\ cancelled
    /\ server' = "draining"
    /\ UNCHANGED <<mainVars, queue, workerVars, delayed, db, listenerVars,
                   fetcherVars, generatorVars, request, nextId, historyVars>>

ServerReturns ==
    /\ server = "draining"
    /\ \A r \in Requests : request[r] \in {"none", "replied"}
    /\ server' = "down"
    /\ UNCHANGED <<mainVars, queue, workerVars, delayed, db, listenerVars,
                   fetcherVars, generatorVars, request, nextId, historyVars>>

-----------------------------------------------------------------------------
(* The shutdown sequence of main *)

TasksExited ==
    /\ listener = "exited"
    /\ fetcher = "exited"
    /\ \A g \in Generators : generator[g] = "exited"

(* mutant: only the first thread is joined *)
SomeThreadExited == \E w \in Workers : pc[w] = "exited"

ThreadsExited == \A w \in Workers : pc[w] = "exited"

(* flush_pending returns: try_recv found the delayed channel empty. *)
Flushed == delayed = <<>> /\ hand["main"] = NoMsg

Cancel ==
    /\ main = "serving"
    /\ main' = "joinTasks"
    /\ cancelled' = TRUE
    /\ UNCHANGED <<queue, workerVars, delayed, db, listenerVars, fetcherVars,
                   generatorVars, serverVars, nextId, historyVars>>

JoinTasks ==
    /\ main = "joinTasks"
    /\ TasksExited
    /\ main' = "joinServers"
    /\ UNCHANGED <<cancelled, queue, workerVars, delayed, db, listenerVars,
                   fetcherVars, generatorVars, serverVars, nextId, historyVars>>

(* ... and drop every sender. *)
JoinServers ==
    /\ main = "joinServers"
    /\ server = "down"
    /\ main' = "drain"
    /\ UNCHANGED <<cancelled, queue, workerVars, delayed, db, listenerVars,
                   fetcherVars, generatorVars, serverVars, nextId, historyVars>>

JoinThreads ==
    /\ main = "drain"
    /\ ThreadsExited
    /\ main' = "flush"
    /\ UNCHANGED <<cancelled, queue, workerVars, delayed, db, listenerVars,
                   fetcherVars, generatorVars, serverVars, nextId, historyVars>>

FlushDone ==
    /\ main = "flush"
    /\ Flushed
    /\ main' = "exited"
    /\ UNCHANGED <<cancelled, queue, workerVars, delayed, db, listenerVars,
                   fetcherVars, generatorVars, serverVars, nextId, historyVars>>

Terminated == main = "exited" /\ UNCHANGED vars

-----------------------------------------------------------------------------
Rule(w) == LogBack(w) \/ LogBackFault(w)
Thread(w) ==
    \/ Recv(w) \/ RecvUnknown(w) \/ RecvError(w)
    \/ DispatchImmediate(w) \/ DispatchDelayed(w)
    \/ NextRule(w) \/ EndOfMessage(w)
Persist(p) == ReceiveDelayed(p) \/ PersistDelayedLog(p)
Listener == ListenerWake \/ ListenerSleep
Fetcher == FetcherWake \/ FetcherSend \/ FetcherDelete \/ FetcherSleep
Generator(g) ==
    GeneratorWake(g) \/ GeneratorFetch(g) \/ GeneratorSend(g) \/ GeneratorSleep(g)
Handler(r) ==
    \/ BodyError(r)
    \/ r \in PostRequests /\ PostHandler(r)
    \/ r \in GetRequests /\ GetHandler(r)
Server == ServerStopsAccepting \/ ServerReturns
Shutdown == JoinTasks \/ JoinServers \/ JoinThreads \/ FlushDone

Next ==
    \/ \E w \in Workers : Rule(w) \/ Thread(w)
    \/ \E p \in Persisters : Persist(p)
    \/ Listener \/ Fetcher
    \/ \E g \in Generators : Generator(g)
    \/ \E r \in Requests : Arrive(r) \/ Handler(r)
    \/ Server \/ Cancel \/ Shutdown \/ Terminated

(* Threads and tasks are scheduled.  Every rule ends, its computation being *)
(* metered; a data source eventually has no more to fetch in a turn; a      *)
(* client sends its body or disconnects: the last two are assumptions on    *)
(* the environment, the code has no timeout for them.  No request need      *)
(* arrive, no rule need log back, no signal need come.                      *)
Fairness ==
    /\ \A w \in Workers :
         WF_vars(Thread(w)) /\ SF_vars(NextRule(w) \/ EndOfMessage(w))
    /\ \A p \in Persisters : WF_vars(Persist(p))
    /\ WF_vars(Listener) /\ WF_vars(Fetcher)
    /\ \A g \in Generators :
         WF_vars(GeneratorWake(g)) /\ WF_vars(GeneratorSend(g))
         /\ SF_vars(GeneratorSleep(g))
    /\ \A r \in Requests : WF_vars(Handler(r))
    /\ WF_vars(Server) /\ WF_vars(Shutdown)

Spec == Init /\ [][Next]_vars
FairSpec == Spec /\ Fairness

-----------------------------------------------------------------------------
(* Properties *)

InSeq(m, s) == \E i \in 1..Len(s) : s[i] = m

InQueues(m) == \E p \in Pool : InSeq(m, queue[p])

(* In the hands of the execution system, now or in the past. *)
Forwarded(m) ==
    InQueues(m) \/ (\E w \in Workers : cur[w] = m) \/ m \in done

(* On its way to the database, or in it. *)
Waiting(m) ==
    InSeq(m, delayed) \/ (\E p \in Persisters : hand[p] = m) \/ m \in db

(* Every message whose sender was told that it was enqueued (a 200 to a     *)
(* POST, a 0 to a rule, a returned send) is in a channel, with a thread,    *)
(* with a persister, in the database, done, or was refused by storage: no   *)
(* hand-over between threads, tasks and main drops it.                      *)
NoMessageLost ==
    \A m \in accepted : Forwarded(m) \/ Waiting(m) \/ m \in lost

(* When main returns, every accepted message has run or waits in the        *)
(* database for the next start (or storage refused it): the order in which  *)
(* main cancels, joins, drops its senders and flushes leaves nothing in     *)
(* memory.                                                                  *)
GracefulShutdown ==
    main = "exited" => accepted \subseteq done \cup db \cup lost

(* After the token is cancelled a thread puts at most one more logback into *)
(* the general channel (the one that was between the token check and        *)
(* try_send), whatever its budget: the drain is finite even when rules with *)
(* an unlimited budget log back to themselves.                              *)
DrainIsBounded == \A w \in Workers : late[w] <= 1

(* While storage works, no thread receives a message twice, although the    *)
(* internal processor sends a logback before it deletes it and reads the    *)
(* database again at every poll.                                            *)
ReceivedOnce ==
    [][\A w \in Workers :
         cur'[w] # cur[w] /\ cur'[w] # NoMsg => cur'[w] \notin taken]_vars

(* A signal makes main return: no thread, task, request or channel end can  *)
(* keep another one waiting for ever.                                       *)
ShutdownTerminates == cancelled ~> main = "exited"

(* A GET that waits for its rule is answered, also when it arrived just     *)
(* before the shutdown.                                                     *)
GetIsAnswered ==
    \A r \in GetRequests : request[r] = "waiting" ~> request[r] = "replied"

=============================================================================

----------------------------- MODULE Responses -----------------------------
(***************************************************************************)
(* The response of a rule: what its executions set, what the module keeps  *)
(* as its persistent response, and what GET requests to a webhook that the *)
(* rule answers are given, in each caching mode.  Executor threads run     *)
(* several executions of the same rule at once; each of them works on the  *)
(* copy of the persistent response it was started with.                    *)
(***************************************************************************)
EXTENDS Naturals, Sequences

CONSTANTS
    Values,     \* the responses a rule may set
    Big,        \* those longer than max_size
    Gets,       \* GET requests
    Threads,    \* threads of the general pool
    QueueSize,  \* log_queue_size
    Validity,   \* validity of CachingMode::Timed
    MaxLogs,    \* bound: other messages the rule runs on
    MaxTime,    \* bound: the clock
    Log,        \* a message nobody waits for
    Empty,      \* the empty page
    None

ASSUME ResponseAssumption ==
    /\ Big \subseteq Values
    /\ QueueSize \in Nat
    /\ Validity \in Nat
    /\ MaxLogs \in Nat
    /\ MaxTime \in Nat
    /\ Log \notin Gets
    /\ Empty \notin Values
    /\ None \notin Values \cup {Empty} \cup Gets \cup {Log}
    /\ Values \cap {"pending", "none", "dropped"} = {}

VARIABLES
    mode,        \* caching_mode of the webhook
    persistent,  \* whether the rule has a persistent_response_size
    pr,          \* data of the PersistentResponse
    cache,       \* the get_cache entry of the webhook
    now,         \* the clock
    queue,       \* the general channel
    job,         \* [Threads -> ...], the message a thread runs the rule on
    response,    \* [Threads -> ...], Env::response of that execution
    get,         \* [Gets -> ...], where the handler is
    chan,        \* [Gets -> ...], the oneshot channel of the request
    reply,       \* [Gets -> ...], what the client was given
    logs         \* how many other messages were sent

(* History variables *)
VARIABLES
    touched,  \* [Threads -> BOOLEAN], whether the execution set a response
    lastSet,  \* what the last execution to finish with a response of its own set
    own       \* [Gets -> ...], what the execution for the request set

config == <<mode, persistent>>
vars == <<config, pr, cache, now, queue, job, response, get, chan, reply, logs,
          touched, lastSet, own>>

Modes == {"none", "timed", "persistent", "callOnNone"}

Maybe == Values \cup {None}

TypeOK ==
    /\ mode \in Modes
    /\ persistent \in BOOLEAN
    /\ pr \in Maybe
    /\ cache = None \/ cache \in [at : 0..MaxTime, body : Values]
    /\ now \in 0..MaxTime
    /\ queue \in Seq(Gets \cup {Log}) /\ Len(queue) <= QueueSize
    /\ job \in [Threads -> Gets \cup {Log, None}]
    /\ response \in [Threads -> Maybe]
    /\ get \in [Gets -> {"new", "body", "wait", "done"}]
    /\ chan \in [Gets -> Values \cup {"pending", "none", "dropped"}]
    /\ reply \in [Gets -> Maybe \cup {Empty}]
    /\ logs \in 0..MaxLogs
    /\ touched \in [Threads -> BOOLEAN]
    /\ lastSet \in Maybe
    /\ own \in [Gets -> Maybe]

Init ==
    /\ mode \in Modes
    /\ persistent \in BOOLEAN
    /\ pr = None
    /\ cache = None
    /\ now = 0
    /\ queue = <<>>
    /\ job = [t \in Threads |-> None]
    /\ response = [t \in Threads |-> None]
    /\ get = [g \in Gets |-> "new"]
    /\ chan = [g \in Gets |-> "pending"]
    /\ reply = [g \in Gets |-> None]
    /\ logs = 0
    /\ touched = [t \in Threads |-> FALSE]
    /\ lastSet = None
    /\ own = [g \in Gets |-> None]

-----------------------------------------------------------------------------
Tick ==
    /\ now < MaxTime
    /\ now' = now + 1
    /\ UNCHANGED <<config, pr, cache, queue, job, response, get, chan, reply, logs,
                   touched, lastSet, own>>

(* mutant: the channel is unbounded *)
AlwaysRoom == TRUE

HasRoom == Len(queue) < QueueSize

(* Another message the rule subscribes to. *)
SendLog ==
    /\ logs < MaxLogs
    /\ HasRoom
    /\ queue' = Append(queue, Log)
    /\ logs' = logs + 1
    /\ UNCHANGED <<config, pr, cache, now, job, response, get, chan, reply,
                   touched, lastSet, own>>

-----------------------------------------------------------------------------
(* GET requests *)

CacheIsValid == cache # None /\ cache.at + Validity > now

(* The client, served, sends another request. *)
Arrive(g) ==
    /\ get[g] = "done"
    /\ get' = [get EXCEPT ![g] = "new"]
    /\ chan' = [chan EXCEPT ![g] = "pending"]
    /\ reply' = [reply EXCEPT ![g] = None]
    /\ own' = [own EXCEPT ![g] = None]
    /\ UNCHANGED <<config, pr, cache, now, queue, job, response, logs,
                   touched, lastSet>>

Reply(g, body) ==
    /\ get' = [get EXCEPT ![g] = "done"]
    /\ reply' = [reply EXCEPT ![g] = body]

GetCached(g) ==
    /\ get[g] = "new"
    /\ mode = "timed" /\ CacheIsValid
    /\ Reply(g, cache.body)
    /\ UNCHANGED <<config, pr, cache, now, queue, job, response, chan, logs,
                   touched, lastSet, own>>

GetPersistent(g) ==
    /\ get[g] = "new"
    /\ \/ mode \in {"persistent", "callOnNone"} /\ pr # None /\ Reply(g, pr)
       \/ mode = "persistent" /\ pr = None /\ Reply(g, Empty)
    /\ UNCHANGED <<config, pr, cache, now, queue, job, response, chan, logs,
                   touched, lastSet, own>>

GetRuns(g) ==
    /\ get[g] = "new"
    /\ \/ mode = "none"
       \/ mode = "timed" /\ ~CacheIsValid
       \/ mode = "callOnNone" /\ pr = None
    /\ get' = [get EXCEPT ![g] = "body"]
    /\ UNCHANGED <<config, pr, cache, now, queue, job, response, chan, reply, logs,
                   touched, lastSet, own>>

BodyError(g) ==
    /\ get[g] = "body"
    /\ Reply(g, Empty)
    /\ UNCHANGED <<config, pr, cache, now, queue, job, response, chan, logs,
                   touched, lastSet, own>>

(* try_send: a message that is dropped takes its response_sender with it. *)
Submit(g) ==
    /\ get[g] = "body"
    /\ get' = [get EXCEPT ![g] = "wait"]
    /\ IF HasRoom
         THEN queue' = Append(queue, g) /\ UNCHANGED chan
         ELSE chan' = [chan EXCEPT ![g] = "dropped"] /\ UNCHANGED queue
    /\ UNCHANGED <<config, pr, cache, now, job, response, reply, logs,
                   touched, lastSet, own>>

(* response_recv: the timed cache keeps what was received. *)
Answer(g) ==
    /\ get[g] = "wait"
    /\ chan[g] # "pending"
    /\ IF chan[g] \in Values
         THEN /\ Reply(g, chan[g])
              /\ cache' = IF mode = "timed" THEN [at |-> now, body |-> chan[g]] ELSE cache
         ELSE Reply(g, Empty) /\ UNCHANGED cache
    /\ UNCHANGED <<config, pr, now, queue, job, response, chan, logs,
                   touched, lastSet, own>>

-----------------------------------------------------------------------------
(* Executions of the rule *)

(* process_message_with_module copies the persistent response into Env. *)
Start(t) ==
    /\ job[t] = None
    /\ queue # <<>>
    /\ job' = [job EXCEPT ![t] = Head(queue)]
    /\ queue' = Tail(queue)
    /\ response' = [response EXCEPT ![t] = pr]
    /\ touched' = [touched EXCEPT ![t] = FALSE]
    /\ UNCHANGED <<config, pr, cache, now, get, chan, reply, logs, lastSet, own>>

SetResponse(t, v) ==
    /\ job[t] # None
    /\ response' = [response EXCEPT ![t] = v]
    /\ touched' = [touched EXCEPT ![t] = TRUE]
    /\ own' = [g \in Gets |-> IF g = job[t] THEN v ELSE own[g]]
    /\ UNCHANGED <<config, pr, cache, now, queue, job, get, chan, reply, logs, lastSet>>

(* The thread is done with its message; a sender it did not use is dropped.*)
Done(t, sent) ==
    /\ chan' = [g \in Gets |-> IF g = job[t] THEN sent ELSE chan[g]]
    /\ job' = [job EXCEPT ![t] = None]
    /\ response' = [response EXCEPT ![t] = None]
    /\ touched' = [touched EXCEPT ![t] = FALSE]

(* The rule fails to start, returns an error or exhausts its computation.  *)
Fail(t) ==
    /\ job[t] # None
    /\ Done(t, "dropped")
    /\ own' = [g \in Gets |-> IF g = job[t] THEN None ELSE own[g]]
    /\ UNCHANGED <<config, pr, cache, now, queue, get, reply, logs, lastSet>>

Fits(t) == response[t] \notin Big

(* mutant: the sender is given the field, read after another write *)
SentField(t) == IF pr = None THEN "none" ELSE pr

Sent(t) == response[t]

Kept(t) == response[t]

(* update_persistent_response *)
Finish(t) ==
    /\ job[t] # None
    /\ \/ /\ response[t] = None
          /\ Done(t, "none")
          /\ UNCHANGED <<pr, lastSet>>
       \/ /\ response[t] # None
          /\ ~persistent \/ ~Fits(t)
          /\ Done(t, "dropped")
          /\ UNCHANGED <<pr, lastSet>>
       \/ /\ response[t] # None
          /\ persistent /\ Fits(t)
          /\ pr' = Kept(t)
          /\ Done(t, Sent(t))
          /\ lastSet' = IF touched[t] THEN response[t] ELSE lastSet
    /\ UNCHANGED <<config, cache, now, queue, get, reply, logs, own>>

-----------------------------------------------------------------------------
Next ==
    \/ Tick
    \/ SendLog
    \/ \E g \in Gets : \/ Arrive(g) \/ GetCached(g) \/ GetPersistent(g) \/ GetRuns(g)
                       \/ BodyError(g) \/ Submit(g) \/ Answer(g)
    \/ \E t \in Threads : \/ Start(t) \/ Fail(t) \/ Finish(t)
                          \/ \E v \in Values : SetResponse(t, v)

Spec == Init /\ [][Next]_vars

-----------------------------------------------------------------------------
(* Properties *)

(* A request is answered with the response its own execution set, however  *)
(* many executions of the rule run beside it, when that response fits.     *)
AnsweredByOwn ==
    \A g \in Gets :
        get[g] = "done" /\ persistent /\ own[g] \in Values \ Big => reply[g] = own[g]

(* "The max size here only determines how much data can be stored, it does  *)
(* not affect how much data can be returned by GET requests configured to   *)
(* use a module as a data generator for a response" (PersistentResponse).   *)
MaxSizeOnlyLimitsStorage ==
    \A g \in Gets :
        get[g] = "done" /\ persistent /\ own[g] \in Values => reply[g] = own[g]

(* The persistent response is what the last invocation that set one set.   *)
KeepsLastResponse == pr = lastSet
=============================================================================

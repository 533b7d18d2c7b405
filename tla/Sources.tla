------------------------------ MODULE Sources -------------------------------
(***************************************************************************)
(* The event-driven generators of an instance together, as Data::start     *)
(* starts them: the ones the configuration has share the channel to the    *)
(* executor and the cancellation token.  Interval jobs drop what does not  *)
(* fit in the channel; the other two block.                                *)
(***************************************************************************)
EXTENDS Interval, Sqs, Websocket

CONSTANT Configurations   \* sets of generators a configuration may have

ASSUME SourcesAssumption ==
    Configurations \subseteq SUBSET {"interval", "sqs", "websocket"}

vars == <<queueVars, intervalVars, sqsVars, websocketVars>>

TypeOK == QueueTypeOK /\ IntervalTypeOK /\ SqsTypeOK /\ WebsocketTypeOK

Init ==
    /\ QueueInit
    /\ \E on \in Configurations :
         /\ IntervalInit("interval" \in on)
         /\ SqsInit("sqs" \in on)
         /\ WebsocketInit("websocket" \in on)

IntervalStep == IntervalTask /\ UNCHANGED <<sqsVars, websocketVars>>

SqsStep == SqsTask /\ UNCHANGED <<intervalVars, websocketVars>>

WsStep == WsTask /\ UNCHANGED <<intervalVars, sqsVars>>

PeerStep == WsPeer /\ UNCHANGED <<intervalVars, sqsVars>>

ServiceStep ==
    /\ \E m \in Messages : Arrive(m) \/ VisibilityTimeout(m) \/ Redeliver(m)
    /\ UNCHANGED <<intervalVars, websocketVars>>

Tick == IntervalTick /\ WebsocketTick /\ UNCHANGED <<queueVars, sqsVars>>

Queue ==
    /\ ExecutorTakes \/ OtherSends
    /\ UNCHANGED <<cancelled, closed, crashes, intervalVars, sqsVars, websocketVars>>

(* Shutdown begins. *)
Shutdown ==
    /\ Cancel
    /\ UNCHANGED <<waiting, closed, crashes, intervalVars, sqsVars, websocketVars>>

Ended == {itask, stask, wtask} \subseteq {"off", "ended"}

(* main joins the generators before it drops the pools. *)
Drain ==
    /\ Ended /\ ~closed
    /\ DropReceivers
    /\ UNCHANGED <<waiting, cancelled, crashes, intervalVars, sqsVars, websocketVars>>

Crash == QueueRestart /\ IntervalRestart /\ SqsRestart /\ WebsocketRestart

Next ==
    \/ IntervalStep \/ SqsStep \/ WsStep \/ PeerStep \/ ServiceStep
    \/ Tick \/ Queue \/ Shutdown \/ Drain \/ Crash

Spec == Init /\ [][Next]_vars

(* Time passes, the runtime schedules the tasks, the execution threads      *)
(* empty the channel, a sender that blocks is woken when a message is taken *)
(* and wins against the other senders at some time; an abort takes effect   *)
(* at an await of the task it is for; a message that was received           *)
(* is shown again when it is not deleted, and the queue service, asked      *)
(* again and again, returns a visible message at some time.                 *)
Fairness ==
    /\ WF_vars(Tick) /\ WF_vars(Queue /\ waiting' < waiting)
    /\ WF_vars(IntervalStep) /\ WF_vars(SqsStep) /\ WF_vars(WsStep)
    /\ SF_vars(SqsStep /\ stask = "send") /\ SF_vars(WsStep /\ wtask = "send")
    /\ SF_vars(WsStep /\ wtask' = "ended")
    /\ \A m \in Messages \ Bodyless :
         /\ WF_vars(VisibilityTimeout(m) /\ UNCHANGED <<intervalVars, websocketVars>>)
         /\ SF_vars(SqsStep /\ m \in batch' /\ m \notin batch)

FairSpec == Spec /\ Fairness

-----------------------------------------------------------------------------
(* Properties *)

(* A message with a body is deleted from the SQS queue only after it was    *)
(* sent to the executor, whatever is delivered twice, times out or crashes. *)
(* A send that fails is followed by the delete all the same: that the       *)
(* message is not lost rests on main joining the task before it lets go of  *)
(* the receivers.                                                           *)
DeletedWasSent ==
    \A m \in Messages \ Bodyless : remote[m] = "deleted" => m \in ever

(* Between two starts of the instance a message is sent to the executor a   *)
(* second time only when the cache has forgotten it, and it forgets no      *)
(* sooner than after SeenSize other messages: redeliveries because a delete *)
(* failed, came too late, or for no reason, are recognised until then.      *)
SentAgainOnlyWhenForgotten ==
    stask = "send" =>
      \A m \in hand \cap sent : Cardinality(others[m]) >= SeenSize

(* As long as the task is late by at most MaxLate at each of its three      *)
(* chances (falling asleep, waking, running), every interval job is taken   *)
(* from the heap within three times that of the next second of its schedule:*)
(* neither a full channel nor the other jobs lose or delay it.              *)
OnTime ==
    itask \in {"asleep", "running"} /\ ~cancelled =>
      \A j \in Jobs :
        /\ j \in Heap => due[j] >= -3 * MaxLate
        /\ j \in Jobs \ Once => age[j] <= LongestAge(j)

InUse(u) == \E k \in DOMAIN entry : entry[k].uri = u

(* Nobody starves: a message the SQS queue shows is sent, in spite of the   *)
(* other generators filling the channel, and every URI of a websocket is    *)
(* tried again and again, however the others fail and back off, unless a    *)
(* connection lasts, or a handshake hangs, for ever.                        *)
EveryTurn ==
    /\ \A m \in Messages \ Bodyless : stask # "off" /\ m \in Visible ~> m \in ever \/ cancelled
    /\ wtask # "off" /\ []<>(wtask \notin {"connect", "open", "send"}) =>
         \A u \in Uris : []<>(InUse(u) \/ cancelled)

(* After the token is set every task ends: the interval job that sleeps,    *)
(* the drain that still has messages, the websocket that waits for a        *)
(* handshake or blocks in a send.                                           *)
TasksEnd == cancelled ~> Ended \/ ~cancelled

=============================================================================

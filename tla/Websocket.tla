----------------------------- MODULE Websocket ------------------------------
(***************************************************************************)
(* A client of the websocket generator and its UriSelector.  The client    *)
(* takes the URI whose next attempt is the earliest, waits until then,     *)
(* connects and forwards what it reads; when the connection fails or ends  *)
(* the URI goes back to the selector with a backoff.  Clients share no     *)
(* state but the channel to the executor: one stands for all.              *)
(***************************************************************************)
EXTENDS SourceQueue, Sequences, SequencesExt

CONSTANTS
    Uris,
    InitialRetryAfter,  \* initial_retry_after, in ticks
    MaxRetryAfter       \* max_retry_after, in ticks

ASSUME WebsocketAssumption ==
    /\ IsFiniteSet(Uris) /\ Uris # {}
    /\ InitialRetryAfter \in Nat
    /\ MaxRetryAfter \in Nat \ {0}

VARIABLES
    wtask,  \* where the task is: "off", "select", "connect", "open", "send", "ended"
    heap,   \* the entries of the selector, by the time of their next attempt
    entry   \* the entry in use (a sequence of at most one)

websocketVars == <<wtask, heap, entry>>

(* wait: what is left until next_attempt, 0 when that has passed *)
UriEntry == [uri : Uris, backoff : 0..MaxRetryAfter \cup {InitialRetryAfter}, wait : 0..MaxRetryAfter]

WebsocketTypeOK ==
    /\ wtask \in {"off", "select", "connect", "open", "send", "ended"}
    /\ \A k \in DOMAIN heap : heap[k] \in UriEntry
    /\ \A k \in DOMAIN entry : entry[k] \in UriEntry
    /\ Len(entry) <= 1

(* UriSelector::new: every URI may be tried at once; the order of a map. *)
NewSelector ==
    {[k \in DOMAIN order |-> [uri |-> order[k], backoff |-> InitialRetryAfter, wait |-> 0]] :
        order \in SetToSeqs(Uris)}

WebsocketInit(on) ==
    /\ wtask = IF on THEN "select" ELSE "off"
    /\ heap \in IF on THEN NewSelector ELSE {<<>>}
    /\ entry = <<>>

(* next_uri: the task sleeps until the earliest entry is ready and takes it *)
(* from the heap.  The heap is never empty here: the only entry ever taken  *)
(* is pushed back before the next turn.                                     *)
WsNextUri ==
    /\ wtask = "select"
    /\ heap # <<>> /\ Head(heap).wait = 0
    /\ entry' = <<Head(heap)>>
    /\ heap' = Tail(heap)
    /\ wtask' = "connect"
    /\ UNCHANGED queueVars

(* The heap with an entry pushed; among entries of the same tick the order  *)
(* is open.                                                                 *)
Pushed(e) ==
    {InsertAt(heap, k, e) : k \in {k \in 1..Len(heap) + 1 :
        /\ \A l \in 1..k - 1 : heap[l].wait <= e.wait
        /\ \A l \in k..Len(heap) : heap[l].wait >= e.wait}}

(* mutant: the entry is dropped when its backoff is at the maximum *)
mark_failed_Drops(e) ==
    IF e.backoff = MaxRetryAfter THEN heap' = heap
    ELSE heap' \in Pushed([e EXCEPT !.backoff = MaxRetryAfter, !.wait = MaxRetryAfter])

mark_failed(e) ==
    LET backoff == IF 2 * e.backoff < MaxRetryAfter THEN 2 * e.backoff ELSE MaxRetryAfter
    IN  heap' \in Pushed([e EXCEPT !.backoff = backoff, !.wait = backoff])

reset_failure(e) == [e EXCEPT !.backoff = InitialRetryAfter, !.wait = 0]

(* establish_connection succeeds.  It has no timeout: nothing says that it  *)
(* returns at all.                                                          *)
WsOpen ==
    /\ wtask = "connect"
    /\ wtask' = "open"
    /\ UNCHANGED <<heap, entry, queueVars>>

(* It fails: the entry is marked as failed. *)
WsConnectFails ==
    /\ wtask = "connect"
    /\ mark_failed(entry[1])
    /\ entry' = <<>>
    /\ wtask' = "select"
    /\ UNCHANGED queueVars

(* A message is read. *)
WsRead ==
    /\ wtask = "open"
    /\ wtask' = "send"
    /\ UNCHANGED <<heap, entry, queueVars>>

(* handle_read_message blocks while the executor's channel is full; it logs *)
(* an error of the send and reads on.                                       *)
WsSend ==
    /\ wtask = "send"
    /\ Send
    /\ wtask' = "open"
    /\ UNCHANGED <<heap, entry, cancelled, closed, crashes>>

(* The connection is closed, or a read or a write fails: the backoff is     *)
(* reset and the entry marked as failed all the same.                       *)
WsDropped ==
    /\ wtask = "open"
    /\ mark_failed(reset_failure(entry[1]))
    /\ entry' = <<>>
    /\ wtask' = "select"
    /\ UNCHANGED queueVars

(* mutant: only a task between two connections sees the token *)
WsAbort_Selecting ==
    /\ wtask = "select" /\ cancelled
    /\ wtask' = "ended"
    /\ UNCHANGED <<heap, entry, queueVars>>

(* abort_websocket_tasks: the task ends at its next await, so not while it  *)
(* blocks in a send.                                                        *)
WsAbort ==
    /\ wtask \in {"select", "connect", "open"} /\ cancelled
    /\ wtask' = "ended"
    /\ UNCHANGED <<heap, entry, queueVars>>

(* Each step of WsTask is a step of the task, which the runtime schedules;  *)
(* whether a handshake ends, messages and the end of a connection come from *)
(* the other side.                                                          *)
WsTask == WsNextUri \/ WsSend \/ WsAbort

WsPeer == WsOpen \/ WsConnectFails \/ WsRead \/ WsDropped

WebsocketTick ==
    /\ heap' = [k \in DOMAIN heap |->
                  IF heap[k].wait = 0 THEN heap[k] ELSE [heap[k] EXCEPT !.wait = @ - 1]]
    /\ UNCHANGED <<wtask, entry>>

WebsocketRestart ==
    /\ wtask' = IF wtask = "off" THEN "off" ELSE "select"
    /\ IF wtask = "off" THEN UNCHANGED heap ELSE heap' \in NewSelector
    /\ entry' = <<>>

=============================================================================

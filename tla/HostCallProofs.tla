--------------------------- MODULE HostCallProofs ---------------------------
(***************************************************************************)
(* Proofs about HostCall, for any threads, deployments, configured APIs,   *)
(* nodes, retries and pages: a refusing host function has asked for no     *)
(* change, and a JSON-RPC call gives up only after it tried every node.    *)
(* What the tables of the APIs and of the library must satisfy for that    *)
(* are the assumptions of HostCall, which TLC evaluates on the tables.     *)
(***************************************************************************)
EXTENDS HostCall, SequenceTheorems, TLAPS

(* The stages of a call of a library function. *)
InCall == {"enter", "check", "run", "finish", "decode"}

UsesAny(c, names) == \E i \in DOMAIN c.fn : c.fn[i].name \in names

(* What is left to do is part of a function whose imports are linked.      *)
FromLibrary(c) ==
    c.pc \in InCall =>
        /\ c.todo # <<>>
        /\ \A i \in DOMAIN c.todo : \E j \in DOMAIN c.fn : c.todo[i] = c.fn[j]
        /\ \A j \in DOMAIN c.fn : c.fn[j].name \in DOMAIN FunctionOf

(* What is known of the host function at each stage. *)
Staged(c) ==
    /\ c.pc \in {"enter", "check", "run"} => c.host = None
    /\ c.pc \in {"check", "run"} => c.refused = FALSE
    /\ c.pc = "check" => c.sent = {} /\ c.tries = 0 /\ c.tried = {} /\ c.exhausted = FALSE
    /\ c.pc = "run" => c.steps # <<>> /\ c.exhausted = FALSE
    /\ c.pc = "finish" => c.host \in {"yes", "no"}
    /\ c.pc = "decode" => c.host \in FunctionErrors \cup {"yes", "no"}

(* A refusal finds no change asked for, because no check comes after one. *)
Refusing == {"ApiNotConfigured", "ParametersNotUtf8", "TestMode"}
Untouched(c) ==
    /\ c.refused = TRUE \/ c.host \in Refusing => c.sent \cap Mutating = {}
    /\ c.pc = "run" =>
        /\ ChecksFirst(c.steps)
        /\ c.sent \cap Mutating # {} => \A i \in DOMAIN c.steps : c.steps[i].verb # "VALIDATE"

(* How many failures ago the selector n stood at node x. *)
Behind(x, n) == IF x < n THEN n - x ELSE n - x + Nodes

(* A call that nobody disturbed has tried the nodes the selector left      *)
(* behind, one for each of its retries.                                    *)
Rotating(c, n, selection) ==
    /\ c.at # None => c.pc = "run" /\ Head(c.steps).verb \in RpcVerbs /\ c.tries < MaxRetries
    /\ c.tried = {} => c.tries = 0
    /\ c.exhausted = TRUE => c.tries = MaxRetries
    /\ selection = "RoundRobin" /\ c.disturbed = FALSE =>
        /\ c.at # None => c.at = n
        /\ \A x \in 0 .. Nodes - 1 : Behind(x, n) <= c.tries => x \in c.tried

CallInv(c, n, selection) ==
    FromLibrary(c) /\ Staged(c) /\ Untouched(c) /\ Rotating(c, n, selection)

IInv == TypeOK /\ \A t \in Threads : CallInv(call[t], node, deployment.selection)

-----------------------------------------------------------------------------
(* The fields of a call that the invariant speaks of. *)
SameRule(c, d) == d.fn = c.fn /\ d.todo = c.todo /\ d.test = c.test
SameRetries(c, d) ==
    d.at = c.at /\ d.tries = c.tries /\ d.tried = c.tried /\ d.exhausted = c.exhausted /\ d.disturbed = c.disturbed
SameHost(c, d) == d.pc = c.pc /\ d.steps = c.steps /\ d.host = c.host /\ d.refused = c.refused /\ d.sent = c.sent
SameBody(c, d) == d.good = c.good /\ d.unacked = c.unacked
Same(c, d) == SameRule(c, d) /\ SameRetries(c, d) /\ SameHost(c, d)

(* Failing and answering change where the call is and what came of it. *)
LEMMA FailEffect ==
    ASSUME NEW c \in CallRecords, NEW e \in FunctionErrors, NEW d, d = Fail(c, e)
    PROVE  /\ d \in CallRecords /\ d.pc = "decode" /\ d.host = e
           /\ SameRule(c, d) /\ SameRetries(c, d) /\ SameBody(c, d) /\ d.refused = c.refused /\ d.sent = c.sent
  BY Zenon DEF Fail, CallRecords, Pcs, SameRule, SameRetries, SameBody

LEMMA AnswerEffect ==
    ASSUME NEW c \in CallRecords, NEW h \in {"yes", "no"}, NEW d, d = Answer(c, h)
    PROVE  /\ d \in CallRecords /\ d.pc = "finish" /\ d.host = h
           /\ SameRule(c, d) /\ SameRetries(c, d) /\ SameBody(c, d) /\ d.refused = c.refused /\ d.sent = c.sent
  BY Zenon DEF Answer, CallRecords, Pcs, SameRule, SameRetries, SameBody

LEMMA SequenceFacts ==
    ASSUME NEW S, NEW s \in Seq(S), s # <<>>
    PROVE  /\ 1 \in DOMAIN s /\ Head(s) = s[1] /\ Head(s) \in S /\ DOMAIN s \subseteq Nat
           /\ Tail(s) \in Seq(S)
           /\ Len(s) # 1 => Tail(s) # <<>>
           /\ \A i \in DOMAIN Tail(s) : i + 1 \in DOMAIN s /\ Tail(s)[i] = s[i + 1]
  <1>1. Len(s) \in Nat /\ Len(s) >= 1 /\ DOMAIN s = 1 .. Len(s)
    BY EmptySeq
  <1>2. Tail(s) \in Seq(S) /\ Len(Tail(s)) = Len(s) - 1 /\ \A i \in 1 .. Len(Tail(s)) : Tail(s)[i] = s[i + 1]
    BY HeadTailProperties
  <1>3. DOMAIN Tail(s) = 1 .. Len(Tail(s))
    BY <1>2
  <1>4. 1 \in DOMAIN s /\ Head(s) = s[1] /\ Head(s) \in S
    <2>1. 1 \in DOMAIN s
      BY <1>1
    <2>2. Head(s) = s[1]
      OBVIOUS
    <2> QED
      BY Zenon, <2>1, <2>2, HeadTailProperties
  <1>5. Len(s) # 1 => Tail(s) # <<>>
    <2>1. Tail(s) = <<>> => Len(Tail(s)) = 0
      BY <1>2, EmptySeq
    <2> QED
      BY <1>1, <1>2, <2>1
  <1> QED
    BY <1>1, <1>2, <1>3, <1>4, <1>5

(* The last request answers; any other leaves the rest of the requests. *)
LEMMA AdvanceEffect ==
    ASSUME NEW c \in CallRecords, c.pc = "run", c.steps # <<>>, MaxPages \in Nat, NEW d, d = Advance(c)
    PROVE  /\ d \in CallRecords /\ SameRule(c, d) /\ SameRetries(c, d) /\ SameBody(c, d) /\ d.refused = c.refused /\ d.sent = c.sent
           /\ \/ d.pc = "finish" /\ d.host = "yes" /\ Len(c.steps) = 1
              \/ d.pc = "run" /\ d.host = c.host /\ d.steps = Tail(c.steps) /\ d.steps # <<>>
  <1>1. c.steps \in Seq(Requests)
    BY Zenon DEF CallRecords
  <1>2. CASE Len(c.steps) = 1
    <2>1. <<>> \in Seq(Requests)
      OBVIOUS
    <2>2. PICK y : y = [c EXCEPT !.steps = <<>>]
      OBVIOUS
    <2>3. y \in CallRecords /\ SameRule(c, y) /\ SameRetries(c, y) /\ SameBody(c, y) /\ y.refused = c.refused /\ y.sent = c.sent
      BY Zenon, <2>1, <2>2 DEF CallRecords, SameRule, SameRetries, SameBody
    <2>4. d = Answer(y, "yes")
      BY Zenon, <1>2, <2>2 DEF Advance
    <2> QED
      BY <1>2, <2>3, <2>4, AnswerEffect DEF SameRule, SameRetries, SameBody
  <1>3. CASE Len(c.steps) # 1
    <2>1. Tail(c.steps) \in Seq(Requests) /\ Tail(c.steps) # <<>>
      BY Zenon, <1>1, <1>3, SequenceFacts
    <2>2. 0 \in 0 .. MaxPages
      OBVIOUS
    <2>3. d = [c EXCEPT !.steps = Tail(c.steps), !.sub = "start", !.page = 0]
      BY Zenon, <1>3 DEF Advance
    <2> QED
      BY Zenon, <2>1, <2>2, <2>3 DEF CallRecords, SameRule, SameRetries, SameBody
  <1> QED
    BY <1>2, <1>3

-----------------------------------------------------------------------------
(* After(c, y): y is c once its current request has an answer. *)
After(c, y) ==
    /\ y \in CallRecords /\ SameRule(c, y)
    /\ y.pc = "run" /\ y.steps = c.steps /\ y.host = c.host /\ y.refused = c.refused
    /\ y.at = None /\ y.tries = c.tries /\ y.tried = c.tried /\ y.exhausted = c.exhausted /\ y.disturbed = c.disturbed
    /\ y.sent = c.sent \/ y.sent = c.sent \cup {Head(c.steps).verb}

(* A host function that ends, with an answer or an error. *)
LEMMA Ends ==
    ASSUME NEW n, NEW selection, NEW c \in CallRecords, NEW d \in CallRecords, CallInv(c, n, selection), c.pc = "run",
           SameRule(c, d), d.at = None, d.tries = c.tries, d.tried = c.tried, d.disturbed = c.disturbed,
           d.exhausted = TRUE => c.tries = MaxRetries,
           d.sent = c.sent \/ d.sent = c.sent \cup {Head(c.steps).verb},
           d.refused = TRUE => d.sent = c.sent /\ Head(c.steps).verb = "VALIDATE",
           \/ d.pc = "finish" /\ d.host \in {"yes", "no"}
           \/ d.pc = "decode" /\ d.host = "InternalApiError"
    PROVE  CallInv(d, n, selection)
  <1>1. c.steps \in Seq(Requests) /\ c.steps # <<>> /\ 1 \in DOMAIN c.steps /\ Head(c.steps) = c.steps[1]
    <2>1. c.steps \in Seq(Requests) /\ c.steps # <<>>
      BY Zenon DEF CallRecords, CallInv, Staged
    <2> QED
      BY Zenon, <2>1, SequenceFacts
  <1>2. FromLibrary(d)
    BY DEF CallInv, FromLibrary, SameRule, InCall
  <1>3. Staged(d)
    BY DEF Staged, FunctionErrors
  <1>5. Untouched(d)
    <2>1. d.refused = TRUE => d.sent \cap Mutating = {}
      BY <1>1 DEF CallInv, Untouched
    <2>2. d.host \notin Refusing
      BY DEF Refusing
    <2> QED
      BY <2>1, <2>2 DEF Untouched
  <1>7. Rotating(d, n, selection)
    BY DEF CallInv, Rotating
  <1> QED
    BY <1>2, <1>3, <1>5, <1>7 DEF CallInv

(* A host function that goes on, with the same request or the next. *)
LEMMA GoesOn ==
    ASSUME NEW n, NEW selection, NEW c \in CallRecords, NEW d \in CallRecords, CallInv(c, n, selection), c.pc = "run",
           SameRule(c, d), Rotating(d, n, selection), d.exhausted = c.exhausted,
           d.pc = "run", d.host = c.host, d.refused = c.refused,
           d.steps = c.steps \/ (d.steps = Tail(c.steps) /\ d.steps # <<>>),
           d.sent = c.sent \/ d.sent = c.sent \cup {Head(c.steps).verb}
    PROVE  CallInv(d, n, selection)
  <1>1. c.steps \in Seq(Requests) /\ c.steps # <<>> /\ 1 \in DOMAIN c.steps /\ Head(c.steps) = c.steps[1]
    <2>1. c.steps \in Seq(Requests) /\ c.steps # <<>>
      BY Zenon DEF CallRecords, CallInv, Staged
    <2> QED
      BY Zenon, <2>1, SequenceFacts
  <1>2. FromLibrary(d)
    BY Zenon DEF CallInv, FromLibrary, SameRule, InCall
  <1>3. Staged(d)
    BY <1>1 DEF CallInv, Staged
  <1>5. \E k \in {0, 1} : \A i \in DOMAIN d.steps : i + k \in DOMAIN c.steps /\ d.steps[i] = c.steps[i + k]
    <2>1. CASE d.steps = c.steps
      <3>1. \A i \in DOMAIN d.steps : i + 0 \in DOMAIN c.steps /\ d.steps[i] = c.steps[i + 0]
        BY <2>1, <1>1, SequenceFacts
      <3> QED
        BY <3>1
    <2>2. CASE d.steps = Tail(c.steps)
      <3>1. \A i \in DOMAIN d.steps : i + 1 \in DOMAIN c.steps /\ d.steps[i] = c.steps[i + 1]
        BY Zenon, <2>2, <1>1, SequenceFacts
      <3> QED
        BY <3>1
    <2> QED
      BY <2>1, <2>2
  <1>6. Untouched(d)
    <2>1. PICK k \in {0, 1} : \A i \in DOMAIN d.steps : i + k \in DOMAIN c.steps /\ d.steps[i] = c.steps[i + k]
      BY <1>5
    <2>2. ChecksFirst(c.steps)
      BY DEF CallInv, Untouched
    <2>3. DOMAIN d.steps \subseteq Nat /\ DOMAIN c.steps \subseteq Nat
      <3>1. d.steps \in Seq(Requests) /\ d.steps # <<>>
        BY <1>1 DEF CallRecords
      <3> QED
        BY Zenon, <3>1, <1>1, SequenceFacts
    <2>4. ChecksFirst(d.steps)
      BY <2>1, <2>2, <2>3 DEF ChecksFirst
    <2>5. ASSUME Head(c.steps).verb \in Mutating
          PROVE  \A i \in DOMAIN c.steps : c.steps[i].verb # "VALIDATE"
      BY <1>1, <2>2, <2>3, <2>5 DEF ChecksFirst, Mutating
    <2>6. d.sent \cap Mutating # {} => \A i \in DOMAIN c.steps : c.steps[i].verb # "VALIDATE"
      BY <2>5 DEF CallInv, Untouched
    <2>7. d.refused = TRUE \/ d.host \in Refusing => d.sent \cap Mutating = {}
      <3>1. d.host = None /\ d.refused = FALSE
        BY DEF CallInv, Staged
      <3>2. None \notin Refusing
        BY HostCallAssumption DEF Refusing, FunctionErrors, safely_get_string
      <3> QED
        BY <3>1, <3>2
    <2> QED
      BY <2>1, <2>4, <2>6, <2>7 DEF Untouched
  <1> QED
    BY <1>2, <1>3, <1>6 DEF CallInv

(* What comes of a request that has its answer. *)
LEMMA AnswerIsKept ==
    ASSUME NEW n, NEW selection, NEW c \in CallRecords, CallInv(c, n, selection), c.pc = "run", NEW y, After(c, y)
    PROVE  /\ CallInv(y, n, selection)
           /\ Fail(y, "InternalApiError") \in CallRecords /\ CallInv(Fail(y, "InternalApiError"), n, selection)
           /\ Answer(y, "no") \in CallRecords /\ CallInv(Answer(y, "no"), n, selection)
           /\ Advance(y) \in CallRecords /\ CallInv(Advance(y), n, selection)
  <1> USE DEF After
  <1>1. c.exhausted = FALSE /\ c.refused = FALSE /\ c.steps # <<>>
    BY DEF CallInv, Staged
  <1>2. CallInv(y, n, selection)
    <2>1. Rotating(y, n, selection)
      BY DEF CallInv, Rotating
    <2> QED
      BY <2>1, GoesOn
  <1>3. Fail(y, "InternalApiError") \in CallRecords /\ CallInv(Fail(y, "InternalApiError"), n, selection)
    <2>1. PICK d : d = Fail(y, "InternalApiError")
      OBVIOUS
    <2>2. "InternalApiError" \in FunctionErrors
      BY DEF FunctionErrors
    <2>3. /\ d \in CallRecords /\ d.pc = "decode" /\ d.host = "InternalApiError"
          /\ SameRule(y, d) /\ SameRetries(y, d) /\ d.refused = y.refused /\ d.sent = y.sent
      BY <2>1, <2>2, FailEffect
    <2>4. CallInv(d, n, selection)
      BY <1>1, <2>3, Ends DEF SameRule, SameRetries
    <2> QED
      BY <2>1, <2>3, <2>4
  <1>4. Answer(y, "no") \in CallRecords /\ CallInv(Answer(y, "no"), n, selection)
    <2>1. PICK d : d = Answer(y, "no")
      OBVIOUS
    <2>2. /\ d \in CallRecords /\ d.pc = "finish" /\ d.host = "no"
          /\ SameRule(y, d) /\ SameRetries(y, d) /\ d.refused = y.refused /\ d.sent = y.sent
      BY <2>1, AnswerEffect
    <2>3. CallInv(d, n, selection)
      BY <1>1, <2>2, Ends DEF SameRule, SameRetries
    <2> QED
      BY <2>1, <2>2, <2>3
  <1>5. Advance(y) \in CallRecords /\ CallInv(Advance(y), n, selection)
    <2>1. PICK d : d = Advance(y)
      OBVIOUS
    <2>2. /\ d \in CallRecords /\ SameRule(y, d) /\ SameRetries(y, d) /\ d.refused = y.refused /\ d.sent = y.sent
          /\ \/ d.pc = "finish" /\ d.host = "yes"
             \/ d.pc = "run" /\ d.host = y.host /\ d.steps = Tail(y.steps) /\ d.steps # <<>>
      BY <1>1, <2>1, AdvanceEffect, HostCallAssumption
    <2>3. CASE d.pc = "finish" /\ d.host = "yes"
      BY <1>1, <2>1, <2>2, <2>3, Ends DEF SameRule, SameRetries
    <2>4. CASE d.pc = "run" /\ d.host = y.host /\ d.steps = Tail(y.steps) /\ d.steps # <<>>
      <3>1. Rotating(d, n, selection)
        BY <2>2 DEF SameRetries, CallInv, Rotating
      <3>2. SameRule(c, d)
        BY <2>2 DEF SameRule
      <3>3. CallInv(d, n, selection)
        BY <2>2, <2>4, <3>1, <3>2, GoesOn DEF SameRetries
      <3> QED
        BY <2>1, <2>2, <3>3
    <2> QED
      BY <2>2, <2>3, <2>4
  <1> QED
    BY <1>2, <1>3, <1>4, <1>5

-----------------------------------------------------------------------------
(* The step of one thread's call that leaves the selector alone. *)
LEMMA OneCall ==
    ASSUME IInv, NEW t \in Threads, NEW d \in CallRecords, CallInv(d, node, deployment.selection),
           Set(t, d), UNCHANGED <<deployment, node>>,
           stamp' \in {"none", "fresh", "old"}, jar' \in [cs : BOOLEAN, session : BOOLEAN]
    PROVE  IInv'
  <1>1. call \in [Threads -> CallRecords] /\ call' = [call EXCEPT ![t] = d]
    BY DEF IInv, TypeOK, Set
  <1>2. call' \in [Threads -> CallRecords]
    BY Zenon, <1>1
  <1>3. TypeOK'
    BY <1>2 DEF IInv, TypeOK
  <1>4. ASSUME NEW u \in Threads
        PROVE  CallInv(call[u], node, deployment.selection)'
    <2>1. CASE u = t
      <3>1. call'[u] = d
        BY Zenon, <1>1, <2>1
      <3> QED
        BY <3>1
    <2>2. CASE u # t
      <3>1. call'[u] = call[u]
        BY Zenon, <1>1, <2>2
      <3> QED
        BY <3>1 DEF IInv
    <2> QED
      BY <2>1, <2>2
  <1> QED
    BY <1>3, <1>4 DEF IInv

(* What the invariant says of the thread that takes a step. *)
LEMMA OwnCall ==
    ASSUME IInv, NEW t \in Threads
    PROVE  call[t] \in CallRecords /\ CallInv(call[t], node, deployment.selection)
  BY DEF IInv, TypeOK

LEMMA OthersUnchanged ==
    ASSUME IInv, UNCHANGED <<stamp, jar>>
    PROVE  stamp' \in {"none", "fresh", "old"} /\ jar' \in [cs : BOOLEAN, session : BOOLEAN]
  BY DEF IInv, TypeOK

(* A call that has tried nothing yet. *)
LEMMA Untried ==
    ASSUME NEW n \in 0 .. Nodes - 1, NEW selection, NEW d, d.at = None, d.tries = 0, d.exhausted = FALSE
    PROVE  Rotating(d, n, selection)
  BY HostCallAssumption DEF Rotating, Behind

LEMMA NoCallType == NoCall \in CallRecords
  <1>1. 0 \in 0 .. MaxPages /\ 0 \in 0 .. MaxRetries
    BY HostCallAssumption
  <1>2. {} \in SUBSET SentVerbs /\ {} \in SUBSET (0 .. Nodes - 1) /\ <<>> \in Seq(HostCalls) /\ <<>> \in Seq(Requests)
    OBVIOUS
  <1> QED
    BY Zenon, <1>1, <1>2 DEF NoCall, CallRecords, Pcs

LEMMA NoCallInv ==
    ASSUME NEW n \in 0 .. Nodes - 1, NEW selection
    PROVE  CallInv(NoCall, n, selection)
  <1>1. PICK d : d = NoCall
    OBVIOUS
  <1>2. /\ d.pc = "idle" /\ d.host = None /\ d.sent = {} /\ d.refused = FALSE
        /\ d.at = None /\ d.tries = 0 /\ d.exhausted = FALSE
    BY Zenon, <1>1 DEF NoCall
  <1>3. FromLibrary(d) /\ Staged(d) /\ Untouched(d)
    BY <1>2 DEF FromLibrary, InCall, Staged, Untouched
  <1>4. Rotating(d, n, selection)
    BY <1>2, Untried
  <1> QED
    BY <1>1, <1>3, <1>4 DEF CallInv

LEMMA CallKeeps ==
    ASSUME IInv, NEW t \in Threads, Call(t)
    PROVE  IInv'
  <1>1. PICK fn \in deployment.uses[t], test \in deployment.modes :
            Set(t, IF link_functions_to_module({fn[i].name : i \in DOMAIN fn})
                   THEN [NoCall EXCEPT !.pc = "enter", !.fn = fn, !.todo = fn, !.test = test]
                   ELSE [NoCall EXCEPT !.pc = "returned", !.fn = fn, !.outcome = "unlinked"])
    BY Zenon DEF Call
  <1>2. deployment \in Deployments /\ node \in 0 .. Nodes - 1
    BY DEF IInv, TypeOK
  <1>3. fn \in Seq(HostCalls) /\ fn # <<>> /\ test \in BOOLEAN
    BY Zenon, <1>2, HostCallAssumption, LibraryAssumption
  <1>4. CASE link_functions_to_module({fn[i].name : i \in DOMAIN fn})
    <2>1. PICK d : d = [NoCall EXCEPT !.pc = "enter", !.fn = fn, !.todo = fn, !.test = test]
      OBVIOUS
    <2>2. d \in CallRecords
      BY Zenon, <1>3, <2>1, NoCallType DEF CallRecords, Pcs
    <2>3. /\ d.pc = "enter" /\ d.fn = fn /\ d.todo = fn /\ d.host = None /\ d.sent = {} /\ d.refused = FALSE
          /\ d.at = None /\ d.tries = 0 /\ d.exhausted = FALSE
      BY Zenon, <2>1 DEF NoCall
    <2>4. \A j \in DOMAIN fn : fn[j].name \in DOMAIN FunctionOf
      BY <1>4 DEF link_functions_to_module, FunctionOf
    <2>5. FromLibrary(d)
      BY <1>3, <2>3, <2>4 DEF FromLibrary
    <2>6. Staged(d) /\ Untouched(d)
      BY <2>3 DEF Staged, Untouched
    <2>7. Rotating(d, node, deployment.selection)
      BY <1>2, <2>3, Untried
    <2>8. CallInv(d, node, deployment.selection)
      BY <2>5, <2>6, <2>7 DEF CallInv
    <2>9. Set(t, d) /\ UNCHANGED <<deployment, node>> /\ UNCHANGED <<stamp, jar>>
      BY <1>1, <1>4, <2>1 DEF Call
    <2> QED
      BY <2>2, <2>8, <2>9, OneCall, OthersUnchanged
  <1>5. CASE ~link_functions_to_module({fn[i].name : i \in DOMAIN fn})
    <2>1. PICK d : d = [NoCall EXCEPT !.pc = "returned", !.fn = fn, !.outcome = "unlinked"]
      OBVIOUS
    <2>2. d \in CallRecords
      BY Zenon, <1>3, <2>1, NoCallType DEF CallRecords, Pcs
    <2>3. /\ d.pc = "returned" /\ d.host = None /\ d.sent = {} /\ d.refused = FALSE
          /\ d.at = None /\ d.tries = 0 /\ d.exhausted = FALSE
      BY Zenon, <2>1 DEF NoCall
    <2>4. FromLibrary(d) /\ Staged(d) /\ Untouched(d)
      BY <2>3, HostCallAssumption DEF FromLibrary, InCall, Staged, Untouched
    <2>5. Rotating(d, node, deployment.selection)
      BY <1>2, <2>3, Untried
    <2>6. CallInv(d, node, deployment.selection)
      BY <2>4, <2>5 DEF CallInv
    <2>7. Set(t, d) /\ UNCHANGED <<deployment, node>> /\ UNCHANGED <<stamp, jar>>
      BY <1>1, <1>5, <2>1 DEF Call
    <2> QED
      BY <2>2, <2>6, <2>7, OneCall, OthersUnchanged
  <1> QED
    BY <1>4, <1>5

LEMMA ResumeKeeps ==
    ASSUME IInv, NEW t \in Threads, Resume(t)
    PROVE  IInv'
  <1>1. Set(t, NoCall) /\ UNCHANGED <<deployment, node>> /\ UNCHANGED <<stamp, jar>>
    BY DEF Resume
  <1>2. CallInv(NoCall, node, deployment.selection)
    BY NoCallInv DEF IInv, TypeOK
  <1> QED
    BY <1>1, <1>2, NoCallType, OneCall, OthersUnchanged

(* Where no request is under way no node is selected. *)
LEMMA NotAtANode ==
    ASSUME IInv, NEW t \in Threads, call[t].pc # "run"
    PROVE  call[t].at = None
  BY OwnCall DEF CallInv, Rotating

LEMMA EnterKeeps ==
    ASSUME IInv, NEW t \in Threads, Enter(t)
    PROVE  IInv'
  <1> DEFINE f == FunctionOf[name(t)]
             Allowed == f.dry \/ ~call[t].test
  <1>1. PICK c : c = [call[t] EXCEPT !.sent = {}, !.refused = FALSE, !.tried = {}, !.tries = 0, !.exhausted = FALSE]
    OBVIOUS
  <1>2. call[t].pc = "enter" /\ call[t] \in CallRecords /\ CallInv(call[t], node, deployment.selection) /\ call[t].at = None
    BY OwnCall, NotAtANode DEF Enter
  <1>3. /\ SameRule(call[t], c) /\ c.pc = "enter" /\ c.host = call[t].host /\ c.sent = {} /\ c.refused = FALSE
        /\ c.at = None /\ c.tries = 0 /\ c.tried = {} /\ c.exhausted = FALSE
    BY Zenon, <1>1, <1>2 DEF CallRecords, SameRule
  <1>4. c \in CallRecords
    <2>1. 0 \in 0 .. MaxRetries /\ {} \in SUBSET SentVerbs /\ {} \in SUBSET (0 .. Nodes - 1)
      BY HostCallAssumption
    <2> QED
      BY Zenon, <1>1, <1>2, <2>1 DEF CallRecords
  <1>5. node \in 0 .. Nodes - 1 /\ UNCHANGED <<deployment, node>> /\ UNCHANGED <<stamp, jar>>
    BY DEF IInv, TypeOK, Enter
  <1>6. ASSUME NEW e \in FunctionErrors, Set(t, Fail(c, e))
        PROVE  IInv'
    <2>1. PICK d : d = Fail(c, e)
      OBVIOUS
    <2>2. /\ d \in CallRecords /\ d.pc = "decode" /\ d.host = e
          /\ SameRule(c, d) /\ SameRetries(c, d) /\ d.refused = c.refused /\ d.sent = c.sent
      BY <1>4, <2>1, FailEffect
    <2>3. FromLibrary(d)
      BY <1>2, <1>3, <2>2 DEF CallInv, FromLibrary, SameRule, InCall
    <2>4. Staged(d) /\ Untouched(d)
      BY <1>3, <2>2 DEF Staged, Untouched
    <2>5. Rotating(d, node, deployment.selection)
      BY <1>3, <1>5, <2>2, Untried DEF SameRetries
    <2> QED
      BY <1>5, <1>6, <2>1, <2>2, <2>3, <2>4, <2>5, OneCall, OthersUnchanged DEF CallInv
  <1>7. ASSUME Allowed, Set(t, [c EXCEPT !.pc = "check"])
        PROVE  IInv'
    <2>1. PICK d : d = [c EXCEPT !.pc = "check"]
      OBVIOUS
    <2>2. d \in CallRecords
      BY Zenon, <1>4, <2>1 DEF CallRecords, Pcs
    <2>3. SameRule(c, d) /\ SameRetries(c, d) /\ d.pc = "check" /\ d.host = c.host /\ d.refused = c.refused /\ d.sent = c.sent
      BY Zenon, <1>4, <2>1 DEF CallRecords, SameRule, SameRetries
    <2>4. FromLibrary(d)
      BY <1>2, <1>3, <2>3 DEF CallInv, FromLibrary, SameRule, InCall
    <2>5. Staged(d)
      BY <1>2, <1>3, <2>3 DEF CallInv, Staged, SameRetries
    <2>6. Untouched(d)
      BY <1>3, <2>3 DEF Untouched
    <2>8. Rotating(d, node, deployment.selection)
      BY <1>3, <1>5, <2>3, Untried DEF SameRetries
    <2> QED
      BY <1>5, <1>7, <2>1, <2>2, <2>4, <2>5, <2>6, <2>8, OneCall, OthersUnchanged DEF CallInv
  <1>8. \/ \E e \in FunctionErrors : Set(t, Fail(c, e))
        \/ Allowed /\ Set(t, [c EXCEPT !.pc = "check"])
    BY Zenon, <1>1, <1>3 DEF Enter, FunctionErrors, SameRule
  <1> QED
    BY <1>6, <1>7, <1>8

(* What the tables say of a function that is linked. *)
LEMMA TableEntry ==
    ASSUME NEW f \in DOMAIN FunctionOf, NEW plan \in OperationOf[f].plans
    PROVE  plan \in Seq(Requests) /\ plan # <<>> /\ ChecksFirst(plan)
  <1>1. FunctionOf[f] \in to_api_function /\ FunctionOf[f].name = f
    BY Zenon DEF FunctionOf
  <1>2. f \in DOMAIN OperationOf
    BY Zenon, <1>1, FunctionsAssumption
  <1>3. OperationOf[f] \in Operations
    BY Zenon, <1>2 DEF OperationOf
  <1> QED
    BY Zenon, <1>3, OperationsAssumption

(* The host function that comes next is one of the library function's. *)
LEMMA NextIsLinked ==
    ASSUME IInv, NEW t \in Threads, call[t].pc \in InCall
    PROVE  /\ name(t) \in DOMAIN FunctionOf
           /\ \A names : name(t) \in names => UsesAny(call[t], names)
           /\ \E j \in DOMAIN call[t].fn : Head(call[t].todo) = call[t].fn[j]
  <1>1. call[t] \in CallRecords /\ FromLibrary(call[t])
    BY OwnCall DEF CallInv
  <1>2. call[t].todo \in Seq(HostCalls)
    BY Zenon, <1>1 DEF CallRecords
  <1>3. call[t].todo # <<>>
    BY Zenon, <1>1 DEF FromLibrary
  <1>4. 1 \in DOMAIN call[t].todo /\ Head(call[t].todo) = call[t].todo[1]
    BY Zenon, <1>2, <1>3, SequenceFacts
  <1>5. PICK j \in DOMAIN call[t].fn : Head(call[t].todo) = call[t].fn[j]
    BY Zenon, <1>1, <1>4 DEF FromLibrary
  <1> QED
    BY Zenon, <1>1, <1>5 DEF FromLibrary, UsesAny, name

LEMMA CheckKeeps ==
    ASSUME IInv, NEW t \in Threads, Check(t)
    PROVE  IInv'
  <1>1. PICK y : y = [call[t] EXCEPT !.refused = TRUE]
    OBVIOUS
  <1>2. call[t].pc = "check" /\ call[t] \in CallRecords /\ CallInv(call[t], node, deployment.selection) /\ call[t].at = None
    BY OwnCall, NotAtANode DEF Check
  <1>3. y \in CallRecords /\ SameRule(call[t], y) /\ SameRetries(call[t], y) /\ y.refused = TRUE /\ y.sent = call[t].sent
    BY Zenon, <1>1, <1>2 DEF CallRecords, SameRule, SameRetries
  <1>4. call[t].sent = {} /\ call[t].tries = 0 /\ call[t].tried = {} /\ call[t].exhausted = FALSE
        /\ call[t].refused = FALSE /\ call[t].host = None
    BY <1>2 DEF CallInv, Staged
  <1>5. node \in 0 .. Nodes - 1 /\ UNCHANGED <<deployment, node>> /\ UNCHANGED <<stamp, jar>>
    BY DEF IInv, TypeOK, Check
  <1>6. ASSUME NEW d \in CallRecords, SameRule(y, d), SameRetries(y, d), d.sent = y.sent, Set(t, d),
               \/ d.pc = "finish" /\ d.host \in {"yes", "no"}
               \/ d.pc = "decode" /\ d.host \in FunctionErrors
        PROVE  IInv'
    <2>1. FromLibrary(d)
      BY <1>2, <1>3, <1>6 DEF CallInv, FromLibrary, SameRule, InCall
    <2>2. Staged(d) /\ Untouched(d)
      BY <1>3, <1>4, <1>6 DEF Staged, Untouched
    <2>3. Rotating(d, node, deployment.selection)
      BY <1>2, <1>3, <1>4, <1>5, <1>6, Untried DEF SameRetries
    <2> QED
      BY <1>5, <1>6, <2>1, <2>2, <2>3, OneCall, OthersUnchanged DEF CallInv
  <1>7. ASSUME NEW e \in FunctionErrors, Set(t, Fail(y, e))
        PROVE  IInv'
    <2>1. PICK d : d = Fail(y, e)
      OBVIOUS
    <2> QED
      BY <1>3, <1>6, <1>7, <2>1, FailEffect
  <1>8. ASSUME Set(t, Answer(y, "no"))
        PROVE  IInv'
    <2>1. PICK d : d = Answer(y, "no")
      OBVIOUS
    <2> QED
      BY <1>3, <1>6, <1>8, <2>1, AnswerEffect
  <1>9. ASSUME NEW plan \in OperationOf[name(t)].plans, Set(t, [call[t] EXCEPT !.pc = "run", !.steps = plan])
        PROVE  IInv'
    <2>1. PICK d : d = [call[t] EXCEPT !.pc = "run", !.steps = plan]
      OBVIOUS
    <2>2. name(t) \in DOMAIN FunctionOf /\ \A names : name(t) \in names => UsesAny(call[t], names)
      BY <1>2, NextIsLinked DEF InCall
    <2>3. plan \in Seq(Requests) /\ plan # <<>> /\ ChecksFirst(plan)
      BY Zenon, <2>2, <1>9, TableEntry
    <2>4. d \in CallRecords
      BY Zenon, <1>2, <2>1, <2>3 DEF CallRecords, Pcs
    <2>5. /\ SameRule(call[t], d) /\ SameRetries(call[t], d) /\ d.pc = "run" /\ d.steps = plan
          /\ d.host = call[t].host /\ d.refused = call[t].refused /\ d.sent = call[t].sent
      BY Zenon, <1>2, <2>1 DEF CallRecords, SameRule, SameRetries
    <2>6. FromLibrary(d)
      BY <1>2, <2>5 DEF CallInv, FromLibrary, SameRule, InCall
    <2>7. Staged(d)
      BY <1>4, <2>3, <2>5 DEF Staged, SameRetries
    <2>8. Untouched(d)
      BY <1>4, <2>3, <2>5 DEF Untouched
    <2>10. Rotating(d, node, deployment.selection)
      BY <1>2, <1>4, <1>5, <2>5, Untried DEF SameRetries
    <2> QED
      BY <1>5, <1>9, <2>1, <2>4, <2>6, <2>7, <2>8, <2>10, OneCall, OthersUnchanged DEF CallInv
  <1>10. \/ \E e \in FunctionErrors : Set(t, Fail(y, e))
         \/ Set(t, Answer(y, "no"))
         \/ \E plan \in OperationOf[name(t)].plans : Set(t, [call[t] EXCEPT !.pc = "run", !.steps = plan])
    <2>1. "InternalApiError" \in FunctionErrors /\ "TestMode" \in FunctionErrors
      BY DEF FunctionErrors
    <2> QED
      BY Zenon, <1>1, <2>1 DEF Check
  <1> QED
    BY <1>7, <1>8, <1>9, <1>10

-----------------------------------------------------------------------------
(* The threads that are in the middle of a host function. *)
LEMMA RunningCall ==
    ASSUME IInv, NEW t \in Threads, NEW verbs, Running(t, verbs)
    PROVE  /\ call[t] \in CallRecords /\ CallInv(call[t], node, deployment.selection) /\ call[t].pc = "run"
           /\ step(t).verb \in verbs /\ step(t) = Head(call[t].steps)
           /\ verbs \cap RpcVerbs = {} => call[t].at = None
  <1>1. call[t] \in CallRecords /\ CallInv(call[t], node, deployment.selection) /\ call[t].pc = "run"
        /\ step(t).verb \in verbs /\ step(t) = Head(call[t].steps)
    BY OwnCall DEF Running, step
  <1>2. call[t].at # None => step(t).verb \in RpcVerbs
    BY <1>1 DEF CallInv, Rotating
  <1> QED
    BY <1>1, <1>2

LEMMA ItselfAfter ==
    ASSUME NEW c \in CallRecords, c.pc = "run", c.at = None
    PROVE  After(c, c)
  BY DEF After, SameRule

LEMMA SentAfter ==
    ASSUME NEW c \in CallRecords, c.pc = "run", c.at = None, Head(c.steps).verb \in SentVerbs,
           NEW y, y = [c EXCEPT !.sent = @ \cup {Head(c.steps).verb}]
    PROVE  After(c, y)
  <1>1. c.sent \cup {Head(c.steps).verb} \in SUBSET SentVerbs
    <2>1. c.sent \in SUBSET SentVerbs
      BY Zenon DEF CallRecords
    <2> QED
      BY <2>1
  <1>2. y \in CallRecords
    BY Zenon, <1>1 DEF CallRecords
  <1>3. y.sent = c.sent \cup {Head(c.steps).verb} /\ SameRule(c, y) /\ SameRetries(c, y)
        /\ y.pc = c.pc /\ y.steps = c.steps /\ y.host = c.host /\ y.refused = c.refused
    BY Zenon DEF CallRecords, SameRule, SameRetries
  <1> QED
    BY <1>2, <1>3 DEF After, SameRetries

LEMMA SameAfter ==
    ASSUME NEW c, NEW x, NEW y \in CallRecords, After(c, x), Same(x, y)
    PROVE  After(c, y)
  BY DEF After, Same, SameRule, SameRetries, SameHost

(* The outcomes of a request that is answered keep the invariant. *)
LEMMA AnsweredKeeps ==
    ASSUME IInv, NEW t \in Threads, call[t].pc = "run", NEW y, After(call[t], y),
           UNCHANGED <<deployment, node>>,
           stamp' \in {"none", "fresh", "old"}, jar' \in [cs : BOOLEAN, session : BOOLEAN],
           Set(t, y) \/ Set(t, Fail(y, "InternalApiError")) \/ Set(t, Answer(y, "no")) \/ Set(t, Advance(y))
    PROVE  IInv'
  <1>1. /\ y \in CallRecords /\ CallInv(y, node, deployment.selection)
        /\ Fail(y, "InternalApiError") \in CallRecords /\ CallInv(Fail(y, "InternalApiError"), node, deployment.selection)
        /\ Answer(y, "no") \in CallRecords /\ CallInv(Answer(y, "no"), node, deployment.selection)
        /\ Advance(y) \in CallRecords /\ CallInv(Advance(y), node, deployment.selection)
    BY OwnCall, AnswerIsKept DEF After
  <1> QED
    BY <1>1, OneCall

LEMMA ExchangeKeeps ==
    ASSUME IInv, NEW t \in Threads, Exchange(t)
    PROVE  IInv'
  <1>1. /\ Running(t, {"GET", "QUERY", "POST", "PUT", "PATCH", "DELETE"})
        /\ UNCHANGED <<deployment, node>> /\ UNCHANGED <<stamp, jar>>
    BY DEF Exchange
  <1>2. /\ call[t] \in CallRecords /\ call[t].pc = "run" /\ call[t].at = None
        /\ step(t) = Head(call[t].steps) /\ step(t).verb \in SentVerbs
    BY <1>1, RunningCall DEF RpcVerbs, SentVerbs, Mutating
  <1>3. PICK s \in Statuses \cup {Lost}, good \in BOOLEAN :
            LET r == step(t)
                c == [call[t] EXCEPT !.sent = @ \cup {r.verb},
                                     !.unacked = @ \/ (r.verb \in Mutating /\ ~Acknowledged(r, s, good))]
            IN \/ Set(t, Fail(c, "InternalApiError"))
               \/ Set(t, Answer(c, "no"))
               \/ Set(t, Advance([c EXCEPT !.good = good \/ r.body \notin {"read", "report"}]))
               \/ c.page < MaxPages /\ Set(t, [c EXCEPT !.page = @ + 1])
    BY Zenon DEF Exchange
  <1>4. PICK c : c = [call[t] EXCEPT !.sent = @ \cup {step(t).verb},
                                     !.unacked = @ \/ (step(t).verb \in Mutating /\ ~Acknowledged(step(t), s, good))]
    OBVIOUS
  <1>5. PICK y : y = [c EXCEPT !.good = good \/ step(t).body \notin {"read", "report"}]
    OBVIOUS
  <1>6. PICK p : p = [c EXCEPT !.page = @ + 1]
    OBVIOUS
  <1>7. After(call[t], c)
    <2>1. PICK b \in BOOLEAN :
            b = (call[t].unacked \/ (step(t).verb \in Mutating /\ ~Acknowledged(step(t), s, good)))
      BY Zenon
    <2>2. PICK x : x = [call[t] EXCEPT !.sent = @ \cup {step(t).verb}]
      OBVIOUS
    <2>3. After(call[t], x) /\ x \in CallRecords
      BY <1>2, <2>2, SentAfter DEF After
    <2>4. c = [x EXCEPT !.unacked = b]
      BY Zenon, <1>2, <1>4, <2>1, <2>2 DEF CallRecords
    <2>5. c \in CallRecords /\ Same(x, c)
      BY Zenon, <2>3, <2>4 DEF CallRecords, Same, SameRule, SameRetries, SameHost
    <2> QED
      BY <2>3, <2>5, SameAfter
  <1>8. After(call[t], y)
    <2>1. PICK b \in BOOLEAN : b = (good \/ step(t).body \notin {"read", "report"})
      BY Zenon
    <2>2. c \in CallRecords /\ y = [c EXCEPT !.good = b]
      BY Zenon, <1>5, <1>7, <2>1 DEF After
    <2>3. y \in CallRecords /\ Same(c, y)
      BY Zenon, <2>2 DEF CallRecords, Same, SameRule, SameRetries, SameHost
    <2> QED
      BY <1>7, <2>3, SameAfter
  <1>9. ASSUME c.page < MaxPages
        PROVE  After(call[t], p)
    <2>1. c.page \in 0 .. MaxPages
      BY Zenon, <1>7 DEF After, CallRecords
    <2>2. c.page + 1 \in 0 .. MaxPages
      BY <1>9, <2>1, HostCallAssumption
    <2>3. p \in CallRecords /\ Same(c, p)
      BY Zenon, <1>6, <1>7, <2>2 DEF After, CallRecords, Same, SameRule, SameRetries, SameHost
    <2> QED
      BY <1>7, <2>3, SameAfter
  <1>10. \/ Set(t, Fail(c, "InternalApiError")) \/ Set(t, Answer(c, "no"))
         \/ Set(t, Advance(y)) \/ (c.page < MaxPages /\ Set(t, p))
    BY Zenon, <1>3, <1>4, <1>5, <1>6
  <1> QED
    BY <1>1, <1>2, <1>7, <1>8, <1>9, <1>10, AnsweredKeeps, OthersUnchanged

LEMMA ComputeKeeps ==
    ASSUME IInv, NEW t \in Threads, Compute(t)
    PROVE  IInv'
  <1>1. /\ Running(t, {"LOCAL", "VALIDATE"})
        /\ UNCHANGED <<deployment, node>> /\ UNCHANGED <<stamp, jar>>
    BY DEF Compute
  <1>2. /\ call[t] \in CallRecords /\ CallInv(call[t], node, deployment.selection)
        /\ call[t].pc = "run" /\ call[t].at = None /\ step(t) = Head(call[t].steps)
    BY <1>1, RunningCall DEF RpcVerbs
  <1>3. ASSUME Set(t, Advance(call[t]))
        PROVE  IInv'
    BY <1>1, <1>2, <1>3, ItselfAfter, AnsweredKeeps, OthersUnchanged
  <1>4. ASSUME Set(t, Fail([call[t] EXCEPT !.refused = step(t).verb = "VALIDATE"], "InternalApiError"))
        PROVE  IInv'
    <2>1. PICK y : y = [call[t] EXCEPT !.refused = step(t).verb = "VALIDATE"]
      OBVIOUS
    <2>2. PICK d : d = Fail(y, "InternalApiError")
      OBVIOUS
    <2>3. /\ y \in CallRecords /\ SameRule(call[t], y) /\ SameRetries(call[t], y) /\ y.sent = call[t].sent
          /\ y.refused = TRUE => step(t).verb = "VALIDATE"
      <3>1. PICK b \in BOOLEAN : b = (step(t).verb = "VALIDATE")
        BY Zenon
      <3>2. y = [call[t] EXCEPT !.refused = b]
        BY Zenon, <2>1, <3>1
      <3>3. y \in CallRecords /\ SameRule(call[t], y) /\ SameRetries(call[t], y) /\ y.sent = call[t].sent /\ y.refused = b
        BY Zenon, <1>2, <3>2 DEF CallRecords, SameRule, SameRetries
      <3> QED
        BY Zenon, <3>1, <3>3
    <2>4. "InternalApiError" \in FunctionErrors
      BY DEF FunctionErrors
    <2>5. /\ d \in CallRecords /\ d.pc = "decode" /\ d.host = "InternalApiError"
          /\ SameRule(y, d) /\ SameRetries(y, d) /\ d.refused = y.refused /\ d.sent = y.sent
      BY <2>2, <2>3, <2>4, FailEffect
    <2>6. call[t].exhausted = FALSE
      BY <1>2 DEF CallInv, Staged
    <2>7. CallInv(d, node, deployment.selection)
      BY <1>2, <2>3, <2>5, <2>6, Ends DEF SameRule, SameRetries
    <2>8. Set(t, d)
      BY Zenon, <1>4, <2>1, <2>2
    <2> QED
      BY <1>1, <2>5, <2>7, <2>8, OneCall, OthersUnchanged
  <1> QED
    BY <1>3, <1>4 DEF Compute

-----------------------------------------------------------------------------
LEMMA RpcSelectKeeps ==
    ASSUME IInv, NEW t \in Threads, RpcSelect(t)
    PROVE  IInv'
  <1>1. Running(t, RpcVerbs) /\ call[t].at = None /\ UNCHANGED <<deployment, node>> /\ UNCHANGED <<stamp, jar>>
    BY DEF RpcSelect
  <1>2. /\ call[t] \in CallRecords /\ CallInv(call[t], node, deployment.selection)
        /\ call[t].pc = "run" /\ step(t) = Head(call[t].steps) /\ step(t).verb \in RpcVerbs
    BY <1>1, RunningCall
  <1>3. ASSUME call[t].tries < MaxRetries, NEW n \in select_node, Set(t, [call[t] EXCEPT !.at = n])
        PROVE  IInv'
    <2>1. PICK d : d = [call[t] EXCEPT !.at = n]
      OBVIOUS
    <2>2. n \in 0 .. Nodes - 1 /\ (deployment.selection = "RoundRobin" => n = node)
      BY <1>3 DEF select_node, IInv, TypeOK
    <2>3. d \in CallRecords
      BY Zenon, <1>2, <2>1, <2>2 DEF CallRecords
    <2>4. /\ SameRule(call[t], d) /\ SameHost(call[t], d) /\ d.at = n /\ d.tries = call[t].tries
          /\ d.tried = call[t].tried /\ d.exhausted = call[t].exhausted /\ d.disturbed = call[t].disturbed
      BY Zenon, <1>2, <2>1 DEF CallRecords, SameRule, SameHost
    <2>5. Rotating(d, node, deployment.selection)
      BY <1>2, <1>3, <2>2, <2>4 DEF CallInv, Rotating, SameHost
    <2>6. CallInv(d, node, deployment.selection)
      BY <1>2, <2>3, <2>4, <2>5, GoesOn DEF SameHost
    <2> QED
      BY <1>1, <1>3, <2>1, <2>3, <2>6, OneCall, OthersUnchanged
  <1> DEFINE given == [call[t] EXCEPT !.exhausted = TRUE, !.unacked = @ \/ step(t).verb \in Mutating]
  <1>4. ASSUME call[t].tries = MaxRetries, Set(t, Fail(given, "InternalApiError"))
        PROVE  IInv'
    <2>0. PICK b \in BOOLEAN : b = (call[t].unacked \/ step(t).verb \in Mutating)
      BY Zenon
    <2>1. PICK y : y = given
      OBVIOUS
    <2>2. PICK d : d = Fail(y, "InternalApiError")
      OBVIOUS
    <2>3. /\ y \in CallRecords /\ SameRule(call[t], y) /\ y.sent = call[t].sent /\ y.refused = call[t].refused
          /\ y.at = call[t].at /\ y.tries = call[t].tries /\ y.tried = call[t].tried /\ y.disturbed = call[t].disturbed
      <3>1. y = [call[t] EXCEPT !.exhausted = TRUE, !.unacked = b]
        BY Zenon, <1>2, <2>0, <2>1 DEF CallRecords
      <3> QED
        BY Zenon, <1>2, <3>1 DEF CallRecords, SameRule
    <2>4. "InternalApiError" \in FunctionErrors
      BY DEF FunctionErrors
    <2>5. /\ d \in CallRecords /\ d.pc = "decode" /\ d.host = "InternalApiError"
          /\ SameRule(y, d) /\ SameRetries(y, d) /\ d.refused = y.refused /\ d.sent = y.sent
      BY <2>2, <2>3, <2>4, FailEffect
    <2>6. call[t].refused = FALSE
      BY <1>2 DEF CallInv, Staged
    <2>7. CallInv(d, node, deployment.selection)
      BY <1>1, <1>2, <1>4, <2>3, <2>5, <2>6, Ends DEF SameRule, SameRetries
    <2> QED
      BY <1>1, <1>4, <2>1, <2>2, <2>5, <2>7, OneCall, OthersUnchanged
  <1> QED
    BY <1>3, <1>4 DEF RpcSelect

(* The selector's next position, and how far the nodes are behind it. *)
LEMMA NextNode ==
    ASSUME NEW n \in 0 .. Nodes - 1
    PROVE  /\ (n + 1) % Nodes \in 0 .. Nodes - 1
           /\ \A x \in 0 .. Nodes - 1 : x = n \/ Behind(x, (n + 1) % Nodes) = Behind(x, n) + 1
  <1>1. Nodes \in Nat \ {0}
    BY HostCallAssumption
  <1>2. (n + 1) % Nodes = IF n + 1 = Nodes THEN 0 ELSE n + 1
    <2>1. CASE n + 1 = Nodes
      <3>1. Nodes % Nodes = 0
        BY <1>1
      <3> QED
        BY <2>1, <3>1
    <2>2. CASE n + 1 < Nodes
      <3>1. \A k \in Nat : k < Nodes => k % Nodes = k
        BY <1>1
      <3> QED
        BY <2>2, <3>1
    <2> QED
      BY <1>1, <2>1, <2>2
  <1> QED
    BY <1>1, <1>2 DEF Behind

(* A call that knows it was disturbed claims nothing of the selector. *)
LEMMA Disturbed ==
    ASSUME NEW n, NEW m, NEW selection, NEW c \in CallRecords, CallInv(c, n, selection),
           NEW d, d = [c EXCEPT !.disturbed = TRUE]
    PROVE  d \in CallRecords /\ CallInv(d, m, selection)
  <1>1. d \in CallRecords
    BY Zenon DEF CallRecords
  <1>2. /\ SameRule(c, d) /\ SameHost(c, d) /\ d.outcome = c.outcome
        /\ d.at = c.at /\ d.tries = c.tries /\ d.tried = c.tried /\ d.exhausted = c.exhausted /\ d.disturbed = TRUE
    BY Zenon DEF CallRecords, SameRule, SameHost
  <1>3. FromLibrary(d) /\ Staged(d)
    BY <1>2 DEF CallInv, FromLibrary, Staged, UsesAny, SameRule, SameHost
  <1>4. Untouched(d)
    BY <1>2 DEF CallInv, Untouched, UsesAny, SameRule, SameHost
  <1>5. Rotating(d, m, selection)
    BY <1>2 DEF CallInv, Rotating, SameHost
  <1> QED
    BY <1>1, <1>3, <1>4, <1>5 DEF CallInv

(* A call that has tried no node claims nothing of the selector either. *)
LEMMA Elsewhere ==
    ASSUME NEW n, NEW m \in 0 .. Nodes - 1, NEW selection, NEW c \in CallRecords, CallInv(c, n, selection),
           c.at = None, c.tried = {}
    PROVE  CallInv(c, m, selection)
  <1>1. c.tries = 0
    BY DEF CallInv, Rotating
  <1>2. Rotating(c, m, selection)
    BY <1>1, HostCallAssumption DEF CallInv, Rotating, Behind
  <1> QED
    BY <1>2 DEF CallInv

LEMMA RpcAnswerKeeps ==
    ASSUME IInv, NEW t \in Threads, RpcAnswer(t)
    PROVE  IInv'
  <1>1. Running(t, RpcVerbs) /\ call[t].at # None /\ UNCHANGED <<deployment, stamp, jar>>
    BY DEF RpcAnswer
  <1>2. /\ call[t] \in CallRecords /\ CallInv(call[t], node, deployment.selection)
        /\ call[t].pc = "run" /\ step(t) = Head(call[t].steps) /\ step(t).verb \in RpcVerbs
    BY <1>1, RunningCall
  <1>3. PICK c : c = [call[t] EXCEPT !.sent = @ \cup {step(t).verb}, !.at = None]
    OBVIOUS
  <1>4. After(call[t], c)
    <2>1. call[t].sent \cup {step(t).verb} \in SUBSET SentVerbs
      <3>1. call[t].sent \in SUBSET SentVerbs
        BY Zenon, <1>2 DEF CallRecords
      <3> QED
        BY <1>2, <3>1 DEF SentVerbs, RpcVerbs, Mutating
    <2>2. c \in CallRecords
      BY Zenon, <1>2, <1>3, <2>1 DEF CallRecords
    <2>3. /\ SameRule(call[t], c) /\ c.pc = call[t].pc /\ c.steps = call[t].steps /\ c.host = call[t].host
          /\ c.refused = call[t].refused /\ c.sent = call[t].sent \cup {step(t).verb} /\ c.at = None
          /\ c.tries = call[t].tries /\ c.tried = call[t].tried /\ c.exhausted = call[t].exhausted
          /\ c.disturbed = call[t].disturbed
      BY Zenon, <1>2, <1>3 DEF CallRecords, SameRule
    <2> QED
      BY <1>2, <2>2, <2>3 DEF After
  <1> DEFINE Unacked == [c EXCEPT !.unacked = @ \/ step(t).verb \in Mutating]
  <1>5. PICK good \in BOOLEAN :
            \/ Set(t, Advance([IF good THEN c ELSE Unacked EXCEPT !.good = good])) /\ UNCHANGED node
            \/ Set(t, Fail(Unacked, "InternalApiError")) /\ UNCHANGED node
            \/ mark_current_node_failed(t, [c EXCEPT !.tries = @ + 1, !.tried = @ \cup {call[t].at}])
    BY Zenon, <1>3 DEF RpcAnswer
  <1>9. PICK z : z = Unacked
    OBVIOUS
  <1>10. After(call[t], z)
    <2>1. PICK b \in BOOLEAN : b = (c.unacked \/ step(t).verb \in Mutating)
      BY Zenon
    <2>2. c \in CallRecords /\ z = [c EXCEPT !.unacked = b]
      BY Zenon, <1>4, <1>9, <2>1 DEF After
    <2>3. z \in CallRecords /\ Same(c, z)
      BY Zenon, <2>2 DEF CallRecords, Same, SameRule, SameRetries, SameHost
    <2> QED
      BY <1>4, <2>3, SameAfter
  <1>6. ASSUME Set(t, Advance([IF good THEN c ELSE Unacked EXCEPT !.good = good])), UNCHANGED node
        PROVE  IInv'
    <2>1. PICK x : x = IF good THEN c ELSE z
      OBVIOUS
    <2>2. PICK y : y = [x EXCEPT !.good = good]
      OBVIOUS
    <2>3. After(call[t], x) /\ x \in CallRecords
      BY <1>4, <1>10, <2>1 DEF After
    <2>4. y \in CallRecords /\ Same(x, y)
      BY Zenon, <2>2, <2>3 DEF CallRecords, Same, SameRule, SameRetries, SameHost
    <2>5. After(call[t], y) /\ Set(t, Advance(y))
      BY <1>6, <1>9, <2>1, <2>2, <2>3, <2>4, SameAfter
    <2> QED
      BY <1>1, <1>2, <1>6, <2>5, AnsweredKeeps, OthersUnchanged
  <1>7. ASSUME Set(t, Fail(Unacked, "InternalApiError")), UNCHANGED node
        PROVE  IInv'
    BY <1>1, <1>2, <1>7, <1>9, <1>10, AnsweredKeeps, OthersUnchanged
  <1> HIDE DEF Unacked
  <1>8. ASSUME mark_current_node_failed(t, [c EXCEPT !.tries = @ + 1, !.tried = @ \cup {call[t].at}])
        PROVE  IInv'
    <2>1. PICK d : d = [c EXCEPT !.tries = @ + 1, !.tried = @ \cup {call[t].at}]
      OBVIOUS
    <2>2. c.tries = call[t].tries /\ c.tried = call[t].tried /\ c \in CallRecords
      BY <1>4 DEF After
    <2>3. call[t].tries \in 0 .. MaxRetries /\ call[t].at \in 0 .. Nodes - 1 /\ call[t].tried \in SUBSET (0 .. Nodes - 1)
      BY Zenon, <1>1, <1>2 DEF CallRecords
    <2>4. call[t].tries < MaxRetries
      BY <1>1, <1>2 DEF CallInv, Rotating
    <2>5. c.tries + 1 \in 0 .. MaxRetries /\ c.tried \cup {call[t].at} \in SUBSET (0 .. Nodes - 1)
      BY <2>2, <2>3, <2>4, HostCallAssumption
    <2>6. d \in CallRecords
      BY Zenon, <2>1, <2>2, <2>5 DEF CallRecords
    <2>7. /\ SameRule(c, d) /\ SameHost(c, d) /\ d.at = c.at /\ d.tries = c.tries + 1
          /\ d.tried = c.tried \cup {call[t].at} /\ d.exhausted = c.exhausted /\ d.disturbed = c.disturbed
      BY Zenon, <2>1, <2>2 DEF CallRecords, SameRule, SameHost
    <2>8. node \in 0 .. Nodes - 1 /\ call[t].exhausted = FALSE
      BY <1>2 DEF IInv, TypeOK, CallInv, Staged
    <2>9. ASSUME NEW m \in 0 .. Nodes - 1, Rotating(d, m, deployment.selection)
          PROVE  CallInv(d, m, deployment.selection)
      <3>1. FromLibrary(d) /\ Staged(d) /\ Untouched(d)
        <4>1. PICK e : e = [d EXCEPT !.tries = 0]
          OBVIOUS
        <4>2. 0 \in 0 .. MaxRetries
          BY HostCallAssumption
        <4>3. e \in CallRecords
          BY Zenon, <2>6, <4>1, <4>2 DEF CallRecords
        <4>4. SameRule(d, e) /\ SameHost(d, e) /\ e.at = d.at /\ e.tries = 0 /\ e.exhausted = d.exhausted
          BY Zenon, <2>6, <4>1 DEF CallRecords, SameRule, SameHost
        <4>5. Rotating(e, node, deployment.selection)
          BY <1>4, <2>7, <2>8, <4>4, Untried DEF After
        <4>6. CallInv(e, node, deployment.selection)
          BY <1>2, <1>4, <2>7, <4>3, <4>4, <4>5, GoesOn DEF After, SameRule, SameHost
        <4> QED
          BY <2>7, <2>8, <1>4, <4>4, <4>6
             DEF CallInv, FromLibrary, Staged, Untouched, UsesAny, SameRule, SameHost, After
      <3> QED
        BY <2>9, <3>1 DEF CallInv
    <2>10. CASE deployment.selection = "RoundRobin"
      <3>1. /\ node' = (node + 1) % Nodes
            /\ call' = [u \in Threads |->
                    IF u = t THEN d
                    ELSE IF call[u].at # None \/ call[u].tried # {} THEN [call[u] EXCEPT !.disturbed = TRUE] ELSE call[u]]
        BY Zenon, <1>8, <2>1, <2>10 DEF mark_current_node_failed
      <3>2. /\ node' \in 0 .. Nodes - 1
            /\ \A x \in 0 .. Nodes - 1 : x = node \/ Behind(x, node') = Behind(x, node) + 1
        BY <2>8, <3>1, NextNode
      <3>3. Rotating(d, node', deployment.selection)
        <4>1. d.at = None /\ d.tried # {} /\ d.exhausted = FALSE
          BY <1>4, <2>7, <2>8 DEF After
        <4>2. ASSUME d.disturbed = FALSE, NEW x \in 0 .. Nodes - 1, Behind(x, node') <= d.tries
              PROVE  x \in d.tried
          <5>1. call[t].disturbed = FALSE
            BY <1>4, <2>7, <4>2 DEF After
          <5>2. call[t].at = node /\ \A y \in 0 .. Nodes - 1 : Behind(y, node) <= call[t].tries => y \in call[t].tried
            BY <1>1, <1>2, <2>10, <5>1 DEF CallInv, Rotating
          <5>3. CASE x = node
            BY <2>7, <5>2, <5>3
          <5>4. CASE x # node
            <6>1. Behind(x, node) + 1 <= call[t].tries + 1 /\ Behind(x, node) \in Int
              BY <2>2, <2>7, <2>8, <3>2, <4>2, <5>4, HostCallAssumption DEF Behind
            <6>2. Behind(x, node) <= call[t].tries
              BY <2>3, <6>1
            <6> QED
              BY <2>2, <2>7, <5>2, <6>2
          <5> QED
            BY <5>3, <5>4
        <4> QED
          BY <4>1, <4>2 DEF Rotating
      <3>4. ASSUME NEW u \in Threads
            PROVE  call'[u] \in CallRecords /\ CallInv(call'[u], node', deployment.selection)
        <4>1. call[u] \in CallRecords /\ CallInv(call[u], node, deployment.selection)
          BY OwnCall
        <4>2. CASE u = t
          BY Zenon, <2>6, <2>9, <3>1, <3>2, <3>3, <4>2
        <4>3. CASE u # t /\ (call[u].at # None \/ call[u].tried # {})
          <5>1. call'[u] = [call[u] EXCEPT !.disturbed = TRUE]
            BY Zenon, <3>1, <4>3
          <5> QED
            BY <4>1, <5>1, Disturbed
        <4>4. CASE u # t /\ ~(call[u].at # None \/ call[u].tried # {})
          <5>1. call'[u] = call[u]
            BY Zenon, <3>1, <4>4
          <5> QED
            BY <3>2, <4>1, <4>4, <5>1, Elsewhere
        <4> QED
          BY <4>2, <4>3, <4>4
      <3>5. call' \in [Threads -> CallRecords]
        <4>1. call' = [u \in Threads |-> call'[u]]
          BY Zenon, <3>1
        <4> QED
          BY Zenon, <3>4, <4>1
      <3> QED
        BY <1>1, <3>2, <3>4, <3>5 DEF IInv, TypeOK
    <2>11. CASE deployment.selection # "RoundRobin"
      <3>1. Set(t, d) /\ UNCHANGED node
        BY Zenon, <1>8, <2>1, <2>11 DEF mark_current_node_failed
      <3>2. d.at = None /\ d.tried # {} /\ d.exhausted = FALSE
        BY <1>4, <2>7, <2>8 DEF After
      <3>3. Rotating(d, node, deployment.selection)
        BY <2>11, <3>2 DEF Rotating
      <3> QED
        BY <1>1, <2>6, <2>8, <2>9, <3>1, <3>3, OneCall, OthersUnchanged
    <2> QED
      BY <2>10, <2>11
  <1> QED
    BY <1>5, <1>6, <1>7, <1>8

-----------------------------------------------------------------------------
(* The login's steps, whose other state is the shared cookies. *)
LEMMA SubAfter ==
    ASSUME NEW c \in CallRecords, c.pc = "run", c.at = None, NEW b \in {"start", "get", "password", "otp"},
           NEW y, y = [c EXCEPT !.sub = b]
    PROVE  After(c, y)
  <1>1. y \in CallRecords /\ Same(c, y)
    BY Zenon DEF CallRecords, Same, SameRule, SameRetries, SameHost
  <1> QED
    BY <1>1, ItselfAfter, SameAfter

LEMMA LoginStartKeeps ==
    ASSUME IInv, NEW t \in Threads, LoginStart(t)
    PROVE  IInv'
  <1>1. /\ Running(t, {"LOGIN"}) /\ UNCHANGED <<deployment, node>>
        /\ stamp' \in {"none", "fresh", "old"}
    BY DEF LoginStart, IInv, TypeOK
  <1>2. jar' \in [cs : BOOLEAN, session : BOOLEAN]
    BY Zenon DEF LoginStart, IInv, TypeOK
  <1>3. /\ call[t] \in CallRecords /\ CallInv(call[t], node, deployment.selection)
        /\ call[t].pc = "run" /\ call[t].at = None
    BY <1>1, RunningCall DEF RpcVerbs
  <1>4. PICK y : y = [call[t] EXCEPT !.sub = "get"]
    OBVIOUS
  <1>5. After(call[t], y)
    BY <1>3, <1>4, SubAfter
  <1>6. Set(t, y)
    BY <1>4 DEF LoginStart
  <1> QED
    BY <1>1, <1>2, <1>3, <1>5, <1>6, AnsweredKeeps

LEMMA LoginGetKeeps ==
    ASSUME IInv, NEW t \in Threads, LoginGet(t)
    PROVE  IInv'
  <1>1. Running(t, {"LOGIN"}) /\ UNCHANGED <<deployment, node>> /\ stamp' \in {"none", "fresh", "old"}
    BY DEF LoginGet, IInv, TypeOK
  <1>2. jar' \in [cs : BOOLEAN, session : BOOLEAN]
    BY Zenon DEF LoginGet, IInv, TypeOK
  <1>3. /\ call[t] \in CallRecords /\ call[t].pc = "run" /\ call[t].at = None
        /\ Head(call[t].steps).verb = "LOGIN" /\ "LOGIN" \in SentVerbs
    BY <1>1, RunningCall DEF RpcVerbs, SentVerbs
  <1>4. PICK y : y = [call[t] EXCEPT !.sent = @ \cup {"LOGIN"}]
    OBVIOUS
  <1>5. PICK x : x = [call[t] EXCEPT !.sub = "password"]
    OBVIOUS
  <1>6. After(call[t], call[t]) /\ After(call[t], y) /\ After(call[t], x)
    BY <1>3, <1>4, <1>5, ItselfAfter, SentAfter, SubAfter
  <1>7. Set(t, Answer(call[t], "no")) \/ Set(t, Advance(y)) \/ Set(t, x)
    BY Zenon, <1>4, <1>5 DEF LoginGet
  <1> QED
    BY <1>1, <1>2, <1>3, <1>6, <1>7, AnsweredKeeps

LEMMA LoginPostKeeps ==
    ASSUME IInv, NEW t \in Threads, LoginPost(t)
    PROVE  IInv'
  <1>1. Running(t, {"LOGIN"}) /\ UNCHANGED <<deployment, node>> /\ stamp' \in {"none", "fresh", "old"}
    BY DEF LoginPost, IInv, TypeOK
  <1>2. jar' \in [cs : BOOLEAN, session : BOOLEAN]
    BY Zenon DEF LoginPost, IInv, TypeOK
  <1>3. /\ call[t] \in CallRecords /\ call[t].pc = "run" /\ call[t].at = None
        /\ Head(call[t].steps).verb = "LOGIN" /\ "LOGIN" \in SentVerbs
    BY <1>1, RunningCall DEF RpcVerbs, SentVerbs
  <1>4. PICK y : y = [call[t] EXCEPT !.sent = @ \cup {"LOGIN"}]
    OBVIOUS
  <1>5. PICK x : x = [call[t] EXCEPT !.sub = "otp"]
    OBVIOUS
  <1>6. After(call[t], call[t]) /\ After(call[t], y) /\ After(call[t], x)
    BY <1>3, <1>4, <1>5, ItselfAfter, SentAfter, SubAfter
  <1>7. Set(t, Answer(call[t], "no")) \/ Set(t, Advance(y)) \/ Set(t, x)
    BY Zenon, <1>4, <1>5 DEF LoginPost
  <1> QED
    BY <1>1, <1>2, <1>3, <1>6, <1>7, AnsweredKeeps

LEMMA CsrfKeeps ==
    ASSUME IInv, NEW t \in Threads, get_csrftoken_from_cookies(t)
    PROVE  IInv'
  <1>1. Running(t, {"CSRF"}) /\ UNCHANGED <<deployment, node>> /\ UNCHANGED <<stamp, jar>>
    BY DEF get_csrftoken_from_cookies
  <1>2. call[t] \in CallRecords /\ call[t].pc = "run" /\ call[t].at = None
    BY <1>1, RunningCall DEF RpcVerbs
  <1>3. Set(t, Advance(call[t])) \/ Set(t, Fail(call[t], "InternalApiError"))
    BY Zenon DEF get_csrftoken_from_cookies
  <1> QED
    BY <1>1, <1>2, <1>3, ItselfAfter, AnsweredKeeps, OthersUnchanged

LEMMA ListKeeps ==
    ASSUME IInv, NEW t \in Threads, get_paginated_data_from_npm_website(t)
    PROVE  IInv'
  <1>1. Running(t, {"LIST"}) /\ UNCHANGED <<deployment, node>> /\ UNCHANGED <<stamp, jar>>
    BY DEF get_paginated_data_from_npm_website
  <1>2. call[t] \in CallRecords /\ call[t].pc = "run" /\ call[t].at = None
    BY <1>1, RunningCall DEF RpcVerbs
  <1>3. ASSUME call[t].page < MaxPages, Set(t, [call[t] EXCEPT !.page = @ + 1])
        PROVE  IInv'
    <2>1. PICK y : y = [call[t] EXCEPT !.page = @ + 1]
      OBVIOUS
    <2>2. call[t].page \in 0 .. MaxPages
      BY Zenon, <1>2 DEF CallRecords
    <2>3. call[t].page + 1 \in 0 .. MaxPages
      BY <1>3, <2>2, HostCallAssumption
    <2>4. y \in CallRecords /\ Same(call[t], y)
      BY Zenon, <1>2, <2>1, <2>3 DEF CallRecords, Same, SameRule, SameRetries, SameHost
    <2>5. After(call[t], y)
      BY <1>2, <2>4, ItselfAfter, SameAfter
    <2> QED
      BY <1>1, <1>2, <1>3, <2>1, <2>5, AnsweredKeeps, OthersUnchanged
  <1>4. ASSUME Set(t, [call[t] EXCEPT !.past = TRUE])
        PROVE  IInv'
    <2>1. PICK y : y = [call[t] EXCEPT !.past = TRUE]
      OBVIOUS
    <2>2. y \in CallRecords /\ Same(call[t], y)
      BY Zenon, <1>2, <2>1 DEF CallRecords, Same, SameRule, SameRetries, SameHost
    <2>3. After(call[t], y)
      BY <1>2, <2>2, ItselfAfter, SameAfter
    <2> QED
      BY <1>1, <1>2, <1>4, <2>1, <2>3, AnsweredKeeps, OthersUnchanged
  <1>5. ASSUME Set(t, Answer(call[t], "no")) \/ Set(t, Advance(call[t]))
        PROVE  IInv'
    BY <1>1, <1>2, <1>5, ItselfAfter, AnsweredKeeps, OthersUnchanged
  <1> QED
    BY <1>3, <1>4, <1>5 DEF get_paginated_data_from_npm_website

LEMMA FinishKeeps ==
    ASSUME IInv, NEW t \in Threads, Finish(t)
    PROVE  IInv'
  <1>1. call[t].pc = "finish" /\ UNCHANGED <<deployment, node>> /\ UNCHANGED <<stamp, jar>>
    BY DEF Finish
  <1>2. call[t] \in CallRecords /\ CallInv(call[t], node, deployment.selection) /\ call[t].at = None
    BY <1>1, OwnCall, NotAtANode
  <1>3. ASSUME NEW d \in CallRecords, Set(t, d), SameRule(call[t], d), SameRetries(call[t], d), d.pc = "decode",
               d.refused = call[t].refused, d.sent = call[t].sent, d.host = call[t].host \/ d.host \in safely_write_data_back
        PROVE  IInv'
    <2>1. FromLibrary(d)
      BY <1>1, <1>2, <1>3 DEF CallInv, FromLibrary, SameRule, InCall
    <2>2. Staged(d)
      BY <1>1, <1>2, <1>3 DEF CallInv, Staged, FunctionErrors
    <2>3. Untouched(d)
      BY <1>1, <1>2, <1>3 DEF CallInv, Untouched, Refusing, safely_write_data_back
    <2>5. Rotating(d, node, deployment.selection)
      BY <1>1, <1>2, <1>3 DEF CallInv, Rotating, SameRetries
    <2> QED
      BY <1>1, <1>3, <2>1, <2>2, <2>3, <2>5, OneCall, OthersUnchanged DEF CallInv
  <1>4. ASSUME Set(t, [call[t] EXCEPT !.pc = "decode"])
        PROVE  IInv'
    <2>1. PICK d : d = [call[t] EXCEPT !.pc = "decode"]
      OBVIOUS
    <2>2. d \in CallRecords
      BY ZenonT(60), <1>2, <2>1 DEF CallRecords, Pcs
    <2>3. SameRule(call[t], d) /\ SameRetries(call[t], d) /\ d.pc = "decode" /\ d.host = call[t].host
          /\ d.refused = call[t].refused /\ d.sent = call[t].sent
      BY Zenon, <1>2, <2>1 DEF CallRecords, SameRule, SameRetries
    <2> QED
      BY <1>3, <1>4, <2>1, <2>2, <2>3
  <1>5. ASSUME NEW e \in safely_write_data_back, Set(t, Fail(call[t], e))
        PROVE  IInv'
    <2>1. PICK d : d = Fail(call[t], e)
      OBVIOUS
    <2>2. e \in FunctionErrors
      BY <1>5 DEF FunctionErrors
    <2> QED
      BY <1>2, <1>3, <1>5, <2>1, <2>2, FailEffect
  <1> QED
    BY <1>4, <1>5 DEF Finish

(* The library makes one of four things of a result. *)
LEMMA DecodedFacts ==
    ASSUME NEW h \in HostCalls, NEW host, NEW good
    PROVE  Decoded(h.result, host, good) \in {"ok", "negative", "err", "trap"}
  <1>1. h.result \in {"unit", "zero", "code", "text", "json", "trap", "rpc", "report", "npm", "member", "otp"}
    BY DEF HostCalls
  <1> QED
    BY <1>1 DEF Decoded

LEMMA DecodeKeeps ==
    ASSUME IInv, NEW t \in Threads, Decode(t)
    PROVE  IInv'
  <1> DEFINE outcome == Decoded(Head(call[t].todo).result, call[t].host, call[t].good)
  <1>1. call[t].pc = "decode" /\ UNCHANGED <<deployment, node>> /\ UNCHANGED <<stamp, jar>>
    BY DEF Decode
  <1>2. call[t] \in CallRecords /\ CallInv(call[t], node, deployment.selection) /\ call[t].at = None
    BY <1>1, OwnCall, NotAtANode
  <1>3. call[t].todo \in Seq(HostCalls) /\ call[t].todo # <<>>
    <2>1. call[t].todo \in Seq(HostCalls)
      BY Zenon, <1>2 DEF CallRecords
    <2>2. call[t].todo # <<>>
      BY <1>1, <1>2 DEF CallInv, FromLibrary, InCall
    <2> QED
      BY <2>1, <2>2
  <1>4. outcome \in {"ok", "negative", "err", "trap"}
    <2>1. Head(call[t].todo) \in HostCalls
      BY Zenon, <1>3, SequenceFacts
    <2> QED
      BY <2>1, DecodedFacts
  <1>5. ASSUME NEW o \in {"ok", "negative", "err", "trap"}, o = outcome \/ o = "err",
               Set(t, [call[t] EXCEPT !.pc = "returned", !.outcome = o, !.steps = <<>>])
        PROVE  IInv'
    <2>1. PICK d : d = [call[t] EXCEPT !.pc = "returned", !.outcome = o, !.steps = <<>>]
      OBVIOUS
    <2>2. <<>> \in Seq(Requests) /\ o \in {"ok", "negative", "err", "trap", "unlinked", None} /\ "returned" \in Pcs
      BY <1>5 DEF Pcs
    <2>3. d \in CallRecords
      BY Zenon, <1>2, <2>1, <2>2 DEF CallRecords
    <2>4. SameRule(call[t], d) /\ SameRetries(call[t], d) /\ d.pc = "returned" /\ d.outcome = o
          /\ d.host = call[t].host /\ d.refused = call[t].refused /\ d.sent = call[t].sent
      BY Zenon, <1>2, <2>1 DEF CallRecords, SameRule, SameRetries
    <2>5. FromLibrary(d) /\ Staged(d)
      BY <2>4 DEF FromLibrary, InCall, Staged
    <2>7. Untouched(d)
      BY <1>2, <2>4 DEF CallInv, Untouched, UsesAny, SameRule
    <2>8. Rotating(d, node, deployment.selection)
      BY <1>2, <2>4 DEF CallInv, Rotating, SameRetries
    <2> QED
      BY <1>1, <1>5, <2>1, <2>3, <2>5, <2>7, <2>8, OneCall, OthersUnchanged DEF CallInv
  <1> DEFINE NextCall == [call[t] EXCEPT !.pc = "enter", !.steps = <<>>, !.sub = "start", !.page = 0, !.host = None, !.good = TRUE]
  <1>6. ASSUME NEW d \in CallRecords, Set(t, d), d.fn = call[t].fn, d.test = call[t].test, SameRetries(call[t], d), d.pc = "enter",
               d.host = None, d.refused = call[t].refused, d.sent = call[t].sent,
               d.todo = call[t].todo \/ (d.todo = Tail(call[t].todo) /\ d.todo # <<>>)
        PROVE  IInv'
    <2>1. \A i \in DOMAIN d.todo : \E k \in DOMAIN call[t].todo : d.todo[i] = call[t].todo[k]
      <3>1. CASE d.todo = call[t].todo
        BY Zenon, <3>1
      <3>2. CASE d.todo = Tail(call[t].todo)
        <4>1. \A i \in DOMAIN Tail(call[t].todo) :
                i + 1 \in DOMAIN call[t].todo /\ Tail(call[t].todo)[i] = call[t].todo[i + 1]
          BY Zenon, <1>3, SequenceFacts
        <4> QED
          BY Zenon, <3>2, <4>1
      <3> QED
        BY <1>6, <3>1, <3>2
    <2>2. FromLibrary(d)
      BY <1>1, <1>2, <1>6, <2>1 DEF CallInv, FromLibrary, InCall
    <2>3. Staged(d)
      BY <1>6 DEF Staged
    <2>4. None \notin Refusing
      BY HostCallAssumption DEF Refusing, FunctionErrors, safely_get_string
    <2>5. Untouched(d)
      BY <1>2, <1>6, <2>4 DEF CallInv, Untouched, UsesAny
    <2>6. Rotating(d, node, deployment.selection)
      BY <1>2, <1>6 DEF CallInv, Rotating, SameRetries
    <2> QED
      BY <1>1, <1>6, <2>2, <2>3, <2>5, <2>6, OneCall, OthersUnchanged DEF CallInv
  <1>7. PICK c : c = NextCall
    OBVIOUS
  <1>8. /\ c \in CallRecords /\ SameRule(call[t], c) /\ SameRetries(call[t], c)
        /\ c.pc = "enter" /\ c.host = None /\ c.refused = call[t].refused
        /\ c.sent = call[t].sent /\ c.pages = call[t].pages
    <2>1. <<>> \in Seq(Requests) /\ 0 \in 0 .. MaxPages /\ "enter" \in Pcs /\ "start" \in {"start", "get", "password", "otp"}
          /\ None \in FunctionErrors \cup {"yes", "no", None}
      BY HostCallAssumption DEF Pcs
    <2>2. c \in CallRecords
      BY Zenon, <1>2, <1>7, <2>1 DEF CallRecords
    <2>3. /\ SameRule(call[t], c) /\ SameRetries(call[t], c) /\ c.pc = "enter" /\ c.host = None
          /\ c.refused = call[t].refused /\ c.sent = call[t].sent /\ c.pages = call[t].pages
      BY Zenon, <1>2, <1>7 DEF CallRecords, SameRule, SameRetries
    <2> QED
      BY <2>2, <2>3
  <1> HIDE DEF NextCall
  <1>9. ASSUME call[t].pages < MaxPages, Set(t, [c EXCEPT !.pages = @ + 1])
        PROVE  IInv'
    <2>1. PICK d : d = [c EXCEPT !.pages = @ + 1]
      OBVIOUS
    <2>2. c.pages \in 0 .. MaxPages
      BY Zenon, <1>8 DEF CallRecords
    <2>3. c.pages + 1 \in 0 .. MaxPages
      BY <1>8, <1>9, <2>2, HostCallAssumption
    <2>4. d \in CallRecords /\ Same(c, d)
      BY Zenon, <1>8, <2>1, <2>3 DEF CallRecords, Same, SameRule, SameRetries, SameHost
    <2> QED
      BY <1>6, <1>8, <1>9, <2>1, <2>4 DEF Same, SameRule, SameRetries, SameHost
  <1>10. ASSUME Len(call[t].todo) > 1, Set(t, [c EXCEPT !.todo = Tail(@)])
         PROVE  IInv'
    <2>1. PICK d : d = [c EXCEPT !.todo = Tail(@)]
      OBVIOUS
    <2>2. c.todo = call[t].todo /\ c \in CallRecords
      BY <1>8 DEF SameRule
    <2>3. Tail(c.todo) \in Seq(HostCalls) /\ Tail(c.todo) # <<>>
      <3>1. Len(call[t].todo) # 1
        <4>1. Len(call[t].todo) \in Nat
          BY Zenon, <1>3, LenProperties
        <4>2. Len(call[t].todo) > 1
          BY Zenon, <1>10
        <4>3. \A k \in Nat : k > 1 => k # 1
          OBVIOUS
        <4> QED
          BY Zenon, <4>1, <4>2, <4>3
      <3> QED
        BY Zenon, <1>3, <2>2, <3>1, SequenceFacts
    <2>4. d \in CallRecords
      BY Zenon, <2>1, <2>2, <2>3 DEF CallRecords
    <2>5. d.fn = c.fn /\ d.test = c.test /\ d.todo = Tail(c.todo) /\ SameRetries(c, d) /\ SameHost(c, d)
      BY Zenon, <2>1, <2>2 DEF CallRecords, SameRetries, SameHost
    <2> QED
      BY <1>6, <1>8, <1>10, <2>1, <2>2, <2>3, <2>4, <2>5 DEF SameRule, SameRetries, SameHost
  <1>11. \/ \E o \in {"ok", "negative", "err", "trap"} :
                /\ o = outcome \/ o = "err"
                /\ Set(t, [call[t] EXCEPT !.pc = "returned", !.outcome = o, !.steps = <<>>])
         \/ call[t].pages < MaxPages /\ Set(t, [c EXCEPT !.pages = @ + 1])
         \/ Len(call[t].todo) > 1 /\ Set(t, [c EXCEPT !.todo = Tail(@)])
    BY Zenon, <1>4, <1>7 DEF Decode, NextCall
  <1> QED
    BY <1>5, <1>9, <1>10, <1>11

-----------------------------------------------------------------------------
(* The inductive invariant: per call, what the stages, the tables and the  *)
(* shared selector have established.                                       *)
THEOREM Invariance == Spec => []IInv
  <1>1. Init => IInv
    <2> SUFFICES ASSUME Init PROVE IInv
      OBVIOUS
    <2>1. node \in 0 .. Nodes - 1 /\ deployment \in Deployments /\ stamp \in {"none", "fresh", "old"}
      BY HostCallAssumption DEF Init
    <2>2. jar \in [cs : BOOLEAN, session : BOOLEAN]
      BY Zenon DEF Init
    <2>3. call \in [Threads -> CallRecords] /\ \A t \in Threads : call[t] = NoCall
      BY Zenon, NoCallType DEF Init
    <2>4. \A t \in Threads : CallInv(call[t], node, deployment.selection)
      BY <2>1, <2>3, NoCallInv
    <2> QED
      BY <2>1, <2>2, <2>3, <2>4 DEF IInv, TypeOK
  <1>2. IInv /\ [Next]_vars => IInv'
    <2> SUFFICES ASSUME IInv, [Next]_vars PROVE IInv'
      OBVIOUS
    <2>1. CASE TwoMinutes
      BY <2>1 DEF TwoMinutes, IInv, TypeOK
    <2>2. ASSUME NEW t \in Threads, Call(t) \/ Step(t)
          PROVE  IInv'
      BY <2>2, CallKeeps, EnterKeeps, CheckKeeps, ExchangeKeeps, ComputeKeeps, RpcSelectKeeps, RpcAnswerKeeps,
         LoginStartKeeps, LoginGetKeeps, LoginPostKeeps, CsrfKeeps, ListKeeps, FinishKeeps, DecodeKeeps, ResumeKeeps
         DEF Step
    <2>3. CASE UNCHANGED vars
      BY <2>3 DEF vars, IInv, TypeOK
    <2> QED
      BY <2>1, <2>2, <2>3 DEF Next
  <1> QED
    BY <1>1, <1>2, PTL DEF Spec

(* Every record of a call stays within its fields' values, and the         *)
(* selector within the nodes (TypeOK).                                     *)
THEOREM TypeCorrectness == Spec => []TypeOK
  <1>1. IInv => TypeOK
    BY DEF IInv
  <1> QED
    BY <1>1, Invariance, PTL

(* Whatever refuses a host function (the runtime, test mode, the API's     *)
(* checks early or late) finds that no service was asked for a change.     *)
THEOREM RefusalsAreClean == Spec => []RefusedIsUntouched
  <1>1. IInv => RefusedIsUntouched
    <2> SUFFICES ASSUME IInv, NEW t \in Threads,
                        call[t].refused \/ call[t].host \in {"ApiNotConfigured", "ParametersNotUtf8", "TestMode"}
                 PROVE  call[t].sent \cap Mutating = {}
      BY DEF RefusedIsUntouched
    <2>1. call[t].refused \in BOOLEAN
      BY Zenon, OwnCall DEF CallRecords
    <2> QED
      BY <2>1, OwnCall DEF CallInv, Untouched, Refusing
  <1> QED
    BY <1>1, Invariance, PTL

(* A JSON-RPC call that nobody disturbed gives up only after it tried      *)
(* every node of the chain.                                                *)
THEOREM TriesEveryNode == Spec => []GivesUpAfterAllNodes
  <1>1. IInv => GivesUpAfterAllNodes
    <2> SUFFICES ASSUME IInv, NEW t \in Threads, call[t].exhausted, deployment.selection = "RoundRobin",
                        ~call[t].disturbed, MaxRetries >= Nodes
                 PROVE  call[t].tried = 0 .. Nodes - 1
      BY DEF GivesUpAfterAllNodes
    <2>1. call[t].exhausted \in BOOLEAN /\ call[t].disturbed \in BOOLEAN /\ call[t].tried \in SUBSET (0 .. Nodes - 1)
      BY Zenon, OwnCall DEF CallRecords
    <2>2. call[t].exhausted = TRUE /\ call[t].disturbed = FALSE
      BY Zenon, <2>1
    <2>3. call[t].tries = MaxRetries /\ \A x \in 0 .. Nodes - 1 : Behind(x, node) <= call[t].tries => x \in call[t].tried
      BY <2>2, OwnCall DEF CallInv, Rotating
    <2>4. \A x \in 0 .. Nodes - 1 : Behind(x, node) <= Nodes
      BY HostCallAssumption DEF Behind, IInv, TypeOK
    <2>5. \A x \in 0 .. Nodes - 1 : Behind(x, node) \in Int
      BY HostCallAssumption DEF Behind, IInv, TypeOK
    <2>6. \A x \in 0 .. Nodes - 1 : x \in call[t].tried
      BY <2>3, <2>4, <2>5, HostCallAssumption
    <2> QED
      BY <2>1, <2>6
  <1> QED
    BY <1>1, Invariance, PTL
=============================================================================

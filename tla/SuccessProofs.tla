---------------------------- MODULE SuccessProofs ----------------------------
(***************************************************************************)
(* The proof that the success of a library function means that every       *)
(* change it asked for was acknowledged (HostCall's OkIsAcknowledged), for *)
(* any threads, library functions, services, nodes and retries.  It rests  *)
(* on the rules that the tables of the APIs and of the library keep to     *)
(* (ConfirmationAssumption, which TLC evaluates on the tables): each says  *)
(* something of one request and of what one result means.  That they are   *)
(* enough through retries, pages and several host functions is proved here.*)
(***************************************************************************)
EXTENDS HostCallProofs

(* A library function whose results confirm its changes. *)
Confirmed(fn) == \A i \in DOMAIN fn : \A plan \in OperationOf[fn[i].name].plans : Confirms(plan, fn[i].result)

Result(c) == Head(c.todo).result

(* The result is one that the library does not take for success. *)
Hopeless(c) ==
    /\ Result(c) \notin {"member", "otp"}
    /\ \/ c.host \in FunctionErrors
       \/ c.host = "no" /\ Result(c) \notin {"unit", "report", "rpc"}
       \/ c.good = FALSE /\ Result(c) \in {"json", "trap", "report", "rpc"}

Known(c) == c.pc \in InCall => Confirmed(c.fn)
Planned(c) == c.pc = "run" => Confirms(c.steps, Result(c))

(* A change that was not acknowledged ends the host function, and then the *)
(* library function, without success.                                      *)
Told(c) ==
    c.unacked = TRUE =>
        \/ c.pc \in {"finish", "decode"} /\ Hopeless(c)
        \/ c.pc = "returned" /\ c.outcome # "ok"

AckInv(c) == ~UsesAny(c, Unconfirmed) => Known(c) /\ Planned(c) /\ Told(c)

SInv == IInv /\ \A t \in Threads : AckInv(call[t])

-----------------------------------------------------------------------------
(* What is left of a plan whose results confirm its changes does too. *)
LEMMA ConfirmsRest ==
    ASSUME NEW plan \in Seq(Requests), plan # <<>>, NEW result, Confirms(plan, result)
    PROVE  Confirms(Tail(plan), result)
  <1>1. Len(plan) \in Nat \ {0} /\ DOMAIN plan = 1 .. Len(plan)
    BY EmptySeq, LenProperties
  <1>2. /\ Tail(plan) \in Seq(Requests) /\ Len(Tail(plan)) = Len(plan) - 1
        /\ \A i \in 1 .. Len(Tail(plan)) : Tail(plan)[i] = plan[i + 1]
    BY HeadTailProperties
  <1>3. DOMAIN Tail(plan) = 1 .. Len(plan) - 1
    BY <1>2, LenProperties
  <1>4. PICK rest : rest = Tail(plan)
    OBVIOUS
  <1>5. /\ DOMAIN rest = 1 .. Len(plan) - 1 /\ Len(rest) = Len(plan) - 1
        /\ \A i \in DOMAIN rest : i + 1 \in DOMAIN plan /\ rest[i] = plan[i + 1]
    BY <1>1, <1>2, <1>3, <1>4
  <1>6. ASSUME NEW i \in DOMAIN rest, rest[i].verb \in Mutating
        PROVE  /\ result \notin {"member", "otp"}
               /\ rest[i].ok \subseteq Done
               /\ rest[i].other # {} => result \notin {"unit", "report", "rpc"}
               /\ rest[i].verb = "RPC_SEND" \/ rest[i].body = "report" =>
                    i = Len(rest) /\ result \in {"json", "trap", "report", "rpc"}
    <2>1. i + 1 \in DOMAIN plan /\ rest[i] = plan[i + 1] /\ (i + 1 = Len(plan) => i = Len(rest))
      BY <1>1, <1>5
    <2> QED
      BY <1>6, <2>1 DEF Confirms
  <1> QED
    BY <1>4, <1>6 DEF Confirms

(* What the plan's rules say of the request that is next. *)
LEMMA NextRequest ==
    ASSUME NEW n, NEW selection, NEW c \in CallRecords, CallInv(c, n, selection), c.pc = "run", AckInv(c),
           ~UsesAny(c, Unconfirmed), Head(c.steps).verb \in Mutating
    PROVE  /\ Result(c) \notin {"member", "otp"}
           /\ Head(c.steps).ok \subseteq Done
           /\ Head(c.steps).other # {} => Result(c) \notin {"unit", "report", "rpc"}
           /\ Head(c.steps).verb = "RPC_SEND" \/ Head(c.steps).body = "report" =>
                Len(c.steps) = 1 /\ Result(c) \in {"json", "trap", "report", "rpc"}
  <1>1. c.steps \in Seq(Requests) /\ c.steps # <<>>
    BY DEF CallRecords, CallInv, Staged
  <1>2. 1 \in DOMAIN c.steps /\ Head(c.steps) = c.steps[1]
    BY Zenon, <1>1, SequenceFacts
  <1>3. Confirms(c.steps, Result(c))
    BY DEF AckInv, Planned
  <1> QED
    BY <1>2, <1>3 DEF Confirms

-----------------------------------------------------------------------------
(* The fields of a call that AckInv speaks of. *)
SameAck(c, d) ==
    /\ d.fn = c.fn /\ d.todo = c.todo /\ d.pc = c.pc /\ d.steps = c.steps /\ d.host = c.host
    /\ d.good = c.good /\ d.unacked = c.unacked /\ d.outcome = c.outcome

LEMMA AckSame ==
    ASSUME NEW c, NEW d, SameAck(c, d), AckInv(c)
    PROVE  AckInv(d)
  <1>1. UsesAny(d, Unconfirmed) <=> UsesAny(c, Unconfirmed)
    BY DEF SameAck, UsesAny
  <1>2. (Known(c) => Known(d)) /\ (Planned(c) => Planned(d)) /\ (Told(c) => Told(d))
    BY DEF SameAck, Known, Planned, Told, Hopeless, Result
  <1> QED
    BY <1>1, <1>2 DEF AckInv

(* A host function that ends: what it leaves unacknowledged, its result    *)
(* must tell.                                                              *)
LEMMA AckEnds ==
    ASSUME NEW c, AckInv(c), c.pc \in {"enter", "check", "run"},
           NEW d, d.fn = c.fn, d.pc \in {"finish", "decode"},
           UsesAny(c, Unconfirmed) \/ d.unacked = c.unacked \/ Hopeless(d)
    PROVE  AckInv(d)
  <1>1. UsesAny(d, Unconfirmed) <=> UsesAny(c, Unconfirmed)
    BY DEF UsesAny
  <1>2. Planned(d) /\ (Known(c) => Known(d))
    BY DEF Planned, Known, InCall
  <1>3. Told(c) => c.unacked # TRUE
    BY DEF Told
  <1> QED
    BY <1>1, <1>2, <1>3 DEF AckInv, Told

(* A host function that goes on: nothing is left unacknowledged. *)
LEMMA AckGoesOn ==
    ASSUME NEW c, AckInv(c), c.pc \in {"enter", "check", "run"},
           NEW d, d.fn = c.fn, d.pc \in {"enter", "check", "run"},
           UsesAny(c, Unconfirmed) \/ (d.unacked = c.unacked /\ Planned(d))
    PROVE  AckInv(d)
  <1>1. UsesAny(d, Unconfirmed) <=> UsesAny(c, Unconfirmed)
    BY DEF UsesAny
  <1>2. (Known(c) => Known(d)) /\ (Told(c) => c.unacked # TRUE)
    BY DEF Known, InCall, Told
  <1> QED
    BY <1>1, <1>2 DEF AckInv, Told

(* What may come of a request that has its answer, and what the answer has *)
(* to be if it acknowledges no change.                                     *)
LEMMA AckOutcomes ==
    ASSUME NEW n, NEW selection, NEW c \in CallRecords, CallInv(c, n, selection), c.pc = "run", AckInv(c),
           NEW y, After(c, y)
    PROVE  /\ UsesAny(c, Unconfirmed) \/ y.unacked = c.unacked \/ Result(c) \notin {"member", "otp"}
              => AckInv(Fail(y, "InternalApiError"))
           /\ \/ UsesAny(c, Unconfirmed) \/ y.unacked = c.unacked
              \/ Result(c) \notin {"member", "otp", "unit", "report", "rpc"}
              => AckInv(Answer(y, "no"))
           /\ \/ UsesAny(c, Unconfirmed) \/ y.unacked = c.unacked
              \/ Len(c.steps) = 1 /\ y.good = FALSE /\ Result(c) \in {"json", "trap", "report", "rpc"}
              => AckInv(Advance(y))
           /\ UsesAny(c, Unconfirmed) \/ y.unacked = c.unacked => AckInv(y)
  <1>1. y \in CallRecords /\ y.fn = c.fn /\ y.todo = c.todo /\ y.pc = "run" /\ y.steps = c.steps /\ Result(y) = Result(c)
    BY DEF After, SameRule, Result
  <1>2. c.steps \in Seq(Requests) /\ c.steps # <<>>
    BY DEF CallRecords, CallInv, Staged
  <1>3. ~UsesAny(c, Unconfirmed) => Confirms(c.steps, Result(c)) /\ Confirms(Tail(c.steps), Result(c))
    BY <1>2, ConfirmsRest DEF AckInv, Planned
  <1>4. ASSUME UsesAny(c, Unconfirmed) \/ y.unacked = c.unacked \/ Result(c) \notin {"member", "otp"}
        PROVE  AckInv(Fail(y, "InternalApiError"))
    <2>1. PICK d : d = Fail(y, "InternalApiError")
      OBVIOUS
    <2>2. "InternalApiError" \in FunctionErrors
      BY DEF FunctionErrors
    <2>3. d.pc = "decode" /\ d.host = "InternalApiError" /\ SameRule(y, d) /\ SameBody(y, d)
      BY <1>1, <2>1, <2>2, FailEffect
    <2>4. Result(d) = Result(c) /\ d.fn = c.fn /\ d.unacked = y.unacked
      BY <1>1, <2>3 DEF Result, SameRule, SameBody
    <2>5. Result(c) \notin {"member", "otp"} => Hopeless(d)
      BY <2>2, <2>3, <2>4 DEF Hopeless
    <2>6. AckInv(d)
      BY <1>4, <2>3, <2>4, <2>5, AckEnds
    <2> QED
      BY <2>1, <2>6
  <1>5. ASSUME \/ UsesAny(c, Unconfirmed) \/ y.unacked = c.unacked
               \/ Result(c) \notin {"member", "otp", "unit", "report", "rpc"}
        PROVE  AckInv(Answer(y, "no"))
    <2>1. PICK d : d = Answer(y, "no")
      OBVIOUS
    <2>2. d.pc = "finish" /\ d.host = "no" /\ SameRule(y, d) /\ SameBody(y, d)
      BY <1>1, <2>1, AnswerEffect
    <2>3. Result(d) = Result(c) /\ d.fn = c.fn /\ d.unacked = y.unacked
      BY <1>1, <2>2 DEF Result, SameRule, SameBody
    <2>4. Result(c) \notin {"member", "otp", "unit", "report", "rpc"} => Hopeless(d)
      BY <2>2, <2>3 DEF Hopeless
    <2>5. AckInv(d)
      BY <1>5, <2>2, <2>3, <2>4, AckEnds
    <2> QED
      BY <2>1, <2>5
  <1>6. ASSUME \/ UsesAny(c, Unconfirmed) \/ y.unacked = c.unacked
               \/ Len(c.steps) = 1 /\ y.good = FALSE /\ Result(c) \in {"json", "trap", "report", "rpc"}
        PROVE  AckInv(Advance(y))
    <2>1. PICK d : d = Advance(y)
      OBVIOUS
    <2>2. /\ SameRule(y, d) /\ SameBody(y, d)
          /\ \/ d.pc = "finish" /\ d.host = "yes" /\ Len(y.steps) = 1
             \/ d.pc = "run" /\ d.host = y.host /\ d.steps = Tail(y.steps) /\ d.steps # <<>>
      BY <1>1, <1>2, <2>1, AdvanceEffect, HostCallAssumption
    <2>3. Result(d) = Result(c) /\ d.fn = c.fn /\ d.unacked = y.unacked /\ d.good = y.good
      BY <1>1, <2>2 DEF Result, SameRule, SameBody
    <2>4. CASE d.pc = "finish"
      <3>1. y.good = FALSE /\ Result(c) \in {"json", "trap", "report", "rpc"} => Hopeless(d)
        BY <2>3 DEF Hopeless
      <3>2. AckInv(d)
        BY <1>6, <2>3, <2>4, <3>1, AckEnds
      <3> QED
        BY <2>1, <3>2
    <2>5. CASE d.pc = "run" /\ d.steps = Tail(y.steps) /\ d.steps # <<>>
      <3>1. Len(c.steps) # 1
        <4>1. Len(Tail(c.steps)) = Len(c.steps) - 1 /\ Tail(c.steps) \in Seq(Requests)
          BY Zenon, <1>2, HeadTailProperties
        <4>2. Len(Tail(c.steps)) # 0
          BY <1>1, <2>5, <4>1, EmptySeq
        <4> QED
          BY <4>1, <4>2
      <3>2. UsesAny(c, Unconfirmed) \/ (d.unacked = c.unacked /\ Planned(d))
        BY <1>1, <1>3, <1>6, <2>3, <2>5, <3>1 DEF Planned
      <3>3. AckInv(d)
        BY <2>3, <2>5, <3>2, AckGoesOn
      <3> QED
        BY <2>1, <3>3
    <2> QED
      BY <2>2, <2>4, <2>5
  <1>7. ASSUME UsesAny(c, Unconfirmed) \/ y.unacked = c.unacked
        PROVE  AckInv(y)
    <2>1. UsesAny(c, Unconfirmed) \/ (y.unacked = c.unacked /\ Planned(y))
      BY <1>1, <1>3, <1>7 DEF Planned
    <2> QED
      BY <1>1, <2>1, AckGoesOn
  <1> QED
    BY <1>4, <1>5, <1>6, <1>7

-----------------------------------------------------------------------------
(* The step of one thread. *)
LEMMA OneAck ==
    ASSUME SInv, IInv', NEW t \in Threads, NEW d, AckInv(d), Set(t, d)
    PROVE  SInv'
  <1>1. call \in [Threads -> CallRecords] /\ call' = [call EXCEPT ![t] = d]
    BY DEF SInv, IInv, TypeOK, Set
  <1>2. ASSUME NEW u \in Threads
        PROVE  AckInv(call'[u])
    <2>1. CASE u = t
      <3>1. call'[u] = d
        BY Zenon, <1>1, <2>1
      <3> QED
        BY <3>1
    <2>2. CASE u # t
      <3>1. call'[u] = call[u]
        BY Zenon, <1>1, <2>2
      <3> QED
        BY <3>1 DEF SInv
    <2> QED
      BY <2>1, <2>2
  <1> QED
    BY <1>2 DEF SInv

LEMMA OwnAck ==
    ASSUME SInv, NEW t \in Threads
    PROVE  IInv /\ call[t] \in CallRecords /\ CallInv(call[t], node, deployment.selection) /\ AckInv(call[t])
  BY OwnCall DEF SInv

LEMMA NoCallAck == AckInv(NoCall)
  <1>1. PICK d : d = NoCall
    OBVIOUS
  <1>2. d.pc = "idle" /\ d.unacked = FALSE
    BY Zenon, <1>1 DEF NoCall
  <1> QED
    BY <1>1, <1>2 DEF AckInv, Known, Planned, Told, InCall

LEMMA CallAck ==
    ASSUME SInv, IInv', NEW t \in Threads, Call(t)
    PROVE  SInv'
  <1>1. PICK fn \in deployment.uses[t], test \in deployment.modes :
            Set(t, IF link_functions_to_module({fn[i].name : i \in DOMAIN fn})
                   THEN [NoCall EXCEPT !.pc = "enter", !.fn = fn, !.todo = fn, !.test = test]
                   ELSE [NoCall EXCEPT !.pc = "returned", !.fn = fn, !.outcome = "unlinked"])
    BY Zenon DEF Call
  <1>2. deployment \in Deployments
    BY DEF SInv, IInv, TypeOK
  <1>3. CASE link_functions_to_module({fn[i].name : i \in DOMAIN fn})
    <2>1. PICK d : d = [NoCall EXCEPT !.pc = "enter", !.fn = fn, !.todo = fn, !.test = test]
      OBVIOUS
    <2>2. d.pc = "enter" /\ d.fn = fn /\ d.unacked = FALSE
      BY Zenon, <2>1 DEF NoCall
    <2>3. \A j \in DOMAIN fn : fn[j].name \in DOMAIN FunctionOf
      BY <1>3 DEF link_functions_to_module, FunctionOf
    <2>4. ~UsesAny(d, Unconfirmed) => Known(d)
      BY Zenon, <1>2, <2>2, <2>3, ConfirmationAssumption DEF UsesAny, Known, Confirmed
    <2>5. AckInv(d)
      BY <2>2, <2>4 DEF AckInv, Planned, Told
    <2>6. Set(t, d)
      BY Zenon, <1>1, <1>3, <2>1
    <2> QED
      BY <2>5, <2>6, OneAck
  <1>4. CASE ~link_functions_to_module({fn[i].name : i \in DOMAIN fn})
    <2>1. PICK d : d = [NoCall EXCEPT !.pc = "returned", !.fn = fn, !.outcome = "unlinked"]
      OBVIOUS
    <2>2. d.pc = "returned" /\ d.unacked = FALSE
      BY Zenon, <2>1 DEF NoCall
    <2>3. AckInv(d)
      BY <2>2 DEF AckInv, Known, Planned, Told, InCall
    <2>4. Set(t, d)
      BY Zenon, <1>1, <1>4, <2>1
    <2> QED
      BY <2>3, <2>4, OneAck
  <1> QED
    BY <1>3, <1>4

LEMMA ResumeAck ==
    ASSUME SInv, IInv', NEW t \in Threads, Resume(t)
    PROVE  SInv'
  BY NoCallAck, OneAck DEF Resume

LEMMA EnterAck ==
    ASSUME SInv, IInv', NEW t \in Threads, Enter(t)
    PROVE  SInv'
  <1>1. PICK c : c = [call[t] EXCEPT !.sent = {}, !.refused = FALSE, !.tried = {}, !.tries = 0, !.exhausted = FALSE]
    OBVIOUS
  <1>2. call[t].pc = "enter" /\ call[t] \in CallRecords /\ AckInv(call[t])
    BY OwnAck DEF Enter
  <1>3. c \in CallRecords
    <2>1. 0 \in 0 .. MaxRetries /\ {} \in SUBSET SentVerbs /\ {} \in SUBSET (0 .. Nodes - 1)
      BY HostCallAssumption
    <2> QED
      BY Zenon, <1>1, <1>2, <2>1 DEF CallRecords
  <1>4. c.fn = call[t].fn /\ c.unacked = call[t].unacked
    BY Zenon, <1>1, <1>2 DEF CallRecords
  <1>5. ASSUME NEW e \in FunctionErrors, Set(t, Fail(c, e))
        PROVE  SInv'
    <2>1. PICK d : d = Fail(c, e)
      OBVIOUS
    <2>2. d.pc = "decode" /\ d.fn = c.fn /\ d.unacked = c.unacked
      BY <1>3, <2>1, FailEffect DEF SameRule, SameBody
    <2>3. AckInv(d)
      BY <1>2, <1>4, <2>2, AckEnds
    <2> QED
      BY <1>5, <2>1, <2>3, OneAck
  <1>6. ASSUME Set(t, [c EXCEPT !.pc = "check"])
        PROVE  SInv'
    <2>1. PICK d : d = [c EXCEPT !.pc = "check"]
      OBVIOUS
    <2>2. d.pc = "check" /\ d.fn = c.fn /\ d.unacked = c.unacked
      BY Zenon, <1>3, <2>1 DEF CallRecords
    <2>3. Planned(d)
      BY <2>2 DEF Planned
    <2>4. AckInv(d)
      BY <1>2, <1>4, <2>2, <2>3, AckGoesOn
    <2> QED
      BY <1>6, <2>1, <2>4, OneAck
  <1>7. (\E e \in FunctionErrors : Set(t, Fail(c, e))) \/ Set(t, [c EXCEPT !.pc = "check"])
    BY Zenon, <1>1 DEF Enter, FunctionErrors
  <1> QED
    BY <1>5, <1>6, <1>7

LEMMA CheckAck ==
    ASSUME SInv, IInv', NEW t \in Threads, Check(t)
    PROVE  SInv'
  <1>1. PICK y : y = [call[t] EXCEPT !.refused = TRUE]
    OBVIOUS
  <1>2. call[t].pc = "check" /\ call[t] \in CallRecords /\ AckInv(call[t]) /\ IInv
    BY OwnAck DEF Check
  <1>3. y \in CallRecords /\ y.fn = call[t].fn /\ y.unacked = call[t].unacked
    BY Zenon, <1>1, <1>2 DEF CallRecords
  <1>4. ASSUME NEW e \in FunctionErrors, Set(t, Fail(y, e))
        PROVE  SInv'
    <2>1. PICK d : d = Fail(y, e)
      OBVIOUS
    <2>2. d.pc = "decode" /\ d.fn = y.fn /\ d.unacked = y.unacked
      BY <1>3, <2>1, FailEffect DEF SameRule, SameBody
    <2>3. AckInv(d)
      BY <1>2, <1>3, <2>2, AckEnds
    <2> QED
      BY <1>4, <2>1, <2>3, OneAck
  <1>5. ASSUME Set(t, Answer(y, "no"))
        PROVE  SInv'
    <2>1. PICK d : d = Answer(y, "no")
      OBVIOUS
    <2>2. d.pc = "finish" /\ d.fn = y.fn /\ d.unacked = y.unacked
      BY <1>3, <2>1, AnswerEffect DEF SameRule, SameBody
    <2>3. AckInv(d)
      BY <1>2, <1>3, <2>2, AckEnds
    <2> QED
      BY <1>5, <2>1, <2>3, OneAck
  <1>6. ASSUME NEW plan \in OperationOf[name(t)].plans, Set(t, [call[t] EXCEPT !.pc = "run", !.steps = plan])
        PROVE  SInv'
    <2>1. PICK d : d = [call[t] EXCEPT !.pc = "run", !.steps = plan]
      OBVIOUS
    <2>2. /\ d.pc = "run" /\ d.steps = plan /\ d.fn = call[t].fn /\ d.todo = call[t].todo
          /\ d.unacked = call[t].unacked
      BY Zenon, <1>2, <2>1 DEF CallRecords
    <2>3. UsesAny(call[t], Unconfirmed) \/ Confirmed(call[t].fn)
      BY <1>2 DEF AckInv, Known, InCall
    <2>4. Confirmed(call[t].fn) => Confirms(plan, Result(call[t]))
      <3>1. PICK j \in DOMAIN call[t].fn : Head(call[t].todo) = call[t].fn[j]
        BY <1>2, NextIsLinked DEF InCall
      <3>2. name(t) = call[t].fn[j].name /\ Result(call[t]) = call[t].fn[j].result
        BY Zenon, <3>1 DEF name, Result
      <3> QED
        BY Zenon, <3>2 DEF Confirmed
    <2>5. UsesAny(call[t], Unconfirmed) \/ (d.unacked = call[t].unacked /\ Planned(d))
      BY <2>2, <2>3, <2>4 DEF Planned, Result
    <2>6. AckInv(d)
      BY <1>2, <2>2, <2>5, AckGoesOn
    <2> QED
      BY <1>6, <2>1, <2>6, OneAck
  <1>7. \/ \E e \in FunctionErrors : Set(t, Fail(y, e))
        \/ Set(t, Answer(y, "no"))
        \/ \E plan \in OperationOf[name(t)].plans : Set(t, [call[t] EXCEPT !.pc = "run", !.steps = plan])
    <2>1. "InternalApiError" \in FunctionErrors /\ "TestMode" \in FunctionErrors
      BY DEF FunctionErrors
    <2> QED
      BY Zenon, <1>1, <2>1 DEF Check
  <1> QED
    BY <1>4, <1>5, <1>6, <1>7

-----------------------------------------------------------------------------
LEMMA RunningAck ==
    ASSUME SInv, NEW t \in Threads, NEW verbs, Running(t, verbs)
    PROVE  /\ call[t] \in CallRecords /\ CallInv(call[t], node, deployment.selection) /\ AckInv(call[t])
           /\ call[t].pc = "run" /\ step(t).verb \in verbs /\ step(t) = Head(call[t].steps)
           /\ verbs \cap RpcVerbs = {} => call[t].at = None
  BY RunningCall DEF SInv

(* An answer that acknowledges no change and yet lets the host function go *)
(* on is a report that says no.                                            *)
LEMMA GoesOnUnacknowledged ==
    ASSUME NEW r, NEW s, NEW good \in BOOLEAN, ~Acknowledged(r, s, good), s \in r.ok, r.ok \subseteq Done,
           r.body \in {"decoded", "flag"} => good
    PROVE  r.body = "report" /\ ~good
  BY DEF Acknowledged

LEMMA ExchangeAck ==
    ASSUME SInv, IInv', NEW t \in Threads, Exchange(t)
    PROVE  SInv'
  <1> DEFINE r == step(t)
             Left(s, good) == r.verb \in Mutating /\ ~Acknowledged(r, s, good)
  <1>1. Running(t, {"GET", "QUERY", "POST", "PUT", "PATCH", "DELETE"})
    BY DEF Exchange
  <1>2. /\ call[t] \in CallRecords /\ CallInv(call[t], node, deployment.selection) /\ AckInv(call[t])
        /\ call[t].pc = "run" /\ call[t].at = None /\ r = Head(call[t].steps) /\ r.verb \in SentVerbs
    BY <1>1, RunningAck DEF RpcVerbs, SentVerbs, Mutating
  <1>3. PICK s \in Statuses \cup {Lost}, good \in BOOLEAN :
            LET c == [call[t] EXCEPT !.sent = @ \cup {r.verb}, !.unacked = @ \/ Left(s, good)]
            IN \/ s \notin r.ok \cup r.other /\ Set(t, Fail(c, "InternalApiError"))
               \/ s \in r.other /\ Set(t, Answer(c, "no"))
               \/ s \in r.ok /\ r.body \in {"decoded", "flag"} /\ ~good /\ Set(t, Fail(c, "InternalApiError"))
               \/ /\ s \in r.ok
                  /\ r.body \in {"decoded", "flag"} => good
                  /\ Set(t, Advance([c EXCEPT !.good = good \/ r.body \notin {"read", "report"}]))
               \/ /\ s \in r.ok /\ r.paged /\ good /\ c.page < MaxPages
                  /\ Set(t, [c EXCEPT !.page = @ + 1])
    BY Zenon DEF Exchange
  <1>4. PICK b \in BOOLEAN : b = (call[t].unacked \/ Left(s, good))
    BY Zenon
  <1>5. PICK c : c = [call[t] EXCEPT !.sent = @ \cup {r.verb}, !.unacked = b]
    OBVIOUS
  <1>6. PICK g \in BOOLEAN : g = (good \/ r.body \notin {"read", "report"})
    BY Zenon
  <1>7. PICK y : y = [c EXCEPT !.good = g]
    OBVIOUS
  <1>8. PICK p : p = [c EXCEPT !.page = @ + 1]
    OBVIOUS
  <1>9. After(call[t], c) /\ c \in CallRecords /\ c.unacked = b
    <2>1. PICK x : x = [call[t] EXCEPT !.sent = @ \cup {r.verb}]
      OBVIOUS
    <2>2. After(call[t], x) /\ x \in CallRecords
      BY <1>2, <2>1, SentAfter DEF After
    <2>3. c = [x EXCEPT !.unacked = b]
      BY Zenon, <1>2, <1>5, <2>1 DEF CallRecords
    <2>4. c \in CallRecords /\ Same(x, c) /\ c.unacked = b
      BY Zenon, <2>2, <2>3 DEF CallRecords, Same, SameRule, SameRetries, SameHost
    <2> QED
      BY <2>2, <2>4, SameAfter
  <1>10. After(call[t], y) /\ y.unacked = b /\ y.good = g
    <2>1. y \in CallRecords /\ Same(c, y) /\ y.unacked = c.unacked /\ y.good = g
      BY Zenon, <1>7, <1>9 DEF CallRecords, Same, SameRule, SameRetries, SameHost
    <2> QED
      BY <1>9, <2>1, SameAfter
  <1>11. ASSUME c.page < MaxPages
         PROVE  After(call[t], p) /\ p.unacked = b
    <2>1. c.page \in 0 .. MaxPages
      BY Zenon, <1>9 DEF CallRecords
    <2>2. c.page + 1 \in 0 .. MaxPages
      BY <1>11, <2>1, HostCallAssumption
    <2>3. p \in CallRecords /\ Same(c, p) /\ p.unacked = c.unacked
      BY Zenon, <1>8, <1>9, <2>2 DEF CallRecords, Same, SameRule, SameRetries, SameHost
    <2> QED
      BY <1>9, <2>3, SameAfter
  <1>12. \/ Set(t, Fail(c, "InternalApiError"))
         \/ s \in r.other /\ Set(t, Answer(c, "no"))
         \/ s \in r.ok /\ (r.body \in {"decoded", "flag"} => good) /\ Set(t, Advance(y))
         \/ s \in r.ok /\ good /\ c.page < MaxPages /\ Set(t, p)
    <2>1. c = [call[t] EXCEPT !.sent = @ \cup {r.verb}, !.unacked = @ \/ Left(s, good)]
      BY Zenon, <1>2, <1>4, <1>5 DEF CallRecords
    <2>2. y = [c EXCEPT !.good = good \/ r.body \notin {"read", "report"}]
      BY Zenon, <1>6, <1>7
    <2> QED
      BY Zenon, <1>3, <1>8, <2>1, <2>2
  <1>13. b = call[t].unacked \/ Left(s, good)
    <2>1. call[t].unacked \in BOOLEAN
      BY Zenon, <1>2 DEF CallRecords
    <2> QED
      BY Zenon, <1>4, <2>1
  <1>14. ~UsesAny(call[t], Unconfirmed) /\ r.verb \in Mutating =>
            /\ Result(call[t]) \notin {"member", "otp"}
            /\ r.ok \subseteq Done
            /\ r.other # {} => Result(call[t]) \notin {"unit", "report", "rpc"}
            /\ r.body = "report" => Len(call[t].steps) = 1 /\ Result(call[t]) \in {"json", "trap", "report", "rpc"}
    BY <1>2, NextRequest
  <1> HIDE DEF r
  <1>15. CASE Set(t, Fail(c, "InternalApiError"))
    <2>1. UsesAny(call[t], Unconfirmed) \/ c.unacked = call[t].unacked \/ Result(call[t]) \notin {"member", "otp"}
      BY Zenon, <1>9, <1>13, <1>14
    <2>2. AckInv(Fail(c, "InternalApiError"))
      BY <1>2, <1>9, <2>1, AckOutcomes
    <2> QED
      BY <1>15, <2>2, OneAck
  <1>16. CASE s \in r.other /\ Set(t, Answer(c, "no"))
    <2>1. \/ UsesAny(call[t], Unconfirmed) \/ c.unacked = call[t].unacked
          \/ Result(call[t]) \notin {"member", "otp", "unit", "report", "rpc"}
      BY <1>9, <1>13, <1>14, <1>16
    <2>2. AckInv(Answer(c, "no"))
      BY <1>2, <1>9, <2>1, AckOutcomes
    <2> QED
      BY <1>16, <2>2, OneAck
  <1>17. CASE s \in r.ok /\ (r.body \in {"decoded", "flag"} => good) /\ Set(t, Advance(y))
    <2>1. Left(s, good) /\ ~UsesAny(call[t], Unconfirmed) => r.body = "report" /\ ~good
      BY Zenon, <1>14, <1>17, GoesOnUnacknowledged
    <2>2. r.body = "report" /\ ~good => g = FALSE
      BY Zenon, <1>6
    <2>3. \/ UsesAny(call[t], Unconfirmed) \/ y.unacked = call[t].unacked
          \/ Len(call[t].steps) = 1 /\ y.good = FALSE /\ Result(call[t]) \in {"json", "trap", "report", "rpc"}
      BY Zenon, <1>10, <1>13, <1>14, <2>1, <2>2
    <2>4. AckInv(Advance(y))
      BY <1>2, <1>10, <2>3, AckOutcomes
    <2> QED
      BY <1>17, <2>4, OneAck
  <1>18. CASE s \in r.ok /\ good /\ c.page < MaxPages /\ Set(t, p)
    <2>1. Left(s, good) => UsesAny(call[t], Unconfirmed)
      BY Zenon, <1>14, <1>18, GoesOnUnacknowledged
    <2>2. After(call[t], p) /\ (UsesAny(call[t], Unconfirmed) \/ p.unacked = call[t].unacked)
      BY <1>11, <1>13, <1>18, <2>1
    <2>3. AckInv(p)
      BY <1>2, <2>2, AckOutcomes
    <2> QED
      BY <1>18, <2>3, OneAck
  <1> QED
    BY <1>12, <1>15, <1>16, <1>17, <1>18

(* The outcomes of a step that asks for no change. *)
LEMMA AnsweredAck ==
    ASSUME SInv, IInv', NEW t \in Threads, call[t].pc = "run",
           NEW y, After(call[t], y), y.unacked = call[t].unacked,
           Set(t, y) \/ Set(t, Fail(y, "InternalApiError")) \/ Set(t, Answer(y, "no")) \/ Set(t, Advance(y))
    PROVE  SInv'
  <1>1. AckInv(y) /\ AckInv(Fail(y, "InternalApiError")) /\ AckInv(Answer(y, "no")) /\ AckInv(Advance(y))
    BY OwnAck, AckOutcomes
  <1> QED
    BY <1>1, OneAck

LEMMA ComputeAck ==
    ASSUME SInv, IInv', NEW t \in Threads, Compute(t)
    PROVE  SInv'
  <1>1. Running(t, {"LOCAL", "VALIDATE"})
    BY DEF Compute
  <1>2. call[t] \in CallRecords /\ AckInv(call[t]) /\ call[t].pc = "run" /\ call[t].at = None
    BY <1>1, RunningAck DEF RpcVerbs
  <1>3. ASSUME Set(t, Advance(call[t]))
        PROVE  SInv'
    BY <1>2, <1>3, ItselfAfter, AnsweredAck
  <1>4. ASSUME Set(t, Fail([call[t] EXCEPT !.refused = step(t).verb = "VALIDATE"], "InternalApiError"))
        PROVE  SInv'
    <2>1. PICK b \in BOOLEAN : b = (step(t).verb = "VALIDATE")
      BY Zenon
    <2>2. PICK y : y = [call[t] EXCEPT !.refused = b]
      OBVIOUS
    <2>3. PICK d : d = Fail(y, "InternalApiError")
      OBVIOUS
    <2>4. Set(t, d)
      BY Zenon, <1>4, <2>1, <2>2, <2>3
    <2>5. y \in CallRecords /\ y.fn = call[t].fn /\ y.unacked = call[t].unacked
      BY Zenon, <1>2, <2>2 DEF CallRecords
    <2>6. "InternalApiError" \in FunctionErrors
      BY DEF FunctionErrors
    <2>7. d.pc = "decode" /\ d.fn = y.fn /\ d.unacked = y.unacked
      BY <2>3, <2>5, <2>6, FailEffect DEF SameRule, SameBody
    <2>8. AckInv(d)
      BY <1>2, <2>5, <2>7, AckEnds
    <2> QED
      BY <2>4, <2>8, OneAck
  <1> QED
    BY <1>3, <1>4 DEF Compute

LEMMA RpcSelectAck ==
    ASSUME SInv, IInv', NEW t \in Threads, RpcSelect(t)
    PROVE  SInv'
  <1> DEFINE given == [call[t] EXCEPT !.exhausted = TRUE, !.unacked = @ \/ step(t).verb \in Mutating]
  <1>1. Running(t, RpcVerbs)
    BY DEF RpcSelect
  <1>2. /\ call[t] \in CallRecords /\ CallInv(call[t], node, deployment.selection) /\ AckInv(call[t])
        /\ call[t].pc = "run" /\ step(t) = Head(call[t].steps)
    BY <1>1, RunningAck
  <1>3. ASSUME NEW n \in select_node, Set(t, [call[t] EXCEPT !.at = n])
        PROVE  SInv'
    <2>1. PICK d : d = [call[t] EXCEPT !.at = n]
      OBVIOUS
    <2>2. SameAck(call[t], d)
      BY Zenon, <1>2, <2>1 DEF CallRecords, SameAck
    <2> QED
      BY <1>2, <1>3, <2>1, <2>2, AckSame, OneAck
  <1>4. ASSUME Set(t, Fail(given, "InternalApiError"))
        PROVE  SInv'
    <2>1. PICK b \in BOOLEAN : b = (call[t].unacked \/ step(t).verb \in Mutating)
      BY Zenon
    <2>2. PICK y : y = [call[t] EXCEPT !.exhausted = TRUE, !.unacked = b]
      OBVIOUS
    <2>3. PICK d : d = Fail(y, "InternalApiError")
      OBVIOUS
    <2>4. y = given
      BY Zenon, <1>2, <2>1, <2>2 DEF CallRecords
    <2>5. y \in CallRecords /\ y.fn = call[t].fn /\ y.todo = call[t].todo /\ y.unacked = b
      BY Zenon, <1>2, <2>2 DEF CallRecords
    <2>6. "InternalApiError" \in FunctionErrors
      BY DEF FunctionErrors
    <2>7. /\ d.pc = "decode" /\ d.host = "InternalApiError" /\ d.fn = call[t].fn /\ d.unacked = b
          /\ Result(d) = Result(call[t])
      BY <2>3, <2>5, <2>6, FailEffect DEF SameRule, SameBody, Result
    <2>8. call[t].unacked \in BOOLEAN
      BY Zenon, <1>2 DEF CallRecords
    <2>9. UsesAny(call[t], Unconfirmed) \/ d.unacked = call[t].unacked \/ Result(d) \notin {"member", "otp"}
      BY Zenon, <1>2, <2>1, <2>7, <2>8, NextRequest
    <2>10. UsesAny(call[t], Unconfirmed) \/ d.unacked = call[t].unacked \/ Hopeless(d)
      BY <2>6, <2>7, <2>9 DEF Hopeless
    <2>11. AckInv(d)
      BY <1>2, <2>7, <2>10, AckEnds
    <2> QED
      BY <1>4, <2>3, <2>4, <2>11, OneAck
  <1> QED
    BY <1>3, <1>4 DEF RpcSelect

(* Another thread's failure marks a call, and changes nothing it claims. *)
LEMMA DisturbedAck ==
    ASSUME NEW c \in CallRecords, AckInv(c), NEW d, d = [c EXCEPT !.disturbed = TRUE]
    PROVE  AckInv(d)
  <1>1. SameAck(c, d)
    BY Zenon DEF CallRecords, SameAck
  <1> QED
    BY <1>1, AckSame

LEMMA RpcAnswerAck ==
    ASSUME SInv, IInv', NEW t \in Threads, RpcAnswer(t)
    PROVE  SInv'
  <1>1. Running(t, RpcVerbs) /\ call[t].at # None
    BY DEF RpcAnswer
  <1>2. /\ call[t] \in CallRecords /\ CallInv(call[t], node, deployment.selection) /\ AckInv(call[t])
        /\ call[t].pc = "run" /\ step(t) = Head(call[t].steps) /\ step(t).verb \in RpcVerbs
    BY <1>1, RunningAck
  <1>3. PICK c : c = [call[t] EXCEPT !.sent = @ \cup {step(t).verb}, !.at = None]
    OBVIOUS
  <1>4. After(call[t], c) /\ c \in CallRecords /\ c.unacked = call[t].unacked
    <2>1. call[t].sent \cup {step(t).verb} \in SUBSET SentVerbs
      <3>1. call[t].sent \in SUBSET SentVerbs
        BY Zenon, <1>2 DEF CallRecords
      <3> QED
        BY <1>2, <3>1 DEF SentVerbs, RpcVerbs, Mutating
    <2>2. c \in CallRecords
      BY Zenon, <1>2, <1>3, <2>1 DEF CallRecords
    <2>3. /\ SameRule(call[t], c) /\ c.pc = call[t].pc /\ c.steps = call[t].steps /\ c.host = call[t].host
          /\ c.refused = call[t].refused /\ c.sent = call[t].sent \cup {step(t).verb} /\ c.at = None
          /\ c.tries = call[t].tries /\ c.tried = call[t].tried /\ c.exhausted = call[t].exhausted
          /\ c.disturbed = call[t].disturbed /\ c.unacked = call[t].unacked
      BY Zenon, <1>2, <1>3 DEF CallRecords, SameRule
    <2> QED
      BY <1>2, <2>2, <2>3 DEF After
  <1>5. PICK b \in BOOLEAN : b = (c.unacked \/ step(t).verb \in Mutating)
    BY Zenon
  <1>6. PICK z : z = [c EXCEPT !.unacked = b]
    OBVIOUS
  <1>7. After(call[t], z) /\ z \in CallRecords /\ z.unacked = b
    <2>1. z \in CallRecords /\ Same(c, z) /\ z.unacked = b
      BY Zenon, <1>4, <1>6 DEF CallRecords, Same, SameRule, SameRetries, SameHost
    <2> QED
      BY <1>4, <2>1, SameAfter
  <1>8. PICK good \in BOOLEAN :
            \/ Set(t, Advance([IF good THEN c ELSE z EXCEPT !.good = good]))
            \/ Set(t, Fail(z, "InternalApiError"))
            \/ mark_current_node_failed(t, [c EXCEPT !.tries = @ + 1, !.tried = @ \cup {call[t].at}])
    <2>1. z = [c EXCEPT !.unacked = @ \/ step(t).verb \in Mutating]
      BY Zenon, <1>5, <1>6
    <2> QED
      BY Zenon, <1>3, <2>1 DEF RpcAnswer
  <1>9. \/ UsesAny(call[t], Unconfirmed) \/ b = call[t].unacked
        \/ /\ Result(call[t]) \notin {"member", "otp"}
           /\ Len(call[t].steps) = 1 /\ Result(call[t]) \in {"json", "trap", "report", "rpc"}
    <2>1. call[t].unacked \in BOOLEAN
      BY Zenon, <1>2 DEF CallRecords
    <2>2. step(t).verb \in Mutating => step(t).verb = "RPC_SEND"
      BY <1>2 DEF RpcVerbs, Mutating
    <2>3. step(t).verb \notin Mutating => b = call[t].unacked
      BY Zenon, <1>4, <1>5, <2>1
    <2> QED
      BY <1>2, <2>2, <2>3, NextRequest
  <1>10. ASSUME Set(t, Advance([IF good THEN c ELSE z EXCEPT !.good = good]))
         PROVE  SInv'
    <2>1. PICK x : x = IF good THEN c ELSE z
      OBVIOUS
    <2>2. PICK y : y = [x EXCEPT !.good = good]
      OBVIOUS
    <2>3. x \in CallRecords /\ After(call[t], x) /\ (x.unacked = call[t].unacked \/ (x.unacked = b /\ good = FALSE))
      BY <1>4, <1>7, <2>1
    <2>4. y \in CallRecords /\ Same(x, y) /\ y.good = good /\ y.unacked = x.unacked
      BY Zenon, <2>2, <2>3 DEF CallRecords, Same, SameRule, SameRetries, SameHost
    <2>5. After(call[t], y)
      BY <2>3, <2>4, SameAfter
    <2>6. AckInv(Advance(y))
      BY <1>2, <1>9, <2>3, <2>4, <2>5, AckOutcomes
    <2>7. Set(t, Advance(y))
      BY <1>10, <2>1, <2>2
    <2> QED
      BY <2>6, <2>7, OneAck
  <1>11. ASSUME Set(t, Fail(z, "InternalApiError"))
         PROVE  SInv'
    <2>1. AckInv(Fail(z, "InternalApiError"))
      BY <1>2, <1>7, <1>9, AckOutcomes
    <2> QED
      BY <1>11, <2>1, OneAck
  <1>12. ASSUME mark_current_node_failed(t, [c EXCEPT !.tries = @ + 1, !.tried = @ \cup {call[t].at}])
         PROVE  SInv'
    <2>1. PICK d : d = [c EXCEPT !.tries = @ + 1, !.tried = @ \cup {call[t].at}]
      OBVIOUS
    <2>2. SameAck(c, d)
      BY Zenon, <1>4, <2>1 DEF CallRecords, SameAck
    <2>3. AckInv(c)
      BY <1>2, <1>4, AckOutcomes
    <2>4. AckInv(d)
      BY <2>2, <2>3, AckSame
    <2>5. CASE deployment.selection = "RoundRobin"
      <3>1. call' = [u \in Threads |->
                    IF u = t THEN d
                    ELSE IF call[u].at # None \/ call[u].tried # {} THEN [call[u] EXCEPT !.disturbed = TRUE] ELSE call[u]]
        BY Zenon, <1>12, <2>1, <2>5 DEF mark_current_node_failed
      <3>2. ASSUME NEW u \in Threads
            PROVE  AckInv(call'[u])
        <4>1. call[u] \in CallRecords /\ AckInv(call[u])
          BY OwnAck
        <4>2. call'[u] = d \/ call'[u] = call[u] \/ call'[u] = [call[u] EXCEPT !.disturbed = TRUE]
          BY Zenon, <3>1
        <4> QED
          BY <2>4, <4>1, <4>2, DisturbedAck
      <3> QED
        BY <3>2 DEF SInv
    <2>6. CASE deployment.selection # "RoundRobin"
      <3>1. Set(t, d)
        BY Zenon, <1>12, <2>1, <2>6 DEF mark_current_node_failed
      <3> QED
        BY <2>4, <3>1, OneAck
    <2> QED
      BY <2>5, <2>6
  <1> QED
    BY <1>8, <1>10, <1>11, <1>12

-----------------------------------------------------------------------------
(* The steps of the npm client that ask for no change. *)
LEMMA LoginAck ==
    ASSUME SInv, IInv', NEW t \in Threads, LoginStart(t) \/ LoginGet(t) \/ LoginPost(t)
    PROVE  SInv'
  <1>1. Running(t, {"LOGIN"})
    BY DEF LoginStart, LoginGet, LoginPost
  <1>2. /\ call[t] \in CallRecords /\ call[t].pc = "run" /\ call[t].at = None
        /\ Head(call[t].steps).verb = "LOGIN" /\ "LOGIN" \in SentVerbs
    BY <1>1, RunningAck DEF RpcVerbs, SentVerbs
  <1>3. PICK y : y = [call[t] EXCEPT !.sent = @ \cup {"LOGIN"}]
    OBVIOUS
  <1>4. \/ Set(t, Answer(call[t], "no")) \/ Set(t, Advance(y))
        \/ \E b \in {"start", "get", "password", "otp"} : Set(t, [call[t] EXCEPT !.sub = b])
    BY Zenon, <1>3 DEF LoginStart, LoginGet, LoginPost
  <1>5. CASE Set(t, Answer(call[t], "no"))
    BY <1>2, <1>5, ItselfAfter, AnsweredAck
  <1>6. CASE Set(t, Advance(y))
    <2>1. After(call[t], y)
      BY <1>2, <1>3, SentAfter
    <2>2. y.unacked = call[t].unacked
      BY Zenon, <1>2, <1>3 DEF CallRecords
    <2> QED
      BY <1>2, <1>6, <2>1, <2>2, AnsweredAck
  <1>7. ASSUME NEW b \in {"start", "get", "password", "otp"}, Set(t, [call[t] EXCEPT !.sub = b])
        PROVE  SInv'
    <2>1. PICK x : x = [call[t] EXCEPT !.sub = b]
      OBVIOUS
    <2>2. After(call[t], x)
      BY <1>2, <2>1, SubAfter
    <2>3. x.unacked = call[t].unacked
      BY Zenon, <1>2, <2>1 DEF CallRecords
    <2> QED
      BY <1>2, <1>7, <2>1, <2>2, <2>3, AnsweredAck
  <1> QED
    BY <1>4, <1>5, <1>6, <1>7

LEMMA CsrfAck ==
    ASSUME SInv, IInv', NEW t \in Threads, get_csrftoken_from_cookies(t)
    PROVE  SInv'
  <1>1. Running(t, {"CSRF"})
    BY DEF get_csrftoken_from_cookies
  <1>2. call[t] \in CallRecords /\ call[t].pc = "run" /\ call[t].at = None
    BY <1>1, RunningAck DEF RpcVerbs
  <1>3. Set(t, Advance(call[t])) \/ Set(t, Fail(call[t], "InternalApiError"))
    BY Zenon DEF get_csrftoken_from_cookies
  <1> QED
    BY <1>2, <1>3, ItselfAfter, AnsweredAck

LEMMA ListAck ==
    ASSUME SInv, IInv', NEW t \in Threads, get_paginated_data_from_npm_website(t)
    PROVE  SInv'
  <1>1. Running(t, {"LIST"})
    BY DEF get_paginated_data_from_npm_website
  <1>2. call[t] \in CallRecords /\ call[t].pc = "run" /\ call[t].at = None /\ AckInv(call[t])
    BY <1>1, RunningAck DEF RpcVerbs
  <1>3. PICK y : y = [call[t] EXCEPT !.page = @ + 1]
    OBVIOUS
  <1>4. PICK x : x = [call[t] EXCEPT !.past = TRUE]
    OBVIOUS
  <1>5. SameAck(call[t], y) /\ SameAck(call[t], x)
    BY Zenon, <1>2, <1>3, <1>4 DEF CallRecords, SameAck
  <1>6. AckInv(y) /\ AckInv(x)
    BY <1>2, <1>5, AckSame
  <1>7. Set(t, Answer(call[t], "no")) \/ Set(t, Advance(call[t])) \/ Set(t, y) \/ Set(t, x)
    BY Zenon, <1>3, <1>4 DEF get_paginated_data_from_npm_website
  <1>8. CASE Set(t, Answer(call[t], "no")) \/ Set(t, Advance(call[t]))
    BY <1>2, <1>8, ItselfAfter, AnsweredAck
  <1>9. CASE Set(t, y) \/ Set(t, x)
    BY <1>6, <1>9, OneAck
  <1> QED
    BY <1>7, <1>8, <1>9

-----------------------------------------------------------------------------
(* A result that does not fit into the rule's buffer becomes an error. *)
LEMMA FinishAck ==
    ASSUME SInv, IInv', NEW t \in Threads, Finish(t)
    PROVE  SInv'
  <1>1. call[t].pc = "finish" /\ call[t] \in CallRecords /\ AckInv(call[t])
    BY OwnAck DEF Finish
  <1>2. ASSUME NEW d, Set(t, d), d.fn = call[t].fn, d.todo = call[t].todo, d.pc = "decode",
               d.unacked = call[t].unacked, d.good = call[t].good, d.host = call[t].host \/ d.host \in FunctionErrors
        PROVE  SInv'
    <2>1. UsesAny(d, Unconfirmed) <=> UsesAny(call[t], Unconfirmed)
      BY <1>2 DEF UsesAny
    <2>2. Planned(d) /\ (Known(call[t]) => Known(d))
      BY <1>1, <1>2 DEF Known, Planned, InCall
    <2>3. Told(call[t]) => Told(d)
      BY <1>1, <1>2 DEF Told, Hopeless, Result
    <2>4. AckInv(d)
      BY <1>1, <2>1, <2>2, <2>3 DEF AckInv
    <2> QED
      BY <1>2, <2>4, OneAck
  <1>3. ASSUME Set(t, [call[t] EXCEPT !.pc = "decode"])
        PROVE  SInv'
    <2>1. PICK d : d = [call[t] EXCEPT !.pc = "decode"]
      OBVIOUS
    <2>2. /\ d.fn = call[t].fn /\ d.todo = call[t].todo /\ d.pc = "decode"
          /\ d.unacked = call[t].unacked /\ d.good = call[t].good /\ d.host = call[t].host
      BY Zenon, <1>1, <2>1 DEF CallRecords
    <2> QED
      BY <1>2, <1>3, <2>1, <2>2
  <1>4. ASSUME NEW e \in safely_write_data_back, Set(t, Fail(call[t], e))
        PROVE  SInv'
    <2>1. PICK d : d = Fail(call[t], e)
      OBVIOUS
    <2>2. e \in FunctionErrors
      BY <1>4 DEF FunctionErrors
    <2>3. d.pc = "decode" /\ d.host = e /\ SameRule(call[t], d) /\ SameBody(call[t], d)
      BY <1>1, <2>1, <2>2, FailEffect
    <2> QED
      BY <1>2, <1>4, <2>1, <2>2, <2>3 DEF SameRule, SameBody
  <1> QED
    BY <1>3, <1>4 DEF Finish

(* The library takes no hopeless result for success. *)
LEMMA SuccessIsTold ==
    ASSUME NEW c, Head(c.todo) \in HostCalls, Decoded(Result(c), c.host, c.good) = "ok"
    PROVE  ~Hopeless(c)
  <1>1. Result(c) \in {"unit", "zero", "code", "text", "json", "trap", "rpc", "report", "npm", "member", "otp"}
    BY DEF HostCalls, Result
  <1>2. "yes" \notin FunctionErrors /\ "no" \notin FunctionErrors
    BY DEF FunctionErrors, safely_get_string, safely_write_data_back
  <1>3. c.host \in FunctionErrors => Result(c) \in {"member", "otp"}
    BY <1>1, <1>2 DEF Decoded
  <1>4. c.host = "no" => Result(c) \in {"unit", "report", "rpc"}
    BY <1>1, <1>2 DEF Decoded
  <1>5. c.good = FALSE => Result(c) \notin {"json", "trap", "report", "rpc"}
    BY <1>1 DEF Decoded
  <1> QED
    BY <1>3, <1>4, <1>5 DEF Hopeless

LEMMA DecodeAck ==
    ASSUME SInv, IInv', NEW t \in Threads, Decode(t)
    PROVE  SInv'
  <1> DEFINE outcome == Decoded(Head(call[t].todo).result, call[t].host, call[t].good)
             NextCall == [call[t] EXCEPT !.pc = "enter", !.steps = <<>>, !.sub = "start", !.page = 0, !.host = None, !.good = TRUE]
  <1>1. /\ call[t].pc = "decode" /\ call[t] \in CallRecords /\ CallInv(call[t], node, deployment.selection)
        /\ AckInv(call[t])
    BY OwnAck DEF Decode
  <1>2. Head(call[t].todo) \in HostCalls
    <2>1. call[t].todo \in Seq(HostCalls)
      BY Zenon, <1>1 DEF CallRecords
    <2>2. call[t].todo # <<>>
      BY <1>1 DEF CallInv, FromLibrary, InCall
    <2> QED
      BY Zenon, <2>1, <2>2, SequenceFacts
  <1>3. ASSUME outcome = "ok", ~UsesAny(call[t], Unconfirmed)
        PROVE  call[t].unacked # TRUE
    <2>1. Decoded(Result(call[t]), call[t].host, call[t].good) = "ok"
      BY Zenon, <1>3 DEF Result
    <2>2. ~Hopeless(call[t])
      BY Zenon, <1>2, <2>1, SuccessIsTold
    <2> QED
      BY <1>1, <1>3, <2>2 DEF AckInv, Told
  <1>4. ASSUME NEW o, o = outcome \/ o = "err",
               Set(t, [call[t] EXCEPT !.pc = "returned", !.outcome = o, !.steps = <<>>])
        PROVE  SInv'
    <2>1. PICK d : d = [call[t] EXCEPT !.pc = "returned", !.outcome = o, !.steps = <<>>]
      OBVIOUS
    <2>2. d.pc = "returned" /\ d.outcome = o /\ d.fn = call[t].fn /\ d.unacked = call[t].unacked
      BY Zenon, <1>1, <2>1 DEF CallRecords
    <2>3. UsesAny(d, Unconfirmed) <=> UsesAny(call[t], Unconfirmed)
      BY <2>2 DEF UsesAny
    <2>4. AckInv(d)
      BY <1>3, <1>4, <2>2, <2>3 DEF AckInv, Known, Planned, Told, InCall
    <2> QED
      BY <1>4, <2>1, <2>4, OneAck
  <1>5. ASSUME outcome = "ok", NEW d, Set(t, d), d.pc = "enter", d.fn = call[t].fn, d.unacked = call[t].unacked
        PROVE  SInv'
    <2>1. UsesAny(d, Unconfirmed) <=> UsesAny(call[t], Unconfirmed)
      BY <1>5 DEF UsesAny
    <2>2. Planned(d) /\ (Known(call[t]) => Known(d))
      BY <1>1, <1>5 DEF Planned, Known, InCall
    <2>3. AckInv(d)
      BY <1>1, <1>3, <1>5, <2>1, <2>2 DEF AckInv, Told
    <2> QED
      BY <1>5, <2>3, OneAck
  <1>6. PICK c : c = NextCall
    OBVIOUS
  <1>7. c \in CallRecords /\ c.pc = "enter" /\ c.fn = call[t].fn /\ c.unacked = call[t].unacked
    <2>1. <<>> \in Seq(Requests) /\ 0 \in 0 .. MaxPages /\ "enter" \in Pcs /\ "start" \in {"start", "get", "password", "otp"}
          /\ None \in FunctionErrors \cup {"yes", "no", None}
      BY HostCallAssumption DEF Pcs
    <2>2. c \in CallRecords
      BY Zenon, <1>1, <1>6, <2>1 DEF CallRecords
    <2>3. c.pc = "enter" /\ c.fn = call[t].fn /\ c.unacked = call[t].unacked
      BY Zenon, <1>1, <1>6 DEF CallRecords
    <2> QED
      BY <2>2, <2>3
  <1> HIDE DEF NextCall
  <1>8. PICK x : x = [c EXCEPT !.pages = @ + 1]
    OBVIOUS
  <1>9. PICK y : y = [c EXCEPT !.todo = Tail(@)]
    OBVIOUS
  <1>10. /\ x.pc = c.pc /\ x.fn = c.fn /\ x.unacked = c.unacked
         /\ y.pc = c.pc /\ y.fn = c.fn /\ y.unacked = c.unacked
    BY Zenon, <1>7, <1>8, <1>9 DEF CallRecords
  <1>11. \/ \E o : /\ o = outcome \/ o = "err"
                   /\ Set(t, [call[t] EXCEPT !.pc = "returned", !.outcome = o, !.steps = <<>>])
         \/ outcome = "ok" /\ (Set(t, x) \/ Set(t, y))
    BY Zenon, <1>6, <1>8, <1>9 DEF Decode, NextCall
  <1>12. CASE \E o : /\ o = outcome \/ o = "err"
                     /\ Set(t, [call[t] EXCEPT !.pc = "returned", !.outcome = o, !.steps = <<>>])
    BY Zenon, <1>4, <1>12
  <1>13. CASE outcome = "ok" /\ (Set(t, x) \/ Set(t, y))
    BY <1>5, <1>7, <1>10, <1>13
  <1> QED
    BY <1>11, <1>12, <1>13

-----------------------------------------------------------------------------
(* The inductive invariant: a change that was not acknowledged is told by  *)
(* the result of the host function, and then by the library's.             *)
THEOREM SuccessInvariance == Spec => []SInv
  <1>1. Init /\ IInv => SInv
    <2> SUFFICES ASSUME Init, IInv PROVE SInv
      OBVIOUS
    <2>1. \A t \in Threads : call[t] = NoCall
      BY Zenon DEF Init
    <2> QED
      BY <2>1, NoCallAck DEF SInv
  <1>2. SInv /\ IInv' /\ [Next]_vars => SInv'
    <2> SUFFICES ASSUME SInv, IInv', [Next]_vars PROVE SInv'
      OBVIOUS
    <2>1. CASE TwoMinutes
      BY <2>1 DEF TwoMinutes, SInv
    <2>2. ASSUME NEW t \in Threads, Call(t) \/ Step(t)
          PROVE  SInv'
      BY <2>2, CallAck, EnterAck, CheckAck, ExchangeAck, ComputeAck, RpcSelectAck, RpcAnswerAck,
         LoginAck, CsrfAck, ListAck, FinishAck, DecodeAck, ResumeAck
         DEF Step
    <2>3. CASE UNCHANGED vars
      BY <2>3 DEF vars, SInv
    <2> QED
      BY <2>1, <2>2, <2>3 DEF Next
  <1> QED
    BY <1>1, <1>2, Invariance, PTL DEF Spec

(* When a library function returns success, every change it asked for was  *)
(* acknowledged by an answer that says it is done, through any statuses,   *)
(* bodies, lost answers, retries, pages and sequences of host functions    *)
(* (OkIsAcknowledged).                                                     *)
THEOREM SuccessIsAcknowledged == Spec => []OkIsAcknowledged
  <1>1. SInv => OkIsAcknowledged
    <2> SUFFICES ASSUME SInv, NEW t \in Threads, call[t].pc = "returned", call[t].outcome = "ok",
                        ~Uses(t, Unconfirmed), call[t].unacked
                 PROVE  FALSE
      BY DEF OkIsAcknowledged
    <2>1. call[t].unacked \in BOOLEAN
      BY Zenon, OwnAck DEF CallRecords
    <2>2. call[t].unacked = TRUE
      BY Zenon, <2>1
    <2>3. Told(call[t])
      BY OwnAck DEF AckInv, Uses, UsesAny
    <2> QED
      BY <2>2, <2>3 DEF Told
  <1> QED
    BY <1>1, SuccessInvariance, PTL
=============================================================================

------------------------------ MODULE HostCall ------------------------------
(***************************************************************************)
(* The calls a rule makes of the APIs: a function of the standard library  *)
(* calls host functions, each of which the runtime refuses or runs to the  *)
(* end on the rule's thread (block_on), making requests of services that   *)
(* fail, answer anything, or apply a change and lose the answer; the       *)
(* result comes back as a code or in a buffer and the library turns it     *)
(* into the function's own.                                                *)
(*                                                                         *)
(* Threads share two things: the selector of the blockchain nodes, whose   *)
(* index moves when a node fails, and the cookies of the npm client, which *)
(* a login older than two minutes clears.  A service is external: it       *)
(* answers anything or nothing, whatever it did with the request, and what *)
(* is followed here is what its answers say, not what it did.              *)
(***************************************************************************)
EXTENDS Integers, FiniteSets, Calls, HostFunctions

CONSTANTS
    Threads,      \* the execution threads
    Deployments,  \* the cases: the library functions that the rules on each
                  \* thread use, whether they may be in test mode, and how
                  \* nodes are selected
    Configured,   \* the APIs that are configured
    Nodes,        \* nodes of the chain
    MaxRetries,   \* max_retries
    MaxPages,     \* bound: pages of a list
    None

GithubCalls == INSTANCE GithubApi
AwsCalls == INSTANCE AwsApi
GcpCalls == INSTANCE GcpApi
SlackCalls == INSTANCE SlackApi
OtherCalls == INSTANCE OtherApis
EvmCalls == INSTANCE EvmApi
SolanaCalls == INSTANCE SolanaApi
NpmCalls == INSTANCE NpmApi

Operations ==
    GithubCalls!Ops \cup AwsCalls!Ops \cup GcpCalls!Ops \cup SlackCalls!Ops \cup OtherCalls!Ops
        \cup EvmCalls!Ops \cup SolanaCalls!Ops \cup NpmCalls!Ops
OperationOf == [name \in {o.name : o \in Operations} |-> CHOOSE o \in Operations : o.name = name]
FunctionOf == [name \in {f.name : f \in to_api_function} |-> CHOOSE f \in to_api_function : f.name = name]

ASSUME HostCallAssumption ==
    /\ \A d \in Deployments :
        DOMAIN d.uses = Threads /\ d.modes \subseteq BOOLEAN /\ d.selection \in {"RoundRobin", "Random"}
    /\ Nodes \in Nat \ {0} /\ MaxRetries \in Nat /\ MaxPages \in Nat
    /\ None \notin Nat \cup FunctionErrors \cup {"yes", "no"}

(* The functions whose success says nothing about the change: a named      *)
(* request shows the rule the parts of the answer the operator chose, the  *)
(* registry's answer to a stub is not looked at, and the library drops the *)
(* code that says whether the reviewers were requested.                    *)
Unconfirmed == {"general_make_named_request", "npm_publish_empty_stub", "github_pull_request_request_reviewers"}

(* The answers with which a service says that it has done something. *)
Done == Success2xx \cup {302}

(* No late check comes after a request for a change. *)
ChecksFirst(plan) ==
    \A i, j \in DOMAIN plan : i < j /\ plan[j].verb = "VALIDATE" => plan[i].verb \notin Mutating

(* A result that the library takes for success confirms the changes that   *)
(* the plan asks for: the statuses that let it go on say that a change is  *)
(* done, a negative answer is told from a positive one, and a body that    *)
(* may say no is the last to be read and is looked at.                     *)
Confirms(plan, result) ==
    \A i \in DOMAIN plan : plan[i].verb \in Mutating =>
        /\ result \notin {"member", "otp"}
        /\ plan[i].ok \subseteq Done
        /\ plan[i].other # {} => result \notin {"unit", "report", "rpc"}
        /\ plan[i].verb = "RPC_SEND" \/ plan[i].body = "report" =>
             i = Len(plan) /\ result \in {"json", "trap", "report", "rpc"}

(* What the tables of the APIs and of the library keep to, entry by entry. *)
ASSUME OperationsAssumption ==
    \A o \in Operations :
        o.plans # {} /\ \A plan \in o.plans : plan \in Seq(Requests) /\ plan # <<>> /\ ChecksFirst(plan)
ASSUME FunctionsAssumption == \A f \in to_api_function : f.name \in DOMAIN OperationOf
ASSUME LibraryAssumption ==
    \A d \in Deployments : \A t \in Threads : \A fn \in d.uses[t] : fn \in Seq(HostCalls) /\ fn # <<>>
ASSUME ConfirmationAssumption ==
    \A d \in Deployments : \A t \in Threads : \A fn \in d.uses[t] :
        (\A i \in DOMAIN fn : fn[i].name \in DOMAIN FunctionOf \ Unconfirmed) =>
            \A i \in DOMAIN fn : \A plan \in OperationOf[fn[i].name].plans : Confirms(plan, fn[i].result)

VARIABLES
    deployment,  \* the case, chosen at the start
    call,        \* [Threads -> ...], the library function each thread is in
    node,        \* current_index of the selector, modulo Nodes
    stamp,       \* age of timestamp_last_request: "none", "fresh", or "old"
    jar          \* cookie_jar: whether it holds the cs and session cookies

vars == <<deployment, call, node, stamp, jar>>

(***************************************************************************)
(* pc: where the thread is; fn: the library function, todo: the host calls *)
(* it has left; test: the rule is in test mode; steps: the requests left,  *)
(* sub, page, tries, at: progress within one; host: what the host function *)
(* returned ("yes", "no" for a negative answer, or an error); good:        *)
(* whether the bytes it returned decode (and say yes).  The rest is        *)
(* history, of this host call (sent, refused, tried, exhausted) or of the  *)
(* library function: unacked, a request for a change got no answer that    *)
(* says it is done; disturbed, another thread moved the selector; past, a  *)
(* list changed while it was read.                                         *)
(***************************************************************************)
NoCall ==
    [pc |-> "idle", fn |-> <<>>, todo |-> <<>>, test |-> FALSE, steps |-> <<>>, sub |-> "start", page |-> 0,
     tries |-> 0, at |-> None, host |-> None, good |-> TRUE, pages |-> 0, outcome |-> None, sent |-> {},
     refused |-> FALSE, tried |-> {}, exhausted |-> FALSE, unacked |-> FALSE, disturbed |-> FALSE, past |-> FALSE]

Init ==
    /\ deployment \in Deployments
    /\ call = [t \in Threads |-> NoCall]
    /\ node = 0
    /\ stamp = "none"
    /\ jar = [cs |-> FALSE, session |-> FALSE]

name(t) == Head(call[t].todo).name
step(t) == Head(call[t].steps)
Running(t, verbs) == call[t].pc = "run" /\ step(t).verb \in verbs

(* What may become of a call. *)
Fail(c, error) == [c EXCEPT !.pc = "decode", !.host = error]
Answer(c, host) == [c EXCEPT !.pc = "finish", !.host = host]
Advance(c) ==
    IF Len(c.steps) = 1
    THEN Answer([c EXCEPT !.steps = <<>>], "yes")
    ELSE [c EXCEPT !.steps = Tail(@), !.sub = "start", !.page = 0]
Set(t, c) == call' = [call EXCEPT ![t] = c]

-----------------------------------------------------------------------------
(* A rule calls a library function; a rule whose imports are not all known *)
(* does not run.                                                           *)
Call(t) ==
    /\ call[t].pc = "idle"
    /\ \E fn \in deployment.uses[t], test \in deployment.modes :
        Set(t, IF link_functions_to_module({fn[i].name : i \in DOMAIN fn})
               THEN [NoCall EXCEPT !.pc = "enter", !.fn = fn, !.todo = fn, !.test = test]
               ELSE [NoCall EXCEPT !.pc = "returned", !.fn = fn, !.outcome = "unlinked"])
    /\ UNCHANGED <<deployment, node, stamp, jar>>

(* The generated host function, up to the call of the API. *)
Enter(t) ==
    /\ call[t].pc = "enter"
    /\ LET f == FunctionOf[name(t)]
           c == [call[t] EXCEPT !.sent = {}, !.refused = FALSE, !.tried = {}, !.tries = 0, !.exhausted = FALSE]
           Allowed == f.dry \/ ~c.test
       IN \/ Set(t, Fail(c, "InternalApiError"))  \* log_function_call or get_memory fails
          \/ ~Allowed /\ Set(t, Fail(c, "TestMode"))
          \/ Allowed /\ \E e \in safely_get_string : Set(t, Fail(c, e))
          \/ Allowed /\ f.api \notin Configured /\ Set(t, Fail(c, "ApiNotConfigured"))
          \/ Allowed /\ f.api \in Configured /\ Set(t, [c EXCEPT !.pc = "check"])
    /\ UNCHANGED <<deployment, node, stamp, jar>>

\* mutant: the checks come after the requests
Check_RequestsFirst(t) ==
    /\ call[t].pc = "check"
    /\ \E plan \in OperationOf[name(t)].plans :
        Set(t, [call[t] EXCEPT !.pc = "run", !.steps = plan \o <<Validate>>])
    /\ UNCHANGED <<deployment, node, stamp, jar>>

(* The API's function validates its parameters and the rule's permission,  *)
(* and the requests it will make are determined.                           *)
Check(t) ==
    /\ call[t].pc = "check"
    /\ LET o == OperationOf[name(t)]
           c == call[t]
           Refused == [c EXCEPT !.refused = TRUE]
       IN \/ \E check \in o.checks \ {"available_in_test_mode"} :
                Set(t, IF check \in {"answer: json", "answer: service"}
                       THEN Answer(Refused, "no")
                       ELSE Fail(Refused, "InternalApiError"))
          \/ "available_in_test_mode" \in o.checks /\ c.test /\ Set(t, Fail(Refused, "TestMode"))
          \/ \E plan \in o.plans : Set(t, [c EXCEPT !.pc = "run", !.steps = plan])
    /\ UNCHANGED <<deployment, node, stamp, jar>>

-----------------------------------------------------------------------------
(* The answer says that the change r asks for is done. *)
Acknowledged(r, s, good) == s \in Done /\ (r.body \in {"flag", "report"} => good)

(* A request over HTTP; good: whether its body decodes (and says yes). *)
Exchange(t) ==
    /\ Running(t, {"GET", "QUERY", "POST", "PUT", "PATCH", "DELETE"})
    /\ \E s \in Statuses \cup {Lost}, good \in BOOLEAN :
        LET r == step(t)
            c == [call[t] EXCEPT !.sent = @ \cup {r.verb},
                                 !.unacked = @ \/ (r.verb \in Mutating /\ ~Acknowledged(r, s, good))]
        IN \/ s \notin r.ok \cup r.other /\ Set(t, Fail(c, "InternalApiError"))
           \/ s \in r.other /\ Set(t, Answer(c, "no"))
           \/ s \in r.ok /\ r.body \in {"decoded", "flag"} /\ ~good /\ Set(t, Fail(c, "InternalApiError"))
           \/ /\ s \in r.ok
              /\ r.body \in {"decoded", "flag"} => good
              /\ Set(t, Advance([c EXCEPT !.good = good \/ r.body \notin {"read", "report"}]))
           \/ /\ s \in r.ok /\ r.paged /\ good /\ c.page < MaxPages
              /\ Set(t, [c EXCEPT !.page = @ + 1])
    /\ UNCHANGED <<deployment, node, stamp, jar>>

(* A computation of the host, or a check that comes late. *)
Compute(t) ==
    /\ Running(t, {"LOCAL", "VALIDATE"})
    /\ \/ Set(t, Advance(call[t]))
       \/ Set(t, Fail([call[t] EXCEPT !.refused = step(t).verb = "VALIDATE"], "InternalApiError"))
    /\ UNCHANGED <<deployment, node, stamp, jar>>

-----------------------------------------------------------------------------
(* BlockchainClient::execute_rpc_call, one attempt: select a node, send,   *)
(* and on a failure that may pass move the selector on and try again.      *)
RpcVerbs == {"RPC", "RPC_SEND"}

\* mutant: the index is off by one
select_node_OffByOne == IF deployment.selection = "RoundRobin" THEN {node + 1} ELSE 0 .. Nodes - 1
select_node == IF deployment.selection = "RoundRobin" THEN {node} ELSE 0 .. Nodes - 1

\* mutant: the retries start over instead of ending the call
RpcSelect_StartsOver(t) ==
    /\ Running(t, RpcVerbs)
    /\ call[t].at = None
    /\ \E n \in select_node :
        Set(t, [call[t] EXCEPT !.at = n, !.tries = IF @ = MaxRetries THEN 0 ELSE @])
    /\ UNCHANGED <<deployment, node, stamp, jar>>

RpcSelect(t) ==
    /\ Running(t, RpcVerbs)
    /\ call[t].at = None
    /\ \/ /\ call[t].tries < MaxRetries
          /\ \E n \in select_node : Set(t, [call[t] EXCEPT !.at = n])
       \/ /\ call[t].tries = MaxRetries
          /\ Set(t, Fail([call[t] EXCEPT !.exhausted = TRUE, !.unacked = @ \/ step(t).verb \in Mutating], "InternalApiError"))
    /\ UNCHANGED <<deployment, node, stamp, jar>>

is_retryable(s) == s \in {429, 500, Lost}

\* mutant: the selector stays at the node that failed
mark_current_node_failed_Stays(t, c) == Set(t, c) /\ UNCHANGED node

(* The others that are between selecting a node and giving up or being     *)
(* answered notice that the selector moved.                                *)
mark_current_node_failed(t, c) ==
    IF deployment.selection = "RoundRobin"
    THEN /\ node' = (node + 1) % Nodes
         /\ call' = [u \in Threads |->
                IF u = t THEN c
                ELSE IF call[u].at # None \/ call[u].tried # {} THEN [call[u] EXCEPT !.disturbed = TRUE] ELSE call[u]]
    ELSE Set(t, c) /\ UNCHANGED node

RpcAnswer(t) ==
    /\ Running(t, RpcVerbs)
    /\ call[t].at # None
    /\ LET r == step(t)
           c == [call[t] EXCEPT !.sent = @ \cup {r.verb}, !.at = None]
           Unacked == [c EXCEPT !.unacked = @ \/ r.verb \in Mutating]
       IN \E s \in Statuses \cup {Lost}, good \in BOOLEAN :
            \/ /\ s \in Success2xx
               /\ Set(t, Advance([IF good THEN c ELSE Unacked EXCEPT !.good = good]))
               /\ UNCHANGED node
            \/ /\ s \notin Success2xx /\ ~is_retryable(s)
               /\ Set(t, Fail(Unacked, "InternalApiError"))
               /\ UNCHANGED node
            \/ /\ is_retryable(s)
               /\ mark_current_node_failed(t, [c EXCEPT !.tries = @ + 1, !.tried = @ \cup {call[t].at}])
    /\ UNCHANGED <<deployment, stamp, jar>>

-----------------------------------------------------------------------------
(* Npm::login.  Cookies that are too old are thrown away; the lock is held *)
(* for that only.                                                          *)
LoginStart(t) ==
    /\ Running(t, {"LOGIN"})
    /\ call[t].sub = "start"
    /\ stamp' = IF stamp \in {"none", "old"} THEN "fresh" ELSE stamp
    /\ jar' = IF stamp = "old" THEN [cs |-> FALSE, session |-> FALSE] ELSE jar
    /\ Set(t, [call[t] EXCEPT !.sub = "get"])
    /\ UNCHANGED <<deployment, node>>

(* The login page: whoever is logged in gets no cs cookie, and is done. *)
LoginGet(t) ==
    /\ Running(t, {"LOGIN"})
    /\ call[t].sub = "get"
    /\ \/ Set(t, Answer(call[t], "no")) /\ UNCHANGED jar
       \/ /\ jar.session
          /\ Set(t, Advance([call[t] EXCEPT !.sent = @ \cup {"LOGIN"}]))
          /\ UNCHANGED jar
       \/ /\ ~jar.session
          /\ jar' = [jar EXCEPT !.cs = TRUE]
          /\ Set(t, [call[t] EXCEPT !.sub = "password"])
    /\ UNCHANGED <<deployment, node, stamp>>

(* The password, then the one-time password. *)
LoginPost(t) ==
    /\ Running(t, {"LOGIN"})
    /\ call[t].sub \in {"password", "otp"}
    /\ \/ Set(t, Answer(call[t], "no")) /\ UNCHANGED jar
       \/ call[t].sub = "password" /\ Set(t, [call[t] EXCEPT !.sub = "otp"]) /\ UNCHANGED jar
       \/ /\ call[t].sub = "otp"
          /\ jar' = [jar EXCEPT !.session = TRUE]
          /\ Set(t, Advance([call[t] EXCEPT !.sent = @ \cup {"LOGIN"}]))
    /\ UNCHANGED <<deployment, node, stamp>>

get_csrftoken_from_cookies(t) ==
    /\ Running(t, {"CSRF"})
    /\ Set(t, IF jar.cs THEN Advance(call[t]) ELSE Fail(call[t], "InternalApiError"))
    /\ UNCHANGED <<deployment, node, stamp, jar>>

(* One page of a list.  It ends when exactly the expected number of items  *)
(* has been read; a list that changes in between is past that number, and  *)
(* only a failed request ends it.                                          *)
get_paginated_data_from_npm_website(t) ==
    /\ Running(t, {"LIST"})
    /\ \/ Set(t, Answer(call[t], "no"))
       \/ ~call[t].past /\ Set(t, Advance(call[t]))
       \/ ~call[t].past /\ call[t].page < MaxPages /\ Set(t, [call[t] EXCEPT !.page = @ + 1])
       \/ ~call[t].past /\ call[t].page > 0 /\ Set(t, [call[t] EXCEPT !.past = TRUE])
    /\ UNCHANGED <<deployment, node, stamp, jar>>

TwoMinutes ==
    /\ stamp = "fresh"
    /\ stamp' = "old"
    /\ UNCHANGED <<deployment, call, node, jar>>

-----------------------------------------------------------------------------
(* The end of the generated host function: the result has to fit.          *)
Finish(t) ==
    /\ call[t].pc = "finish"
    /\ \/ Set(t, [call[t] EXCEPT !.pc = "decode"])
       \/ FunctionOf[name(t)].buffer /\ \E e \in safely_write_data_back : Set(t, Fail(call[t], e))
    /\ UNCHANGED <<deployment, node, stamp, jar>>

\* mutant: whatever is not an error is taken for success
Decoded_AnyAnswer(result, host, good) == IF host \in FunctionErrors THEN "err" ELSE "ok"

(* What the library makes of the result of a host function, by the way the *)
(* library function reads it: most compare the code with 0 first, some     *)
(* accept a code of their own, and two take whatever is there.             *)
Decoded(result, host, good) ==
    LET failed == host \in FunctionErrors
    IN CASE result = "unit" -> IF failed THEN "err" ELSE "ok"
         [] result \in {"zero", "npm"} -> IF host = "yes" THEN "ok" ELSE "err"
         [] result \in {"code", "text"} -> IF failed THEN "err" ELSE IF host = "yes" THEN "ok" ELSE "negative"
         [] result = "report" -> IF failed THEN "err" ELSE IF good THEN "ok" ELSE "negative"
         [] result = "rpc" -> IF failed \/ ~good THEN "err" ELSE "ok"
         [] result = "json" -> IF failed \/ ~good THEN "err" ELSE IF host = "yes" THEN "ok" ELSE "negative"
         [] result = "trap" ->
                IF failed THEN "err" ELSE IF ~good THEN "trap" ELSE IF host = "yes" THEN "ok" ELSE "negative"
         [] result = "member" -> IF host = "no" THEN "negative" ELSE "ok"
         [] result = "otp" -> IF host = "yes" /\ good THEN "ok" ELSE "negative"

(* The library function returns, asks for the next page, or makes its next *)
(* call (unless it does not find in this answer what that needs).          *)
Decode(t) ==
    /\ call[t].pc = "decode"
    /\ LET c == call[t]
           h == Head(c.todo)
           outcome == Decoded(h.result, c.host, c.good)
           NextCall == [c EXCEPT !.pc = "enter", !.steps = <<>>, !.sub = "start", !.page = 0, !.host = None, !.good = TRUE]
           Return(o) == [c EXCEPT !.pc = "returned", !.outcome = o, !.steps = <<>>]
       IN \/ outcome # "ok" /\ Set(t, Return(outcome))
          \/ outcome = "ok" /\ Len(c.todo) = 1 /\ Set(t, Return("ok"))
          \/ outcome = "ok" /\ h.pages /\ c.pages < MaxPages /\ Set(t, [NextCall EXCEPT !.pages = @ + 1])
          \/ outcome = "ok" /\ Len(c.todo) > 1 /\ Set(t, [NextCall EXCEPT !.todo = Tail(@)])
          \/ outcome = "ok" /\ Len(c.todo) > 1 /\ Set(t, Return("err"))
    /\ UNCHANGED <<deployment, node, stamp, jar>>

(* The rule goes on. *)
Resume(t) ==
    /\ call[t].pc = "returned"
    /\ Set(t, NoCall)
    /\ UNCHANGED <<deployment, node, stamp, jar>>

Step(t) ==
    \/ Enter(t) \/ Check(t) \/ Exchange(t) \/ Compute(t) \/ RpcSelect(t) \/ RpcAnswer(t)
    \/ LoginStart(t) \/ LoginGet(t) \/ LoginPost(t) \/ get_csrftoken_from_cookies(t)
    \/ get_paginated_data_from_npm_website(t) \/ Finish(t) \/ Decode(t) \/ Resume(t)

Next == TwoMinutes \/ \E t \in Threads : Call(t) \/ Step(t)

Spec == Init /\ [][Next]_vars
FairSpec == Spec /\ \A t \in Threads : WF_vars(Step(t))

-----------------------------------------------------------------------------
Pcs == {"idle", "enter", "check", "run", "finish", "decode", "returned"}
SentVerbs == Mutating \cup {"GET", "QUERY", "RPC", "LOGIN"}

CallRecords ==
    [pc : Pcs, fn : Seq(HostCalls), todo : Seq(HostCalls), test : BOOLEAN, steps : Seq(Requests),
     sub : {"start", "get", "password", "otp"}, page : 0 .. MaxPages, tries : 0 .. MaxRetries,
     at : 0 .. Nodes - 1 \cup {None}, host : FunctionErrors \cup {"yes", "no", None}, good : BOOLEAN,
     pages : 0 .. MaxPages, outcome : {"ok", "negative", "err", "trap", "unlinked", None},
     sent : SUBSET SentVerbs, refused : BOOLEAN, tried : SUBSET (0 .. Nodes - 1), exhausted : BOOLEAN,
     unacked : BOOLEAN, disturbed : BOOLEAN, past : BOOLEAN]

(* Every record of a call stays within its fields' values, whatever host   *)
(* functions a library function goes through (functions/api.rs).           *)
TypeOK ==
    /\ deployment \in Deployments
    /\ call \in [Threads -> CallRecords]
    /\ node \in 0 .. Nodes - 1
    /\ stamp \in {"none", "fresh", "old"}
    /\ jar \in [cs : BOOLEAN, session : BOOLEAN]

Uses(t, names) == \E i \in DOMAIN call[t].fn : call[t].fn[i].name \in names

(* When a library function returns success, every change it asked for was  *)
(* acknowledged: the service's last word on each is an answer that says it *)
(* is done, for all functions of all APIs, whichever statuses, bodies,     *)
(* lost answers, pages and retries they met (apis/*, plaid-stl).  Whether  *)
(* the service kept its word is not the runtime's to know.                 *)
OkIsAcknowledged ==
    \A t \in Threads :
        call[t].pc = "returned" /\ call[t].outcome = "ok" /\ ~Uses(t, Unconfirmed) => ~call[t].unacked

(* A host function that the runtime or the API refuses (not configured,    *)
(* test mode, bad parameters, no permission) has asked no service for a    *)
(* change, wherever in the function the refusing check stands.             *)
RefusedIsUntouched ==
    \A t \in Threads :
        call[t].refused \/ call[t].host \in {"ApiNotConfigured", "ParametersNotUtf8", "TestMode"}
        => call[t].sent \cap Mutating = {}

(* What the library says of its membership check: it tells whether the     *)
(* user belongs to the organisation.                                       *)
MembershipIsKnown ==
    \A t \in Threads :
        call[t].outcome = "ok" /\ Uses(t, {"github_check_org_membership_of_user"}) => call[t].host = "yes"

(* With enough retries, a JSON-RPC call gives up only after it tried every *)
(* node of the chain (RoundRobin), unless other calls moved the selector   *)
(* under it (execute_rpc_call, mark_current_node_failed).                  *)
GivesUpAfterAllNodes ==
    \A t \in Threads :
        /\ call[t].exhausted
        /\ deployment.selection = "RoundRobin"
        /\ ~call[t].disturbed
        /\ MaxRetries >= Nodes
        => call[t].tried = 0 .. Nodes - 1

(* Every call of a library function returns to the rule, unless a list of  *)
(* npm changes while it is read.                                           *)
CallReturns == \A t \in Threads : call[t].pc = "enter" ~> call[t].pc = "returned" \/ call[t].past
=============================================================================

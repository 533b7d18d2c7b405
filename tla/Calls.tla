------------------------------- MODULE Calls -------------------------------
(***************************************************************************)
(* The vocabulary in which the API modules describe a host function: the   *)
(* parameters it validates before it contacts anyone, and the requests it  *)
(* then makes, in order, each with the answers that let it go on.          *)
(***************************************************************************)
EXTENDS Sequences

\* The statuses a service answers with; Lost is an error of the transport (no
\* answer within the client's timeout, a broken connection).
Lost == 0
Success2xx == {200, 201, 202, 204}
Statuses == Success2xx \cup {302, 400, 404, 422, 429, 500}

\* A request.  ok: the statuses the function accepts; other: statuses that
\* end it with a negative answer, which is not an error; body: what it needs
\* of the body of an accepted answer ("ignored", "read", "decoded", "flag" when
\* the decoded body must also say ok: true, "report" when it may say either and
\* the rule is told which); paged: whether it asks for further pages while the
\* answer says that there are some.
Request(verb, ok, body) == [verb |-> verb, ok |-> ok, other |-> {}, body |-> body, paged |-> FALSE]
Get(ok, body)    == Request("GET", ok, body)
Post(ok, body)   == Request("POST", ok, body)
Put(ok, body)    == Request("PUT", ok, body)
Patch(ok, body)  == Request("PATCH", ok, body)
Delete(ok, body) == Request("DELETE", ok, body)
OrElse(r, statuses) == [r EXCEPT !.other = statuses]
Paged(r) == [r EXCEPT !.paged = TRUE]
\* A POST that only reads: a query in the body, a signature, a login.
Query(ok, body)  == Request("QUERY", ok, body)
\* A computation on the host that may fail.
Local            == Request("LOCAL", {}, "ignored")

\* One round of JSON-RPC over the nodes of a chain (execute_rpc_call).
Rpc              == Request("RPC", Success2xx, "read")
RpcSend          == Request("RPC_SEND", Success2xx, "read")
\* The steps of the npm website's client that are not plain requests: its
\* login, reading the CSRF token from the cookies, a check of the parameters
\* that comes after the login, and the pages of a list.
Login            == Request("LOGIN", {200}, "ignored")
Csrf             == Request("CSRF", {}, "ignored")
Validate         == Request("VALIDATE", {}, "ignored")
List             == Request("LIST", {200}, "decoded")

Mutating == {"POST", "PUT", "PATCH", "DELETE", "RPC_SEND"}

Requests ==
    [verb : Mutating \cup {"GET", "QUERY", "LOCAL", "RPC", "LOGIN", "CSRF", "VALIDATE", "LIST"},
     ok : SUBSET Statuses, other : SUBSET Statuses,
     body : {"ignored", "read", "decoded", "flag", "report"}, paged : BOOLEAN]

\* A host function: what it checks, and the possible lists of requests (one
\* list unless its parameters or the configuration select among several).
OpCases(name, checks, plans) == [name |-> name, checks |-> checks, plans |-> plans]
Op(name, checks, steps) == OpCases(name, checks, {steps})

\* A function of the standard library: the host functions it calls, in order,
\* and how it turns the result of each into its own:
\*   unit    a negative code is an error, any other is success
\*   zero    0 is success, any other code an error
\*   code    a negative code is an error, any other is handed to the rule
\*   text    the bytes as a string
\*   json    the bytes decoded, an error if that fails
\*   trap    the bytes decoded, a panic if that fails
\*   rpc     the bytes decoded as a result or an error of JSON-RPC
\*   report  the bytes decoded, with the service's ok: true or false
\*   npm     the bytes decoded as a success or an error of npm
\*   member  true unless the code is 0
\*   otp     true if the bytes say so
\* Pages calls its host function again for as long as a page is not the last.
HostCalls ==
    [name : STRING, pages : BOOLEAN,
     result : {"unit", "zero", "code", "text", "json", "trap", "rpc", "report", "npm", "member", "otp"}]
Wrapper(name, result) == <<[name |-> name, result |-> result, pages |-> FALSE]>>
Pages(name, result) == <<[name |-> name, result |-> result, pages |-> TRUE]>>
=============================================================================

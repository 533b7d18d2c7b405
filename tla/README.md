# Plaid: TLA+ models, model checks and proofs

Plaid runs sandboxed WASM rules on messages. Messages come from webhooks, from
data generators that poll or receive logs, and from the rules themselves
("logbacks"); rules act on the world through host functions (storage, cache,
APIs). This directory holds a formal model of the runtime in
`src/runtime/plaid` and of the rules' library in `src/runtime/plaid-stl`: TLA+ modules translated from the source, TLC
configurations that check them on small instances, and TLAPS proofs that hold
for every instance. `PROJECT.json` maps every definition to the lines it models
and lists the runs, the mutants that show each property can fail, the hazards
and the findings.

Paths below are relative to `src/runtime/plaid/src` unless they start with
`src/`.

## 1. Inventory

| Component | State | Operations | Hard part | Correct when |
|---|---|---|---|---|
| Execution system (`executor/`) | one bounded channel per thread pool, the threads, the message and rule each runs | receive, run each rule of the channel, keep or send its response, leave when disconnected | threads, handlers, tasks and rules share the channels; leaving depends on who still holds a sender | no accepted message is dropped, none runs twice |
| Main and shutdown (`bin/plaid.rs`) | cancellation token, join handles, senders | POST and GET handlers, cancel, join tasks, join servers, drop senders, join threads, flush | the order; requests and generators in flight; rules that log back during the drain | main returns, nothing accepted is left in memory |
| Logback host functions (`functions/internal.rs`) | the budget of the message a rule runs on | `log_back*`, `dispatch_logback` | token read before `try_send`; full channels; u32 budget | budget never underflows, drain bounded |
| Delayed logbacks (`data/internal/`) | delayed channel, `LOGBACK_NS` in the database, heap | listen, persist, poll, send, delete, flush | send then delete; crash or error in between; several instances on one database | not early, kept until sent, sent once unless a delete failed, eventually sent |
| Storage host functions (`functions/storage.rs`, client in `src/runtime/plaid-stl`) | namespace in the provider, byte counter and lock per module or shared DB | get, list, insert, delete; recount at start | parallel rules, failing provider calls, the two-call protocol of the client | counter exact, quota kept and justified, Ok means done |
| Polling generators (`data/mod.rs`, `data/github`, `data/okta`) | `last_seen`, LRU of identifiers, both in the database | fetch window, drop duplicates, send, save, resume | late and unordered logs, two inserts for one state, crash, eviction | nothing skipped, nothing sent twice, catches up |
| Responses and GET (`executor/mod.rs`, `functions/response.rs`, `bin/plaid.rs`) | persistent response of a module, GET cache of a webhook, oneshot channel | set, keep, answer, caching modes | parallel executions of one rule work on copies | own answer, last response kept |
| Start of tasks (`data/mod.rs`) | one task per generator, roles of the instance | wake, run, sleep, stop | cancellation | covered with the executor |
| Interval jobs (`data/interval`) | heap of next executions | run what is due, reschedule | `try_send` drops when full, the task wakes late | every job runs at each of its times for which there is room |
| SQS (`data/sqs`) | remote queue, LRU of identifiers | receive, send, delete | at-least-once delivery, failing deletes, a drain loop that ignores the token | sent before deleted, again only when the LRU has forgotten it, the task ends |
| Websocket (`data/websocket`) | connection, heap of URIs with back-off | select, connect, read, send, put aside, abort | all URIs failing, abort anywhere | every URI gets its turn while handshakes end, the task ends |
| Loader (`loader/`) | modules, limits, channels | load, verify, recount storage | pure, except the recount, which is `Storage!Restart` | the recount equals what is stored |
| Cache (`cache/`, `functions/cache.rs`) | bounded map | get, put | none: one library call each | not modelled |
| API host functions (`functions/api.rs`, `apis/`) | index of the node selector, cookies and age of the npm login; both shared by all threads | about 150 functions: check, request, accept or refuse, return a code or a buffer | lost answers, unexpected statuses, late checks, shared selector and cookies, test mode | success means acknowledged, refusal means untouched, every node is tried, the call returns |
| Standard library of rules (`src/runtime/plaid-stl`) | none | call one or several host functions, decode the result | errors are negative codes among answers | an error reaches the rule as an error |
| Logging, performance, metrics | channel and one task each | log, report | an error of the log channel ends a thread (`executor/mod.rs:607`) | not modelled, but for the host call it refuses |
| Configuration, tools, message accessors | immutable data, or none shared | parse, serialise | - | out of scope, but for `CachingMode` |

Interaction. Handlers and generators call `send`/`try_send` on the pool of the
message's log type; rules running in a thread call host functions which touch
storage, the response, or send again into the general channel or the delayed
channel; the listener task drains the delayed channel into the database, the
internal processor reads the database and sends into the general channel; a GET
handler waits on a oneshot channel that a thread answers. Main owns the token
and the last senders.

## 2. Modules

```
Executor         <- MCExecutor        <- 2 runs      ExecutorProofs
Storage          <- MCStorage         <- 1 run       StorageProofs
DelayedDelivery  <- LogbackStore (implements it) <- MCLogbackStore <- 1 run
                                                     LogbackStoreProofs
DataGenerator    <- MCDataGenerator   <- 2 runs      DataGeneratorProofs
Responses        <- MCResponses       <- 3 runs      ResponsesProofs
SourceQueue <- Interval, Sqs, Websocket <- Sources <- MCSources <- 1 run
                                                     SourcesProofs
Calls <- GithubApi AwsApi GcpApi SlackApi OtherApis EvmApi SolanaApi NpmApi
      <- HostCall (with HostFunctions) <- MCHostCall <- 2 runs
                                                     HostCallProofs <- SuccessProofs
         MCHostCall also takes StlGithub StlSlack StlCloud StlEvm StlSolana
         StlNpm StlOther: what the library makes of each host function
```

`Executor` is itself the composition of threads, tasks, requests and main;
`LogbackStore` and `Responses` refine two of its parts: `Executor` leaves out
time and leaves which logbacks have elapsed to choice, `LogbackStore` has the
delays, several instances and crashes; `Executor` has a GET that is answered,
`Responses` has what it is answered with.

**Executor.** `queue` is the crossbeam channel of each pool, `pc`, `cur`, `idx`
and `left` where a thread is in `execution_loop`, `imm` whether it holds the
upgraded sender for immediate logbacks, `pend` a logback between the token check
and its `try_send` (`functions/internal.rs:224`), `delayed`, `hand`, `db` the
delayed channel, what a persister holds and what the database holds, `main` the
position of `main` in its shutdown. One action per step another actor can tell
apart: `Recv`/`RecvUnknown`/`RecvError`, `LogBack`/`LogBackFault`,
`DispatchImmediate`/`DispatchDelayed`, `NextRule`/`EndOfMessage`, the listener
and the internal processor, a generator's wake/fetch/send/sleep, the POST and GET
handlers, `Cancel`, the joins and the flush. `accepted`, `taken`, `done`, `lost`
and `late` are history variables. Rules are known by their position only;
payloads are left out. The channels themselves are external (crossbeam): a
bounded FIFO whose `recv` fails when it is empty and its last sender is gone
(`Disconnected`: main, the web server with its handlers, the generators, the
internal processor and the running rules hold senders).

**Storage.** One namespace; a value is its length. A call of the client library
is a probe followed by the call proper with a buffer of the probed length; a
write of a limited namespace takes the lock, reads the old value, checks,
writes and counts. The provider may fail without effect (`ErrorsBefore`) or
after its effect (`ErrorsAfter`). `config` is what Plaid was started with: the
limit, who may write and who may only read. `Restart` is the recount of
`populate_storage_sizes` and `init_shared_db`, possibly with another
configuration. `outcome` is what the library tells the rule, where every code
that is not the expected length is the same error; `refused` (history) is what
the host returned. `drifted` (history) says that since the last start a change
under the lock was applied and reported as failed. `Word` stands for 2^64: counter
arithmetic wraps at `Word`, and `WordAssumption` says that what is stored fits.

**LogbackStore.** Several instances share `db`; each has a delayed channel and a
persister, those in `LogbackRole` poll. Time is relative: a `Tick` counts the
remaining delays down, so neither clock nor due time needs a bound. All
instances share that clock.

**DelayedDelivery.** What the above promises, without channels, polls or
databases: a logback is unasked, volatile, durable, handed or gone; it is lost
only while volatile, handed over only from durable and when its delay has
passed, and again only after a fault. `LogbackStore!Delivery` maps the detailed
state to it (`Stage`: in a channel or a hand is volatile, in the database is
durable, sent and not yet deleted is handed); `ImplementsDelivery` is checked as
a property of the detailed specification, and proved.

**DataGenerator.** `now`, `ts` and `visible` are the clock and the remote source
(external), the rest is `get_and_process_dg_logs` with its state in memory and in
the database. `Query` computes the window, `Fetch` returns the visible logs of
it, `Process` handles them in ascending order, `SaveLast` and `SaveSeen` are the
two inserts, `Crash` keeps only the database, `Resume` and `StartAfresh` are the
start; `PutBack` fills the cache from the stored list as the code does, in the
order of the list, which is the reverse of the order in which it was used.
`lruSize` is the configured size of the cache, chosen at the start. `forgot`
counts, for each log, the restarts that left it `Exposed`: sent, within the
windows to come, and not on the stored list or not sure to keep its place in the
cache that is built from it.

**Responses.** One rule that answers a webhook, in any caching mode, with or
without `persistent_response_size`, run by several threads at once.

**Sources.** Three generators beside the polling ones, each in a module of its
own over `SourceQueue`, the executor's channel that other senders share.
`Interval` has the heap and wakes at any time up to `MaxLate` after the first
job is due; time goes round in a cycle of `Cycle` seconds, because only
differences of times matter. `Sqs` has `drain_queue` step by step, the LRU of
identifiers (`seen`, 4096 in the code, `SeenSize` here) and the service's
visibility timeout (external). `Websocket` has `UriSelector` (heap,
doubling back-off, reset), the connection, whose handshake may hang, and the abort
of its task at an await.
`Sources` composes them with the token, the end of main (`Drain`: the receivers
go after the tasks), a crash and a restart; a configuration
chooses which of them exist.

**HostCall.** A thread is in at most one library function; `call[t]` is where.
`Enter` is the generated host function up to the call of the API (log call, test
mode, parameters, configured), `Check` the API function's own validation and
permission checks, `Exchange` a request over HTTP, `RpcSelect`/`RpcAnswer` one
attempt of `execute_rpc_call`, `LoginStart`/`LoginGet`/`LoginPost` the npm login,
`Finish` the write into the rule's buffer, `Decode` what the library makes of it.
What differs between the functions is data: an operation of an `*Api` module is a
record with its checks and its plans (the possible sequences of requests), a
request (`Calls`) has its verb, the statuses taken for success and for a negative
answer, and what is done with the body. An `Stl*` module gives for each library
function the host functions it calls and the kind of its result;
`HostFunctions` is the table of imports with their buffer and test mode flags.
A service is external: it may give any answer or none. A change is acknowledged
(`Acknowledged`) when the answer is 2xx or 302 and, where the API has a flag for
it, the body says so; whether the service then did what it said is not modelled.
`sent`, `unacked`, `refused`, `tried`, `exhausted`, `disturbed`, `past` are history.
What the tables
of the APIs and of the library must keep to for the properties to hold is stated
once, as the four named assumptions on them (`OperationsAssumption`,
`FunctionsAssumption`, `LibraryAssumption`, `ConfirmationAssumption`); TLC
evaluates them on every entry, the proofs use nothing else of the tables.

## 3. Runs

All passing runs are exhaustive, none uses a state constraint; symmetry is only
used in runs without liveness properties. Deadlock is checked except in
`executor_liveness`, whose terminal states are the subject of the property.

| Run | Checks | Instance |
|---|---|---|
| `executor_logback` | `NoMessageLost`, `GracefulShutdown`, `DrainIsBounded`, `ReceivedOnce`, `TypeOK` | a general and a dedicated pool of one thread each, channels of one, unlimited budgets and budgets of zero, one rule on the general and two on the dedicated channel, one POST, interval jobs, three messages |
| `executor_liveness` | `ShutdownTerminates`, `GetIsAnswered` | two general threads, a blocking generator, a GET, a type without rules, unlimited budget, failing storage, two messages, fairness |
| `storage` | `TypeOK`, `NeverUnderflows`, `CounterIsExact`, `OkMeansDone`, `GrowsWithinLimit`, `RefusedOnlyWhenFull` | two rules, two keys of different length, provider errors before and after the effect, restarts between three configurations: a limit of four bytes, no limit, no limit and one of the rules may only read |
| `logback_faults` | `TypeOK`, `ImplementsDelivery` (refinement), `PersistedIsSent` | two instances, one polling, two logbacks, delays of one or two ticks, two crashes, failing inserts and deletes, queue of one shared with other messages |
| `dg_faults` | `TypeOK`, `NoLogSkipped`, `SentOnce`, `CatchesUp` | three logs, a crash, failing fetches and inserts, caches of one and of two that evict, fairness |
| `dg_quiet` | `CatchesUpAfterOutage`: **violated** | two logs further apart than the window |
| `responses_modes` | `TypeOK`, `AnsweredByOwn` | all modes, two GETs, two threads, a response that is too long |
| `responses_lost` | `KeepsLastResponse`: **violated** | two threads |
| `responses_size` | `MaxSizeOnlyLimitsStorage`: **violated** | one GET, a response that is too long |
| `sources` | `TypeOK`, `DeletedWasSent`, `SentAgainOnlyWhenForgotten`, `OnTime`, `EveryTurn`, `TasksEnd` | each generator beside the other senders, a channel of one; three jobs, one of them run once; three SQS messages, one without body, a cache of two identifiers, a failing delete; two URIs; a shutdown and a crash |
| `host_calls` | `TypeOK`, `OkIsAcknowledged`, `RefusedIsUntouched`, `GivesUpAfterAllNodes`, `CallReturns` | every library function alone, in and out of test mode, blockchain ones with both selections; a read and a send over one node selector, and two npm calls over one cookie jar, on two threads; three nodes and retries, lists of two pages, one API not configured |
| `host_membership` | `MembershipIsKnown`: **violated** | the membership check alone |

Bounds. Channels of size one make every "full" branch happen with two messages;
two threads are what it takes for one to log back while the other leaves; three
messages are a first one, the logback it makes and one that meets a full channel
(`NoMessageLost` and `GracefulShutdown` with failing storage, and any number of
threads, messages and budgets, are proved, section 5); a limit of four bytes with keys of one and two bytes and
values of at most one byte makes two inserts that each fit exceed the limit together; two
crashes of `logback_faults` are a crash during the recovery from a crash; three
logs are what it takes for a cache of two to evict after a restart has reversed
it (the safety properties of `DataGenerator` are proved for any number of logs
and crashes); three nodes and three
retries are the least for which the last retry meets the last node; two pages are
a list that is not at its end; three messages are what it takes for a cache of
two to forget one; windows of five seconds
with `canon_time` one make adjacent windows overlap and a late log fall
in the overlap. `MaxId`, `MaxLen`, `MaxDelay`, `MaxCrashes`, `MaxFaults`,
`MaxOthers`, `MaxGap`, `Horizon`, `MaxPages`, `MaxLate` and `Cycle` are the named
bounds; they
guard the environment's actions (a new message, a crash, a tick), never a step
of the code that must follow another.

`Oversize = {}` in `logback_faults`: an oversize logback stays in the database
for ever (section 6), which only adds a constant to the state space;
`PersistedIsSent` excludes it by name.

## 4. Fairness and assumptions on the environment

* **Executor**: threads and tasks are scheduled (weak fairness). A rule ends
  (strong fairness of `NextRule`/`EndOfMessage`), because its computation is
  metered, although it may log back before. A generator's source runs dry in a
  turn (strong fairness of `GeneratorSleep`) and a client finishes or drops its
  body: the code has no timeout for either, and without them the shutdown need
  not end. No fairness for arrivals, logbacks or the signal. Every pool has at
  least one thread and a queue of at least one.
* **LogbackStore**: time passes, tasks run, threads take messages. `try_send`
  gives logbacks no place in a queue that others keep full, so `PersistedIsSent`
  also assumes that the load ends (`MaxOthers`).
* **DataGenerator**: the clock goes on, the executor takes messages, a fetch
  that is retried for ever succeeds infinitely often (strong fairness of
  `Fetch`). The source shows a log at most `canon_time` after it happened,
  answers in ascending order as the queries ask, may count either end of a
  window in or out, and has at most `lru_cache_size` logs in three consecutive
  seconds (guard `Room` of `Emit`; with more, duplicates are expected). `CatchesUp`
  holds because the source is never silent for the length of a window
  (`MaxGap`); `dg_quiet` is what happens when it is. It excludes a restart that
  finds a list ahead of the position (`ListAhead`, section 6).
* **Sources**: tasks, timers and the executor are scheduled (weak fairness). A
  sender that waits for room in a channel others fill gets it (strong fairness):
  crossbeam parks the senders of a full channel and wakes them in turn, which is
  an assumption on the library. SQS hides a received message for its visibility
  timeout and a visible one is received in the end (strong fairness of the
  service). A task that is aborted ends at its next await (strong fairness: the
  websocket task reaches one again and again). `MaxFaults` bounds failing deletes;
  with deletes that always fail the drain loop need not end. Nothing is assumed of
  the other side of a websocket: its steps have no fairness, because
  `establish_connection` has no timeout. `EveryTurn` therefore speaks of
  executions in which the client comes back to its selector again and again,
  that is in which no handshake hangs and no connection lasts for ever.
* **HostCall**: a request is answered or fails (the HTTP clients have timeouts or
  the connection breaks), so every step of a call has weak fairness. No service is
  assumed to answer truthfully, or to do what it said it did.

## 5. Proofs

**ExecutorProofs** proves, for any number of threads, pools, rules, generators,
requests and messages, of the specification without fairness:

* `TypeCorrectness`: `TypeOK`; a logback is charged only to a budget that covers it;
* `Conservation`: `NoMessageLost`;
* `ShutdownIsGraceful`: `GracefulShutdown`;
* `BoundedDrain`: `DrainIsBounded`;
* `NothingTwice`: `ReceivedOnce`, under `~StorageFails` (a failed delete does send a
  logback again).

From `ConstantsAssumption` only, but for the last. None of these is inductive alone; they follow
from one invariant (`IInv`, theorem `Invariance`):

* `Holdings`: who holds what at which place (a thread that runs has a message; only
  a running rule holds an immediate sender; the processor deletes exactly what
  it sent). It makes a hand-over a move instead of a copy or a loss.
* `Progress`: what has ended by the time main is at each place. It is why a
  dropped sender was the last one.
* `Departed`: a thread that left saw its channel empty and disconnected. Stable,
  because who lets go of a sender does not get it back (`TasksStayExited`,
  `Progress` for main and the server, `Holdings` for the rules).
* `LateOnce`: a thread between token check and `try_send` has not sent late yet,
  which turns "at most one" into an invariant.
* `SentIsForwarded`: what is about to be deleted from the database is already
  with the execution system, which is why the delete loses nothing.

`GracefulShutdown` is then `NoMessageLost` when every container but the
database is empty: queues by `Departed`, threads and tasks by `Holdings` and
`Progress`, the delayed channel by the last clause of `Progress`. `NothingTwice`
needs a second invariant, `InOnePlace`: every message is in one place at a time,
and none of the places holds one that was received before, but for the copy in
the database that is about to be deleted.

**StorageProofs** proves, for any callers, keys, lengths and limit:

* `StorageTypes`: `TypeOK` unconditionally, so the counter stays a word even when it
  has drifted;
* `OkIsTrue`: `OkMeansDone` unconditionally: whatever other rules do between the
  probe and the call proper, and whichever provider calls fail;
* `ExactCounter` (`CounterIsExact`), `QuotaIsKept` (`GrowsWithinLimit`),
  `RefusalsAreJustified` (`RefusedOnlyWhenFull`) and `NoUnderflow`
  (`NeverUnderflows`), each from any start until the provider applies a change
  under the lock and reports it as failed (`drifted`).

The invariant is `QuotaInv == TypeOK /\ Locked /\ Checked /\ CounterIsExact`:
`Locked` says that only the holder of the lock is between the check and the
update, `Checked` that what it computed is still the size the namespace will
have. The arithmetic rests on lemmas about `ByteSize`, defined as the
cardinality of a set of byte positions, so that replacing one entry changes the
size by the difference of the entries. `StorageAssumption` and `WordAssumption`
are used.

**ResponsesProofs** proves `TypeOK` and `AnsweredByOwn` (`TypeCorrectness`,
`OwnAnswer`), for any threads, requests, values and modes. A request is in one
place: not submitted (`Unsubmitted`), once in the channel (`Queued`) or with one
thread (`Running`), whose copy of the response is then what this request's
execution set; `Answers` carries that over the oneshot channel.

**LogbackStoreProofs** proves, for any instances, logbacks, crashes and storage
errors:

* `TypeCorrectness` (`TypeOK`); `NotDroppedUnsent`: a logback whose insert succeeded
  is in the database until some instance has sent it; `SentInTime`: none is sent
  before its delay has passed. The last two hold however many instances poll;
* `Refinement`: with at most one instance in the logbacks role (`OnePoller`), `Spec`
  implements `DelayedDelivery` (`ImplementsDelivery`). With two pollers it does not:
  both read the same entry and both send it, which no document excludes.

The invariant says that a logback in memory is in one channel or one hand and not
in the database (`InMemory`), that what the database has left to wait is never
less than what the rule asked for (`Punctual`), and that a poll deletes only what
it sent (`Sending`). For the refinement, `Exclusive` adds that what the only poller
holds is still in the database; each action is then one step of the abstract
specification or leaves `Stage` alone.

**DataGeneratorProofs** proves `TypeOK`, `NoLogSkipped` and `SentOnce`
(`TypeCorrectness`, `NothingSkipped`, `SentAgainOnlyIfExposed`), for any logs,
crashes, cache sizes and times. `NothingBehind` is the strengthening for
`NoLogSkipped`: neither the stored position nor any fetched log is past an unsent
one; it rests on `Times` (what is not visible is younger than `canon_time`, so no
window that is fetched ends after it). `SentOnce` needs `Recognised`: a log that
must not be sent again is in the cache, and everything in front of it happened
within a second of it. What happens in three consecutive seconds fits the cache
(`Capacity`), so it is not pushed out before the windows are past it. That
`PutBack` reverses the list is proved by well-founded induction over its length
(`<` on `Nat`, least counterexample).

**SourcesProofs** proves `TypeOK`, `DeletedWasSent`, `SentAgainOnlyWhenForgotten`
and `OnTime` (`TypeCorrectness`, `DeletesWhatItSent`, `SentAgainLate`, `JobsOnTime`), for any jobs,
schedules, messages, URIs and delays. For the interval jobs `Lateness` adds the
three delays up (falling asleep, waking, running), and `Recurring` says that the
time since a job ran and the time to its next run make at most a period. For SQS,
what is in the cache was sent or is in the hand of a task that is about to send it
(`SqsInv`), and of a message that was sent, `CacheInv` counts the other messages
that entered the cache since: only when they are as many as it has places is the
message gone. `ClosedLast` (the receivers go after the
tasks) is why the error of a send, which the code answers with a delete, does not
occur.

**HostCallProofs** proves, for any threads, deployments, configured APIs, nodes,
retries and pages, `TypeOK`, `RefusedIsUntouched` and `GivesUpAfterAllNodes`
(`TypeCorrectness`, `RefusalsAreClean`, `TriesEveryNode`). The invariant is one
formula of a call and the selector, `CallInv`: `Untouched` says that what is left of
a plan has no check once a change was asked for; `Rotating` that a call nobody
disturbed has tried the nodes the selector has left behind since, one for each retry, so that after as many retries as nodes
it is round. A lemma per action shows that the thread's own call keeps it, and
`OneCall`, `Disturbed` and `Elsewhere` that the others' do.

**SuccessProofs** proves `OkIsAcknowledged` (`SuccessIsAcknowledged`) on top of it.
`ConfirmationAssumption` speaks of single requests: the statuses a request for a
change counts as success are acknowledgements, and a request whose body may still
say no, or a transaction, is the last of its plan and the library looks at what it
returned. From it the proof shows that a change that was not acknowledged always
ends the call (`Told`): the host function has a result that the library function
does not take for success (`Hopeless`, whatever way it reads the code and the
buffer), or the library function has returned something else. `Planned` keeps the
assumption for what is left of a plan.

**Assumptions.** Each is named in the module that declares the constants and is
evaluated by TLC on the instances: ranges of the parameters (positive sizes,
finite sets, a `None` that is no other value) and, for `HostCall`, the rules of the
tables above. Two theorems have a hypothesis of their own, named above:
`~StorageFails` (`NothingTwice`) and `OnePoller` (`Refinement`).

**Model-checked only.** Liveness (`ShutdownTerminates`, `GetIsAnswered`,
`CallReturns`, `PersistedIsSent`, `CatchesUp`, `EveryTurn`, `TasksEnd`), which the
prover does not handle; and the properties of the four runs that expect a
violation. Every invariant and action property of a passing run is a theorem.

## 6. Findings and observations

Findings (a run shows them):

* **A quiet source stops a polling generator** (`dg_quiet`). `until` is capped to
  `since + max_since_until` and `last_seen` only moves with a new log
  (`data/mod.rs:580`, `:652`): when the next log is further away, every poll asks
  for the same window. `data/mod.rs:402` promises to catch up all logs after an
  outage shorter than `max_catchup`.
* **An old response overwrites a newer one** (`responses_lost`). An execution
  that sets no response writes back the one it was started with
  (`executor/mod.rs:521`, `:471`), although another execution stored a newer one
  since. `loader/mod.rs:276` describes the persistent response as data of the
  last invocation.
* **A long answer to a GET is dropped** (`responses_size`). The answer of a GET is
  sent on the branch on which the response is within `max_size`
  (`executor/mod.rs:468`); a longer one is answered with an empty page.
  `loader/mod.rs:278` says that the limit does not affect what GET requests
  return. A rule without `persistent_response_size` cannot answer a GET at all
  (`executor/mod.rs:459`).
* **The membership check says yes when it fails** (`host_membership`). The library
  function returns `Ok(res != 0)` (`src/runtime/plaid-stl/src/github/org.rs:41`)
  and every error of the runtime is a negative code: an API that is not
  configured, a refused parameter or a failed request make it answer that the
  user is a member. `org.rs:11` says that it checks whether the user belongs to
  the organisation, and the comment at `org.rs:39` has such errors in mind.

Observations (made while modelling; no run, because no document contradicts
them or the model excludes them by a named assumption):

* Immediate and delayed logbacks always go to the general pool
  (`functions/internal.rs:228`), also for a type with a dedicated pool.
* If the provider applied an insert that it reported as failed, the counter of
  a limited namespace is too low from then on: the namespace can grow past its
  limit, and a later overwrite or delete can take the counter below zero
  (`functions/storage.rs:107`, `:128`); the recount at the next start repairs it.
* A rule whose insert exceeds the limit is not told so: the library turns every
  code other than the expected length, `StorageLimitReached` included, into
  `ReturnBufferTooSmall` (`src/runtime/plaid-stl/src/plaid/storage.rs:48`, `:121`).
* Deleting a key whose value is empty returns Ok and leaves the key: the call
  proper has an empty buffer and is taken for a probe
  (`functions/storage.rs:635`).
* A delayed logback larger than `MAX_BYTES` is persisted, cannot be read back
  and is neither sent nor deleted (`executor/mod.rs:68`).
* The list of identifiers is stored most recently used first and put back in
  that order, so a restart reverses the eviction order (`data/mod.rs:538`); with
  a full cache the wrong ones are evicted first, and a log may be sent again after
  a restart although it was on the stored list. TLC shows it with three logs and a
  cache of two; `SentOnce` counts such restarts (`Exposed`).
* Also when the insert of the position fails and that of the list succeeds, a
  restart may ask for more than the list covers once the cache has evicted
  (`data/mod.rs:670`); `SentOnce` counts these restarts too. And the logs of the
  list are then ahead of the position but, being on the list, do not move it: if
  the next new log is beyond the window, the generator stays where it is, as in
  `dg_quiet`. `CatchesUp` excludes this case by name (`ListAhead`).
* An acknowledgement is not an effect. The npm website answers 200 whether or not a
  request worked (the comment at `npm_web_client.rs:180`), for instance when another
  call's login cleared the cookies (older than two minutes) between a login and the
  request that relies on it; GraphQL reports errors inside a 200, which the rule has
  to look for. `OkIsAcknowledged` says nothing about either, and leaves out the three
  functions of `Unconfirmed`, whose success says nothing of the change: a named
  request, `publish_empty_stub` and `pull_request_request_reviewers`. The age of
  the cookies is that of the last fresh login, not of the last request as
  `npm_web_client.rs:176` has it, because an unexpired login does not renew it.
* Test mode lets functions with an effect through: Slack's `views_open`,
  `post_message`, `update_message`, `schedule_message`, `delete_scheduled_message` and
  both webhooks (`functions/api.rs:588`-`:596`), `splunk_post_hec` (`:605`), GitHub's two
  GraphQL functions, and the named requests the operator marked.
  `loader/mod.rs:150` exempts storage, the cache, the persistent response and some
  named requests from "will not be able to make any API calls that cause side
  effects", and `:333` has no exemption; but `:156` leaves the choice to each API. The
  flags are in `HostFunctions`; no property is stated about them.
* npm: reading a list ends when exactly the expected number of items was read
  (`npm_web_client.rs:1022`); a list that changes meanwhile is read until a request
  fails. `CallReturns` excludes it (`past`).
* npm: `renew_granular_token` deletes the old token before it creates the new one;
  `publish_empty_stub` does not look at the registry's answer.
* Blockchain: two calls that fail at the same node both move the selector, so a
  call can skip a node and give up without having tried it
  (`node_selection.rs:82`; the comment at `:77` describes a single caller). A
  transaction whose answer was lost is sent again to the next node.
* Library: `pull_request_request_reviewers` drops the code that says the reviewers
  could not be requested; the OTP check of yubikey answers no on an error of the
  runtime, which is the safe side; the two KMS getters do not look at the code and
  rely on a zeroed buffer being no JSON, so that the kind of the error is lost
  (`src/runtime/plaid-stl/src/aws/kms.rs:350`); the import behind `aws_kms_get_key_policy` is
  not registered by the runtime, so a rule that uses it does not link.
* SQS: the drain loop and its blocking send do not look at the token; a queue that
  never runs dry, or deletes that always fail, delay a shutdown for as long. A
  message that was deleted and is still in the channel at a crash is lost. A
  message without a body is deleted only at its second delivery. After 4096 other
  messages a redelivered one is sent again. A failed send is followed by the delete
  all the same (`sqs/mod.rs:126`); it cannot happen while main joins the tasks
  before it drops the receivers.
* Interval: with an empty heap the task sleeps zero seconds and spins.
* Websocket: the first retry waits twice the configured minimum, because the
  back-off is doubled before it is used (`selector.rs:151`). A handshake that hangs
  keeps all other URIs from their turn: `establish_connection` has no timeout
  (`websocket/mod.rs:481`).

## 7. Not modelled

The contents of messages and requests, WASM linking beyond the names of imports
and metering, configuration parsing and secrets, tokens and JWT claims, metrics,
performance reports, the command line tools, the message accessors and the
cache: they keep no shared state or are input and output. `Storage` has one
instance: the counters of several instances on one database are a hazard
(`loader/mod.rs:506`) that no property covers. A failing log channel, which ends
a thread, is assumed away in `Executor`; that it refuses a host call is in
`HostCall`. `apply_migration` is used by `bin/db_migrator.rs` only, by hand; it
deletes an entry before it inserts its successor, so a crash between the two loses
it.

## 8. Plan

Done, in this order: `Executor` (the core) with its proofs, `Storage` with its
proofs, `LogbackStore`, `DataGenerator`, `Responses`; then the abstract
`DelayedDelivery`, the other sources, and the API functions with their library.

Then the proofs: every invariant and action property that a passing run checks,
and the refinement of `DelayedDelivery`, each component in a module of its own.

What the model could still gain: `Storage` with several instances, each with its
own counter on one namespace; the log channel and what its end does to the
threads; `apply_migration`. What could still be proved: the bound on the unsent
logs of a polling generator that lies behind `CatchesUp`, and the variants behind
the other liveness properties, as safety.

## 9. Running

```
tlc -config MCExecutor_logback.cfg MCExecutor      # any cfg with its MC module
tlapm ExecutorProofs.tla                           # any of the eight *Proofs modules
```

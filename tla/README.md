# Verification of rinhaback25

rinhaback25 is a payment broker for the Rinha de Backend 2025. Clients post payments; the
broker sends each of them to one of two external payment processors (the *gateways*, called
default and fallback), records in an LMDB database which gateway charged it, and answers
`GET /payments-summary` with the number and the sum of the payments per gateway.
`POST /purge-payments` forgets them all. The repository holds four variants of the program in
C++; in every one two API instances run behind a proxy and share memory and the database.

This directory holds TLA+ models of the parts of the program that are concurrent or can fail,
the configurations with which TLC checks them, and proofs that TLAPS checks. `PROJECT.json`
lists the components, the runs, the lines of code behind every definition, the mutants that
show that every property can be violated by a plausible mistake, and the hazards the properties
are aimed at.

## The system

The variants are `c++-boost-lmdb` (*boost*), `c++-boost-ipc-lmdb` (*ipc*), `c++-drogon-lmdb`
(*drogon*) and `c++-haproxy-mongoose-lmdb` (*haproxy*), each under `src/`. Most files of `src/api`
are the same in boost, ipc and drogon, save for names; haproxy differs as said below.

| component | state | operations | interacts with |
|---|---|---|---|
| Payment processor (`PaymentProcessor.cpp`) | the payment and the gateway of the attempt | dequeue, attempt, read the answer, switch and retry, drop, record | queue, current gateway, gateways, database |
| Gateway chooser (`GatewayChooserService.cpp`) | the current gateway in shared memory, the last known health of the gateways | poll, decide, store; `getGateway`, `switchGatewayTo` | gateways; the processors of both instances |
| Pending payments queue (`PendingPaymentsQueue.h`) | a queue, its mutex and condition variable | enqueue, dequeue with a timeout, purge | request handlers, processors |
| Payment service and repository | two LMDB databases | postPayment, getPaymentsSummary, purge | processors, request handlers |
| Database (`Database.cpp`, `Database.h`) | the LMDB environment; a named semaphore for start-up | open, transactions | both instances |
| IPC slot (ipc: `Protocol.h`, `proxy/main.cpp`, `api/main.cpp`) | a message in shared memory with two semaphores | write a request, signal, take, respond | proxy threads, handler threads of both instances |
| Proxy and sessions (boost) | one coroutine per connection, a round-robin counter; a pool of handler threads | acknowledge, forward, respond, report an error | clients, instances |
| Proxy and handlers (drogon) | pending requests of the framework, a round-robin counter | acknowledge, forward, respond; post, summarise, purge | clients, instances |
| HTTP server and signals (haproxy) | the finish flag, server threads | post, summarise, purge, finish | queue, processors, databases |
| Start-up (`SharedMemoryManager`, `Connection`, `IpcConnection`, `resolveBackends`) | names of segments, database files and semaphores; what each process has open | remove, create, construct, publish; open, wait | all processes of a deployment |

What is hard about each of them, and what makes it correct:

* **Payment processor.** The current gateway changes while a payment is on its way; connections
  break before or after the gateway has charged the payment; the database can fail after it was
  charged; in boost, ipc and drogon a refused payment is retried at once, in haproxy a payment is
  tried again after errors and lost answers. *Correct*: no payment is charged twice unless an answer
  was lost on the way, it is recorded for the gateway that charged it, every charge
  is recorded or lost for a reason that can be named, none is duplicated, and each is settled once the
  gateways recover.
* **Gateway chooser.** It compares its choice with a gateway it loaded before two slow polls, while the
  processors of both instances store the gateway too. *Correct*: it switches only with reason, and once the
  gateways' health stays the same the current gateway becomes the right one and stays so.
* **Queue.** notify after unlock, one waiter woken at a time, timeouts, spurious wake-ups, purges. *Correct*: it
  implements a queue with atomic operations, and no wake-up is lost.
* **Service and repository.** A summary reads two databases one after the other, a purge
  drops them in two transactions, and writes go on meanwhile. *Correct*: a summary is what both held at one moment; a
  purge forgets what was there when it began.
* **IPC slot.** One handler thread *per instance* waits on the same slot, and the proxy does not wait for the
  handler to read a payment before it overwrites the slot. *Correct*: tokens are conserved, a waiting proxy thread is answered,
  and requests that do not overlap in the slot are served exactly.
* **Proxy and sessions.** Payments are acknowledged before they are forwarded, errors come after the answer, deadlines pass on one connection
  while another is waited for, handlers run in a pool that no `catch` surrounds (boost) or in a framework that answers for them (drogon). *Correct*: no client gets two
  responses, an answer to a summary or a purge means it was carried out, an acknowledged payment reaches the queue of an instance or is lost to a nameable fault, and a purge
  that was answered takes no payment posted after the answer.
* **Start-up.** One process removes, creates and initialises what the others open by name, while files, segments and semaphores of an earlier run may still be there; waits on
  semaphores that hold one token (boost, drogon, ipc) or sleeps (haproxy) stand for the order. *Correct*: whoever is in service shares everything with the coordinator of the same
  run, and every start comes to an end that can be named.

## Modules

| module | models | extends / composes |
|---|---|---|
| `PaymentLedger` | what the service promises of payments: charged, recorded once, given up only after a fault | – |
| `PaymentFlow` | the life of a payment in boost, ipc and drogon: two instances, their processors, chooser and gateways as environment, purges | implements `PaymentLedger` |
| `PaymentFlowProofs` | its inductive invariant, its safety theorems and the refinement | `PaymentFlow` |
| `RetryingProcessor` | the same for an instance of haproxy: several processor threads, retries after errors, late requests, purges, the signal to finish | implements `PaymentLedger` |
| `RetryingProcessorProofs` | its inductive invariant, its safety theorems and the refinement | `RetryingProcessor` |
| `GatewayChooser` | the chooser's loop against the processors of all instances | – |
| `PaymentQueue` | what the queue promises: atomic enqueue, dequeue, purge | – |
| `PendingPaymentsQueue`, `PendingPaymentsQueueProofs` | the queue with its mutex and condition variable | implements `PaymentQueue` |
| `PaymentSummary`, `PaymentSummaryProofs` | a summary walking over two databases while they change | – |
| `IpcSlot`, `IpcSlotProofs` | one slot of the shared memory of ipc, one proxy thread, a handler thread per instance | – |
| `ProxyService` | what a client sees of the service, whichever proxy it talks to | – |
| `ReverseProxy` | boost: sessions of the proxy, of the instances, and the worker pools | implements `ProxyService` |
| `ReverseProxyProofs` | its inductive invariant, its safety theorems and the refinement | `ReverseProxy` |
| `DrogonProxy` | drogon: the handlers of the proxy and of the instances | implements `ProxyService` |
| `DrogonProxyProofs` | its inductive invariant, its safety theorems and the refinement | `DrogonProxy` |
| `Startup` | how the processes of a deployment find each other, in all variants | – |
| `CoordinatorProofs` | proofs about the coordinator: of `GatewayChooser` and of `Startup` | extends both |
| `MC…` | model values, symmetry and small sets for TLC | the module of that name |

Each model names the code in its comments; actions and variables keep the names of the functions
and fields where they can. Mutants, operators named `<definition>_<mistake>`, stand just before the definition they
are a mistaken form of and are used by no specification. Where a piece of code is the same in several variants, the map names
one of them.

### PaymentFlow

`pending[i]` is the queue of instance `i`, here a set: its order is the matter of `PendingPaymentsQueue`. `pc[i]`, `payment[i]` and `gateway[i]` are the
coroutine of `PaymentProcessor::processPayment`: `GetGateway` reads the shared current gateway, `Send` connects and writes, `ReadOk` and `ReadRefusal` read the
answer, `Record` is `PaymentService::postPayment`, and `ConnectionError` is the `catch` at the end. The retry is a recursive call, which
reads the current gateway again: `pc = "retry"` differs from `"choose"` in that only. `ChooserStores` lets the chooser store any gateway at any time, so what
is shown holds for every policy of the chooser. The gateways are external: they charge or refuse a request at any time
after it was sent, even when the connection has broken by then. `fate`, `doomed` and `purges` are history: what became of a payment, what a purge that is
under way has to forget, and the bound on purges. `QueuePurged` is FALSE for ipc, whose handler purges the databases only.

A database error can come up in a request handler too. In drogon (`Caught`) the framework catches it: `PurgeThrows` is a purge that ends before, in or between its two transactions and leaves the rest undone. In boost and ipc nothing does, so that a
summary or a purge that throws terminates the process (`ProcessEnds`), at any time, with the queue and the payment its processor has in hand; a gateway may charge that payment all the same. The compose files restart nothing. `purge[i]` tells a purge that got
through (`"done"`) from one that threw (`"idle"`), which makes no promise.

### PaymentLedger

The promise behind both processors: a payment is `new`, then `live`, and ends `recorded`, `cancelled` (purged before it was sent), `erased` (purged after it was recorded) or `lost`. What is
recorded for a gateway was charged by it, nothing is recorded twice, and what was cancelled is never charged. `Twice` and `Lossy` tell what the implementation cannot exclude: in
`PaymentFlow` no payment is charged at both gateways (`Twice` is FALSE), in `RetryingProcessor` a lost answer may do that. The refinement mappings compute `status` from `fate` and from what the gateways have charged.

### RetryingProcessor

The threads of haproxy share one queue. `NoAnswer` is `Post` returning no response, before or after the gateway got the request; a
request that nobody waits for any more stays in `late` and may still be charged. A gateway refuses (status 422) a correlation id that it has charged already; this is
how a payment whose answer was lost leaves the retry loop. `TryAgain` goes back to `getGateway` with no look at the
finish flag, which `Loop` does look at. `RecordThrows` is an exception that leaves a thread function: the process terminates. A purge drops one database after the other and then empties the
queue of its instance (`PurgeDefault`, `PurgeFallback`, `PurgeQueue`); a database that throws ends it midway. `Finish` and `StopServing` are the signal and the server threads that see it.

### GatewayChooser

`pc` walks through one iteration of `handler()`: `Load`, a poll of each gateway (`PollAnswered`, `PollFailed`), `Decide`, `WakeUp`. `health` holds
`defaultHealth` and `fallbackHealth`, `Unknown` for `std::nullopt`. `NewChoice` is the tree of conditions, written as the three cases in which
it comes out as the fallback gateway. A processor switches on any status other than ok, and any gateway that answers may give one (`AttemptRefused`), be it failing or not. The `lastCheck` clocks are left out: an iteration sleeps for `POLL_TIME` at its end, so that every iteration polls both. `actual` is the
external health. `switched` is history.

### PaymentQueue and PendingPaymentsQueue

`wait_for` is taken apart: the test under the mutex, sleeping with the mutex released, being woken or timing out, the
mutex taken again, the last test after a timeout. A notification wakes one sleeper, if there is one, and is otherwise without effect;
a sleeper may wake for no reason. Producers are the threads of the HTTP server, which enqueue and purge, consumers the processors. The
model is of haproxy, with several consumers and a finish flag that changes; the other variants are the case of one consumer and `Finishes = FALSE`.

### PaymentSummary

A payment has the time of its request as its key. `Position` puts the cursor on the first key that is not less than `from` *in the order of LMDB*, which
compares the bytes of the key as an unsigned number (`MDB_REVERSEKEY`), `Count` counts the entry under the cursor and moves on, `StopWalking` ends at the end or at an entry beyond
`to`, which is compared as a signed number. Totals are left out: a reader's `counted` is the set of payments it has counted. Write transactions are single steps and a read
transaction sees a snapshot, which is what LMDB provides.

### IpcSlot

The union of the slot is two fields, `head` (correlation id, range of a summary request, or summary) and `amount`. A field holds the number of the request it was
written for, and writes of several bytes take two steps, between which a reader gets `Garbage`. The proxy thread's `pc` follows `processRequest` and each handler's `hpc` follows `handler()`;
both instances have a handler on the slot. `handler()` catches nothing: an LMDB error in a summary or a purge, on this slot or on another of the same instance, terminates the process, and `InstanceEnds` may come at any time, between two bytes
of a write as well. A handler is then `"lost"` when it had a request in hand and `"ended"` when it had none; the proxy and the other instance go on. `forsaken` is history: such a request was lost since the proxy thread began to wait. `posted`, `enqueued`, `replies`, `asked`, `purged` and `overlapped` are history; `overlapped` says that the proxy began a request while an earlier one was
still to be read.

### ProxyService

What a client may rely on: it is answered at most once; a payment is told "ok" before or after an instance has got it; any other request is told "ok" only after an instance has carried it out, and an error at any
time, even after that. In both refinements `asked`, `got` and `done` are what the clients have asked, what they have been sent and what the handlers have finished.

### ReverseProxy

A session is a connection of a client with one request (both ends shut the connection down after it). `pc[s]` is the coroutine of the proxy and `api[s]` the request within the instance:
read, posted to the worker pool, queued there, run, answered by the session's own executor. `sendClosed` is `shutdown_send` on the client's side, after which nothing written
arrives. A handler that throws ends its process (`asio::thread_pool` has no handler for it), and the connections of that process break. Both streams of a session have a deadline of thirty seconds
(`expires_after`). That of the client's starts first: when an instance takes that long (`slow`), it passes before the error for the backend's can be written, which then may not arrive (`late`).

### DrogonProxy

The framework reads and writes, so that `pc[s]` is where the handler of the proxy and `api[s]` where the handler of the instance is. The counter is the same as in boost. The callback of a forwarded payment is
empty: whatever comes of it, nobody is told. A purge takes two steps, `PurgeDatabases` and `PurgeQueue`, between which payments arrive. `before[s]` and `purgedBy[s]` are history: the purges whose answer the client
of `s` may have seen, and those that took the payment off a queue.

### Startup

`at[p]` is the part of its start-up process `p` is in, in the order of the code: the chooser's segment (a static object, before `main`), the database, in ipc the slots, and for the proxies of boost and drogon
the lookup of the instances; `step[p]` is the step within it. A creator removes the name, creates the segment (empty, it cannot be mapped), truncates it (all zeros), constructs the object, and publishes it; an
opener opens by name, maps, and waits. `name`, `stage` and `ready` belong to the run of the coordinator that made the segment, for a removed one lives on for those who have it open. A semaphore made of zeros can be waited for, and its
construction forgets who waits (`forgotten`). `token` is the named semaphore of `Database.cpp`: one post, one wait. haproxy does not wait but sleeps for two seconds; the model lets the sleep end at any time. What throws before `main` or in the proxy
ends the process; in `run()` of an instance the exception waits for threads that never end (`stuck`), as far as they were started. `Connection()` throws where a file cannot be removed or LMDB returns an error (`ConnectionThrows`, `NoDatabase`), before or after the file was made.
In haproxy the threads are running by then: in a processor's thread the exception ends the process, and while `run()` is stuck a request may make the next connection (`ConnectAgain`), the coordinator's removing the file of the last one (`Removed` marks who has that open).
api2, and the proxy of ipc, are in the coordinator's pid and ipc namespaces, so that its end is theirs; the proxies of boost and drogon have namespaces of their own. `StopAll` ends a deployment and lets the
shared memory survive it or not, `StopOther` restarts one process. `nothingLeft` and `late` are history: the run found nothing of an earlier one, and the process started when the coordinator was in service.

## Runs

Every run ends within three minutes on two cores. "All faults" means every member of the module's `FaultKinds`.

| run | instance | shows |
|---|---|---|
| `flow_safety` | boost: 3 payments, 2 instances, all faults, 1 purge, symmetry | `ChargedOnce`, `ChargeAccountedFor`, `EachInOnePlace`; `ImplementsLedger` (a refinement of `PaymentLedger`) |
| `flow_settles` | drogon: 2 payments, 2 instances, all faults but failing commits, 3 purges that may overlap and throw, fair | `PurgeForgets`, `EveryPaymentSettles` |
| `flow_retry` | 1 payment, 1 instance | a violation of `RetriesWithOther`, see Findings |
| `retry_safety` | 2 payments, 2 threads, all faults, 1 purge, symmetry | `ChargedTwiceOnlyUnanswered`, `ChargeAccountedFor`, `EachInOnePlace`; `ImplementsLedger` |
| `retry_liveness` | 2 payments, 1 thread, all faults, fair | `EveryPaymentSettles`, `Finishes` |
| `chooser` | 2 instances, response times 50, 100, 101, any status from a gateway that answers, 1 change of health, fair | `ChoiceIsCurrent`, `SwitchesAreJustified`; `ComesBack`, `Converges` |
| `queue` | 2 payments, 2 producers, 2 consumers, fair | `NeverPopsEmpty`, `NoLostWakeUp`; `ImplementsQueue` (a refinement of `PaymentQueue`), `EveryPaymentLeaves` |
| `summary_safety` | 3 payments, two of them at one time, 4 writes, 1 reader, `from` and `to` absent, before 1970, at the payments and beyond | `SummaryIsOneMoment` |
| `ipc` | 3 requests of any kind, 2 handlers whose instances may end, fair | `TokensBalance`, `AwaitIsServed`, `NoPhantomPayments`, `SpacedSlotIsExact`, `AwaitEnds` |
| `proxy` | 3 sessions, 2 instances of 1 pool thread, all faults, fair | `AckedIsKept`; `ImplementsService` (a refinement of `ProxyService`), `EveryRequestAnswered`, `SentIsEnqueued` |
| `drogon` | 3 requests, 2 instances, all faults, fair | `AckedIsKept`, `PurgeSparesLater`; `ImplementsService`, `EveryRequestAnswered` |
| `startup` | boost, ipc and haproxy, exceptions of `Connection()`; 2 runs of the coordinator, in each 2 starts of the second instance and 1 of the proxy, fair | `SharesWithCoordinator`; `EveryStartSettles`, `LateOpenerServes` |

The comment above each property in its module says what it means and what it is about in the code. The type invariant of a module is
checked in a run (`retry_safety`, `proxy`, `startup`), proved (every `Typing` theorem), or both.

### Bounds, and why they are enough

* *Payments, instances, threads.* The program runs two instances. A processor holds one payment, so that three payments fill both processors and leave one in a queue;
  the liveness runs, which cannot use symmetry, have two. A second consumer, a second processor or a second handler is what every race in this code needs; a third one only repeats it. In ipc `PaymentFlow` is that of boost without `PurgeQueue`; the theorems cover it, since they hold for every value of `QueuePurged` and `Caught`. The theorems of `PaymentFlow`, `RetryingProcessor`, `GatewayChooser`, `IpcSlot`, `ReverseProxy`, `DrogonProxy` and the queue hold for any number (of threads and handlers: any finite one), those of `Startup` for any number of runs and starts.
* *Purges* (`MaxPurges`): two overlapping ones are needed for one to see another's first transaction committed, and a third one to come after, or between, one that threw midway. One is enough where the property is not about them.
* *Health changes* (`MaxHealthChanges`): the initial health is arbitrary, so one change reaches every pair of last known and actual health. It must be finite for `ComesBack` and `Converges`.
* *Response times*: 100 is the threshold, 101 exceeds it, is more than twice 50 and less than twice 100; 100 is twice 50. The theorems hold for every time.
* *Requests on a slot* (`MaxRequests`): an overwritten payment takes two requests, and a response that the tokens of both earlier ones may produce a third. The theorems have no such bound.
* *Sessions*: two of three share a backend, and with one pool thread per instance one of them has to wait in the pool.
* *What clients ask for* (`Mixes`): requests differ in their kind only, so that the mixes are taken up to their order. Those of boost have a payment and something else, those of drogon every combination with at most
  one summary and one invalid payment, up to three purges among them.
* *Runs and starts* (`MaxRuns`, `MaxStarts`): what an earlier run leaves takes two runs; a token that a predecessor took, two starts of the second instance in one run. The proxy neither takes anything nor makes anything, so that one start of it per run shows what it can meet.
* *Writes* (`MaxWrites`): with four, payments get recorded in both databases before the request and change in both between the two walks.
* *Dates* (`HalfRange`): keys are numbers of three bits instead of 64. The theorem has no such bound.

### Fairness, and why the code justifies it

* `PaymentFlow`: the processor's coroutine goes on (weak fairness of `Work(i)`, which does not include faults), gateways answer requests, and a gateway that is asked over and over accepts in the end. No exception has to occur and any may. The last is an assumption on the environment: in the
  code a payment that both gateways refuse for ever is retried for ever.
* `RetryingProcessor`: threads that can move do; a gateway that is tried again and again is reached and answers with something else than 5xx in the end (strong fairness of `Send`, of the gateway's answer and of reading it). Without it the
  retry loop goes on for ever.
* `GatewayChooser`: the chooser's thread runs, the requests of processors are answered, and a gateway polled for ever answers in the end. `ComesBack` assumes nothing of what the gateways answer to payments. `Converges` has a premise on it, `OnlyFailingRefuse`: from some time on only gateways that fail refuse
  payments. Without it `Converges` is false, since a refusal of one payment (a 422, say) makes a processor switch. The polls have no timeout, so a gateway that accepts a connection and never
  answers would stop the chooser: that is outside the model's fairness and listed as a hazard.
* `PendingPaymentsQueue`: strong fairness of threads, since they compete for a mutex that the operating system grants fairly enough that none is passed over for ever. Nothing is assumed of timeouts, spurious wake-ups or the signal.
* `IpcSlot`: the proxy thread goes on with the request it has, and each handler with the one it took as long as its instance lives. Nothing is assumed of `PaymentService`: an instance may end at any step, also while it carries out a summary or a purge. `AwaitEnds` holds up to the
  two cases that leave nobody to answer, an instance that ended with a request in hand and two that have ended. New requests are not assumed.
* `ReverseProxy`: coroutines and pool threads of running processes go on, and operations on the connection of a terminated process fail. No fault has to occur, and no deadline has to pass.
* `DrogonProxy`: the event loops of the framework run the handlers and callbacks that are ready.
* `Startup`: a process that was started takes its steps (weak fairness of `ProcessStep`), and the lock of LMDB's writers is not denied for ever to one that waits for it (strong fairness of `BeginTransaction`: a writer that holds it ends its transaction, but processes
  that come and go might take it first each time). Starts, stops, restarts, exceptions and the requests that make haproxy connect again are never assumed, and never excluded.

`PaymentLedger`, `PaymentQueue` and `ProxyService` state safety only: what must happen in the end is stated of the modules that implement them, where the fairness can be
justified.

Deadlock is checked in `chooser`, `queue` and `summary_safety`, whose threads run for ever. The other
instances stop when all their payments are settled or their requests answered.

## Proofs

Each `IInv` was checked with TLC before it was proved; the runs do not list it, since the proof says more. TLAPS proves the following, for every value of the constants that satisfies the assumptions stated with them.

* **`PaymentFlowProofs`**: `TypeOK`, `ChargedOnce`, `RecordedWasCharged`, `ChargeAccountedFor`, `EachInOnePlace`. None of these is inductive: that a payment is charged once depends on
  the fact that a payment in a queue, or about to be sent again, is unknown to both gateways. `IInv` says what the gateways know of a payment from the place its processor is at: nothing of a payment in a queue,
  chosen, or refused (`NotSentYet`); it is a request at, or charged by, the gateway of the attempt while the answer is awaited or recorded (`SentTo`); and at most one gateway knows it (`KnownOnce`). `HandAndPc` and `NoStaleAnswer` tie the
  processor's variables to its place, and `LossesAreFaults` tells which fates need which fault; a process that has ended has nothing in hand. The proof has one lemma per part, each with one step per action.
  Then `PurgeForgets`: what a purge has to forget (`doomed`) was recorded when it began, and a payment that is recorded or purged is never recorded again (`Settles`), so that a database once dropped does not get it back, however
  the processors, the transactions of other purges, their exceptions and the end of a process come in between (`PurgeProgress`). A purge that throws has to forget nothing, which is why the theorem speaks of those that got through.
  And `ImplementsLedger`, that every step of `PaymentFlow` is a step of `PaymentLedger` under the mapping or leaves the ledger alone. `IInv` gives the guards of the ledger's steps: what is recorded is charged and live, what a
  queue holds is charged by nobody (so that purging it cancels), and only a fault gives a payment up. One fact more is needed, and proved inductive with it: no gateway has a purged payment in hand (`PurgedIsIdle`), since a payment
  that was cancelled and charged later would be a step the ledger does not have. Each handler has a lemma that names its step of the ledger.
* **`CoordinatorProofs`**, of `GatewayChooser`: `TypeOK`; `ChoiceIsCurrent` from the invariant that, until a processor switches, the loaded gateway is still the current one when the chooser decides; and `SwitchesAreJustified`, from
  the fact that choosing again changes nothing (`NewChoiceIdempotent`).
  Of `Startup`: `StartupTypeOK` and `SharesWithCoordinator`, for any set of the variants, any number of runs of the coordinator and of starts of the others. (The definitions that both modules would have named alike, `Spec`,
  `TypeOK` and so on, carry the name of `Startup` there, so that one module can extend both.) What an opener holds is of this run only because of what the coordinator had done when it opened it, so `StartupIInv` says
  for each place of the coordinator, the joins of an exception among them, what exists: which segment has the name of this run and how far it is built (`Names`, `Built`), that there is no token in a run that found none before the coordinator posts one (`Tokens`), and which file
  has the database's name (`Databases`). `Places` tells which steps belong to which part of the way to service, and that nobody is up while the coordinator is down. `HeldSegments` and `HeldDatabases` then follow an opener: a segment that a waiting
  variant has left behind is built, since a token or the flag was found in it; what a process of a run that found nothing left, or one
  that started when the coordinator was in service (`Sheltered`), has open is this run's; and such a process opens the database only after the token that is posted when the file is there, or, in haproxy, finds the file of this run or none. One lemma per action shows that it keeps each part.
* **`PendingPaymentsQueueProofs`**: `TypeOK`, for which one must know that a payment is in one place only, or the sequence would not stay one of distinct payments; `NeverPopsEmpty`, from the invariant that a thread in a locked section holds the mutex and is alone in it; and that the queue implements `PaymentQueue`: the initial states map to initial states,
  and each step to a step of the abstract queue or a stutter. The identity on `queue`, `delivered` and `nothing` is the refinement mapping.
  `NoLostWakeUp` is inductive with the mutex's invariant. It counts the producers about to notify and the consumers that will look into the queue, which is why `FiniteAssumption` asks for finite sets of threads: a payment's producer counts until it
  has notified, then the consumer it woke does, and a consumer goes to sleep only when it has seen the queue empty.
* **`IpcSlotProofs`**: `TypeOK`, `TokensBalance`, `AwaitIsServed`, `NoPhantomPayments`, by counting tokens, for any finite set of handlers. The invariant adds which request reaches which step of the proxy and that the type in
  the slot is that of the request being signalled (`ProxyPlace`): a handler that takes the token of an earlier payment while the proxy waits for a summary serves the summary, and the later token then finds nobody to
  answer but the payment's count. A token lost with an instance stays among those in a handler's hands, and what the proxy waits for in vain is one of them (`ForsakenIsLost`), so that the count of payments holds while it waits for ever. `SpacedSlotIsExact` is proved from `Exact`, which holds as long as no request came before the one ahead of it was read: there is one token at most and none while the proxy writes (`OneToken`), so that
  there is one writer (`OneWriter`), the slot and what a handler has copied of it are those of the last request or of its response (`SlotHolds`, `CopyIsExact`), and the histories agree but for that request
  (`PaymentsAreExact`, `PurgesAreExact`), or what of it was lost with an instance. Each action has a lemma that says it keeps `Exact`, or that requests overlap.
* **`PaymentSummaryProofs`**: `TypeOK`, `SummaryIsOneMoment`. The invariant is that of a loop: what a reader has counted, together with what is in range ahead of its cursor, makes up the answer for its snapshot (`WalkIsOnTrack`); and the snapshot's answer is
  among those since the request came (`SnapshotIsAMoment`), since it was the current one when the transaction began (`NowIsAMoment`). That keys are ordered as unsigned numbers enters with `KeyOrder` and `FromOrder`.

* **`RetryingProcessorProofs`**: `TypeOK`, `ChargedTwiceOnlyUnanswered`, `ChargeAccountedFor`, `EachInOnePlace`, `ImplementsLedger`. The invariant follows a payment that has never lost an answer: when it is charged and neither recorded, purged nor lost to the
  database, its worker has the answer in hand (`Accounted`). A worker that sends it again has no such answer, so that the gateways do not know it (`Untried`), and a second charge, or a refusal of what was charged, needs an answer that was lost. For the ledger without `Twice`, when
  the fault `noAnswer` is excluded, answers are lost only as the process terminates: each payment then has at most one request under way and is not charged yet (`LostAtTheEnd`).
  From the refinement the instance inherits what is proved of the ledger: a payment is counted once and at a gateway that charged it (`BooksAreKept`), though it may be charged twice; and one that a purge took from the queue
  uncharged stays so (`CancelledIsFinal`).
* **`ReverseProxyProofs`**: `TypeOK`, `AckedIsKept`, `ImplementsService`, for any number of sessions and of workers at the two backends. What a client has been answered follows from the place of its session (`Answers`), the instance has the request only when it was sent
  (`Forwarded`), and has carried it out before it replies (`Handled`). `Pools` is what the pool of threads adds: a job is there once, in the pool of its own instance and with no worker; without it two workers could run one handler, and the
  second would find it carried out already.
* **`DrogonProxyProofs`**: `TypeOK`, `AckedIsKept`, `PurgeSparesLater`, `ImplementsService`, for any number of requests of any kind. The invariant ties the two handlers of a request together: what the proxy has answered follows from the place of its handler (`Answers`), the
  instance has a request only when it was sent (`Forwarded`), has replied to all it carried out (`Replies`), and has the payments it replied to in its queue unless purged (`Keeps`). `PurgeSparesLater` rests on `PurgesAreOver`: a purge whose answer was read has no step left.

The steps `CopyAmount` and `CopyId` of `IpcSlot` replace a handler's record as a whole. With two updates of one record in an `EXCEPT`, where the second refers to the old value, tlapm 1.4.5 derives a contradiction;
that none of the lemmas rests on one was checked by asking for `FALSE` from the hypotheses of each.

Only model-checked: the liveness properties (`EveryPaymentSettles`, `Finishes`, `EveryPaymentLeaves`, `AwaitEnds`, `EveryRequestAnswered`, `SentIsEnqueued`, `ComesBack`, `Converges`, `EveryStartSettles`, `LateOpenerServes`), which are outside what TLAPS 1.4 proves. Every invariant and every action property that a run checks, and every refinement, is proved.

## Findings

*Code and comment disagree* (`flow_retry`). The comment in `PaymentProcessor.cpp` line 153 says "Try again with the other gateway". The recursive call reads the shared current gateway again; when the chooser, or
the processor of the other instance, stores the refusing gateway between the switch and that read, the payment goes to the gateway that has just refused it. `RetriesWithOther` states the comment. No payment is
harmed (`ChargedOnce` holds all the same).

What the models show besides, and no text of the repository denies:

* ipc: payments in quick succession through one proxy thread may be lost, enqueued twice or mixed, since nothing keeps the proxy from overwriting the slot. `SpacedSlotIsExact` says exactly when it does not happen, and `NoPhantomPayments` bounds the damage.
* ipc: an LMDB error in a summary or a purge terminates the instance, and the proxy thread whose request it had waits for ever, since `responseReady.wait()` has no timeout (`AwaitEnds` names this case).
* boost, ipc: such an error ends the process with everything in its queue (`ProcessEnds`; `ChargeAccountedFor` counts these losses). drogon: a purge that throws between its transactions has emptied one database and not the other.
* A healthy gateway that refuses payments moves the current gateway away from itself each time; the chooser brings it back (`ComesBack`), but it does not stay.
* boost, drogon, ipc: when the coordinator's `Connection()` throws, its main thread stays in the joins and the second instance waits for ever for the token (`EveryStartSettles` names this case).
* ipc: a purge leaves the queues, so that payments posted before it are recorded after it.
* boost: when an instance takes more than thirty seconds, the deadline of the client's connection has passed before the proxy writes its error, and the client may get no answer (`EveryRequestAnswered` says so).
* boost, ipc, drogon: a second instance that starts while segments or tokens of an earlier run are there may open what the coordinator is about to remove, and one that is restarted alone waits for ever for a token its predecessor
  took. `SharesWithCoordinator` and `LateOpenerServes` state when this cannot happen, and `EveryStartSettles` names the ways in which a start ends.
* A summary whose `from` is before 1970 is empty: as a key it lies beyond all others. `SummaryIsOneMoment` leaves these requests out.
* haproxy: a payment that was charged and whose answer was lost is dropped, unrecorded, when the same gateway refuses it as known, and charged again when another gateway is asked.

## Not modelled, and why

* **Errors of the listening sockets** (boost, ipc): an error other than an abort ends the accept loop; nothing follows from it but that no more connections come.
* **Errors in creating shared memory** (the system refuses to create, size or map a segment): a process that meets one ends as by the exceptions that are modelled.
* **Configuration, date and address parsing, JSON**: no state; a request that does not parse is a kind of request (`invalid`, `malformed`, `badDate`) or a throwing handler in the models.
* **The sums of amounts**: additions of doubles in the order of the walk; only which payments are counted is modelled.
* **LMDB, Boost.Asio, drogon, mongoose, HAProxy, the payment processors**: external; modelled as the code uses them.
* **Build files, containers, vcpkg ports**: no program logic. The compose files enter `Startup` as what they say about namespaces and volumes.

## Plan

Written, in this order, the most important behaviour first: `PaymentFlow`, `GatewayChooser`, `PaymentQueue` and `PendingPaymentsQueue`, `IpcSlot`, `RetryingProcessor`, `ReverseProxy`, `PaymentSummary`, then `Startup`, `ProxyService` and
`DrogonProxy`, `PaymentLedger`, with the proofs listed above. Left: a composition of the queue with `PaymentFlow`: instances whose `pending` is the abstract `PaymentQueue`, shown to implement `PaymentFlow`.

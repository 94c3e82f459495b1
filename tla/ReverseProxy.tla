----------------------------- MODULE ReverseProxy -----------------------------
(***************************************************************************)
(* Sessions of the proxy and of the two API instances in the boost variant *)
(* (Session of the proxy, sessionHandler and its worker pool of the API).  *)
(*                                                                         *)
(* The proxy answers a payment at once, closes its side of the connection  *)
(* to the client and only then looks for a backend; every other request is *)
(* forwarded and answered with what the backend says, or with an error.    *)
(* The API acknowledges a payment too before it hands the request to its   *)
(* worker pool, where the handler runs; the other requests are answered by *)
(* the worker.  An exception that leaves a handler terminates the process. *)
(***************************************************************************)
EXTENDS Naturals, Sequences, FiniteSets

CONSTANTS Sessions,       \* the connections of clients, one request each
          Mixes,          \* what the clients may ask for, functions from Sessions to Kinds
          HandlerWorkers, \* the threads of the worker pool of an instance
          Faults          \* a subset of FaultKinds

FaultKinds == {"connection", \* the proxy cannot connect to, write to or read from a backend
               "request",    \* an instance cannot read a request, or its target
               "handler",    \* a handler throws
               "slow"}       \* an instance takes longer than the deadlines of the proxy

ASSUME FaultsAssumption  == Faults \subseteq FaultKinds
ASSUME WorkersAssumption == HandlerWorkers \in Nat \ {0}

Backends == {0, 1}

\* A payment, one whose body lacks a proper id or amount, any other request.
Kinds == {"payment", "invalid", "proxied"}

ASSUME MixesAssumption == Mixes \subseteq [Sessions -> Kinds]

VARIABLES
  nextBackend, \* the round-robin counter
  kind,        \* kind[s]: what the client of session s asked for
  pc,          \* pc[s]: where the coroutine of the proxy is
  backend,     \* backend[s]: the backend it has picked
  got,         \* got[s]: the responses the client has got
  sendClosed,  \* sendClosed[s]: shutdown_send was called on the client's connection
  api,         \* api[s]: where the request is in the backend
  pool,        \* pool[b]: the jobs of the worker pool of b, oldest first
  replied,     \* replied[s]: the worker's answer is on the connection to the proxy
  enqueued,    \* enqueued[b]: the payments handed to the queue of b (history)
  served,      \* served[s]: the handler of s has run (history)
  up,          \* up[b]: the process of b runs
  late,        \* late[s]: the deadline of the client's connection has passed
  failed       \* the sessions that met a connection error (history)

clientVars == <<got, sendClosed, late>>
proxyVars == <<nextBackend, kind, pc, backend, clientVars, failed>>
apiVars   == <<api, pool, replied, enqueued, served, up>>
vars      == <<proxyVars, apiVars>>

Init ==
  /\ nextBackend = 0
  /\ kind \in Mixes
  /\ pc = [s \in Sessions |-> "new"]
  /\ backend = [s \in Sessions |-> 0]
  /\ got = [s \in Sessions |-> <<>>]
  /\ sendClosed = [s \in Sessions |-> FALSE]
  /\ api = [s \in Sessions |-> "none"]
  /\ pool = [b \in Backends |-> <<>>]
  /\ replied = [s \in Sessions |-> FALSE]
  /\ enqueued = [b \in Backends |-> {}]
  /\ served = [s \in Sessions |-> FALSE]
  /\ up = [b \in Backends |-> TRUE]
  /\ late = [s \in Sessions |-> FALSE]
  /\ failed = {}

IsPost(s) == kind[s] \in {"payment", "invalid"}

-----------------------------------------------------------------------------
(* The proxy.                                                              *)

Goto(s, where) == pc' = [pc EXCEPT ![s] = where]

\* Mutant: the connection to the client stays open after a response.
WriteResponse_WithoutShutdown(s, status) ==
  /\ \/ got' = [got EXCEPT ![s] = Append(@, status)]
     \/ late[s] /\ UNCHANGED got
  /\ UNCHANGED <<sendClosed, late>>

\* writeResponse: what is written after shutdown_send does not arrive, and what
\* is written after the deadline may not.
WriteResponse(s, status) ==
  /\ \/ ~sendClosed[s] /\ got' = [got EXCEPT ![s] = Append(@, status)]
     \/ (sendClosed[s] \/ late[s]) /\ UNCHANGED got
  /\ sendClosed' = [sendClosed EXCEPT ![s] = TRUE]
  /\ UNCHANGED late

\* readRequest and determineHandler.
Accept(s) ==
  /\ pc[s] = "new"
  /\ Goto(s, IF IsPost(s) THEN "ack" ELSE "pick")
  /\ UNCHANGED <<nextBackend, kind, backend, clientVars, failed, apiVars>>

\* Mutant: the session ends after the answer.
Acknowledge_AndEnd(s) ==
  /\ pc[s] = "ack"
  /\ WriteResponse(s, "ok")
  /\ Goto(s, "end")
  /\ UNCHANGED <<nextBackend, kind, backend, failed, apiVars>>

\* handlePostPayment
Acknowledge(s) ==
  /\ pc[s] = "ack"
  /\ WriteResponse(s, "ok")
  /\ Goto(s, "pick")
  /\ UNCHANGED <<nextBackend, kind, backend, failed, apiVars>>

\* Mutant: the counter itself is the index.
PickBackend_NoModulo(s) ==
  /\ pc[s] = "pick"
  /\ backend' = [backend EXCEPT ![s] = nextBackend]
  /\ nextBackend' = nextBackend + 1
  /\ Goto(s, "connect")
  /\ UNCHANGED <<kind, clientVars, failed, apiVars>>

\* The next backend in turn (a size_t, far from its limit).
PickBackend(s) ==
  /\ pc[s] = "pick"
  /\ backend' = [backend EXCEPT ![s] = nextBackend % 2]
  /\ nextBackend' = nextBackend + 1
  /\ Goto(s, "connect")
  /\ UNCHANGED <<kind, clientVars, failed, apiVars>>

Connect(s) ==
  /\ pc[s] = "connect" /\ up[backend[s]]
  /\ Goto(s, "send")
  /\ UNCHANGED <<nextBackend, kind, backend, clientVars, failed, apiVars>>

\* The request is written; the proxy does not wait for the answer to a payment.
SendRequest(s) ==
  /\ pc[s] = "send" /\ up[backend[s]]
  /\ api' = [api EXCEPT ![s] = "sent"]
  /\ Goto(s, IF IsPost(s) THEN "end" ELSE "await")
  /\ UNCHANGED <<nextBackend, kind, backend, clientVars, failed,
                 pool, replied, enqueued, served, up>>

\* Its process has terminated, or has closed the connection.
NoBackend(s) == ~up[backend[s]] \/ api[s] = "closed"

\* Mutant: an error on the way to the backend is only logged.
BackendError_OnlyLogged(s) ==
  /\ pc[s] \in {"connect", "send", "await"}
  /\ "connection" \in Faults \/ NoBackend(s)
  /\ failed' = failed \cup {s}
  /\ Goto(s, "end")
  /\ UNCHANGED <<nextBackend, kind, backend, clientVars, apiVars>>

\* Connecting, writing or reading fails: sendErrorResponse, even for a payment
\* that was acknowledged.
BackendError(s) ==
  /\ pc[s] \in {"connect", "send", "await"}
  /\ "connection" \in Faults \/ NoBackend(s)
  /\ failed' = failed \cup {s}
  /\ WriteResponse(s, "bad gateway")
  /\ Goto(s, "end")
  /\ UNCHANGED <<nextBackend, kind, backend, apiVars>>

\* Thirty seconds after the client connected.  The deadline cancels nothing
\* here, for nothing is being read from or written to the client meanwhile; it
\* only matters to those who wait for their answer.
DeadlinePasses(s) ==
  /\ "slow" \in Faults
  /\ pc[s] = "await" /\ ~late[s]
  /\ late' = [late EXCEPT ![s] = TRUE]
  /\ UNCHANGED <<nextBackend, kind, pc, backend, got, sendClosed, failed, apiVars>>

\* Thirty seconds after the proxy turned to the backend, hence after the
\* deadline of the client: whether the error response arrives is left to chance.
BackendTimeout(s) ==
  /\ "slow" \in Faults
  /\ pc[s] = "await" /\ late[s]
  /\ WriteResponse(s, "bad gateway")
  /\ Goto(s, "end")
  /\ UNCHANGED <<nextBackend, kind, backend, failed, apiVars>>

\* readBackendResponse and forwardResponseToClient.
ForwardResponse(s) ==
  /\ pc[s] = "await" /\ replied[s]
  /\ WriteResponse(s, "ok")
  /\ Goto(s, "end")
  /\ UNCHANGED <<nextBackend, kind, backend, failed, apiVars>>

-----------------------------------------------------------------------------
(* The API instance of session s: sessionHandler.                          *)

Step(s, from, to) ==
  /\ api[s] = from /\ up[backend[s]]
  /\ api' = [api EXCEPT ![s] = to]

\* sessionHandler returns without an answer: the connection closes.
RequestFails(s) ==
  /\ "request" \in Faults
  /\ Step(s, "sent", "closed")
  /\ UNCHANGED <<proxyVars, pool, replied, enqueued, served, up>>

\* The request has been read; a payment is answered before it is handled.
ReadRequest(s) ==
  /\ Step(s, "sent", "post")
  /\ replied' = [replied EXCEPT ![s] = IsPost(s)]
  /\ UNCHANGED <<proxyVars, pool, enqueued, served, up>>

\* Mutant: a payment that was answered is done with.
PostToPool_NotForPayments(s) ==
  /\ Step(s, "post", IF IsPost(s) THEN "done" ELSE "queued")
  /\ pool' = IF IsPost(s) THEN pool ELSE [pool EXCEPT ![backend[s]] = Append(@, s)]
  /\ UNCHANGED <<proxyVars, replied, enqueued, served, up>>

\* asio::post(*workerPool, ...)
PostToPool(s) ==
  /\ Step(s, "post", "queued")
  /\ pool' = [pool EXCEPT ![backend[s]] = Append(@, s)]
  /\ UNCHANGED <<proxyVars, replied, enqueued, served, up>>

Running(b) == {s \in Sessions : backend[s] = b /\ api[s] = "running"}

StartJob(b) ==
  /\ up[b] /\ pool[b] # <<>>
  /\ Cardinality(Running(b)) < HandlerWorkers
  /\ api' = [api EXCEPT ![Head(pool[b])] = "running"]
  /\ pool' = [pool EXCEPT ![b] = Tail(@)]
  /\ UNCHANGED <<proxyVars, replied, enqueued, served, up>>

\* The handler runs; an invalid payment is ignored.
RunHandler(s) ==
  /\ Step(s, "running", IF IsPost(s) THEN "done" ELSE "respond")
  /\ enqueued' = IF kind[s] = "payment"
                 THEN [enqueued EXCEPT ![backend[s]] = @ \cup {s}] ELSE enqueued
  /\ served' = [served EXCEPT ![s] = TRUE]
  /\ UNCHANGED <<proxyVars, pool, replied, up>>

\* The session's own thread writes what the worker has prepared.
WriteReply(s) ==
  /\ Step(s, "respond", "done")
  /\ replied' = [replied EXCEPT ![s] = TRUE]
  /\ UNCHANGED <<proxyVars, pool, enqueued, served, up>>

\* The exception reaches the thread of the pool: the process terminates, with
\* every request it has not finished.
HandlerThrows(s) ==
  /\ "handler" \in Faults
  /\ api[s] = "running" /\ up[backend[s]]
  /\ up' = [up EXCEPT ![backend[s]] = FALSE]
  /\ UNCHANGED <<proxyVars, api, pool, replied, enqueued, served>>

-----------------------------------------------------------------------------

Proxy(s) ==
  \/ Acknowledge(s) \/ PickBackend(s) \/ Connect(s) \/ SendRequest(s) \/ ForwardResponse(s)
  \/ NoBackend(s) /\ BackendError(s)

Api(s) == ReadRequest(s) \/ PostToPool(s) \/ RunHandler(s) \/ WriteReply(s)

Next ==
  \/ \E s \in Sessions :
       \/ Accept(s) \/ Proxy(s) \/ BackendError(s) \/ DeadlinePasses(s) \/ BackendTimeout(s)
       \/ Api(s) \/ RequestFails(s) \/ HandlerThrows(s)
  \/ \E b \in Backends : StartJob(b)

Spec == Init /\ [][Next]_vars

\* The threads of the proxy and of the instances that run go on, and a read from
\* a process that has terminated fails.
Fairness ==
  /\ \A s \in Sessions : WF_vars(Proxy(s)) /\ WF_vars(Api(s))
  /\ \A b \in Backends : WF_vars(StartJob(b))

FairSpec == Spec /\ Fairness

-----------------------------------------------------------------------------
(* Properties.                                                             *)

TypeOK ==
  /\ nextBackend \in Nat
  /\ kind \in Mixes
  /\ pc \in [Sessions -> {"new", "ack", "pick", "connect", "send", "await", "end"}]
  /\ backend \in [Sessions -> Backends]
  /\ got \in [Sessions -> Seq({"ok", "bad gateway"})]
  /\ sendClosed \in [Sessions -> BOOLEAN]
  /\ api \in [Sessions -> {"none", "sent", "closed", "post", "queued", "running", "respond", "done"}]
  /\ pool \in [Backends -> Seq(Sessions)]
  /\ replied \in [Sessions -> BOOLEAN]
  /\ enqueued \in [Backends -> SUBSET Sessions]
  /\ served \in [Sessions -> BOOLEAN]
  /\ up \in [Backends -> BOOLEAN]
  /\ late \in [Sessions -> BOOLEAN]
  /\ failed \subseteq Sessions

\* The clients are served as module ProxyService promises.  None gets two
\* responses: for a payment that was acknowledged and then could not be
\* forwarded, only the shutdown in writeResponse sees to it.  And one that is
\* told that a summary or a purge succeeded is told so after an instance has
\* carried it out: nothing the proxy or the instance acknowledges early takes
\* the place of that answer.
Asked(s) == CASE pc[s] = "new" -> "nothing"
              [] pc[s] # "new" /\ IsPost(s) -> "payment"
              [] OTHER -> "other"

Service == INSTANCE ProxyService WITH
             asked <- [s \in Sessions |-> Asked(s)],
             done <- {s \in Sessions : served[s]},
             Errors <- {"bad gateway"}

ImplementsService == Service!Spec

\* A payment the client was told is fine is in the queue of the instance that
\* was picked, or on its way there, unless the connection to that instance
\* failed, it could not read the request or its process has terminated.  The
\* client is told of none of these.
AckedIsKept ==
  \A s \in Sessions : kind[s] = "payment" /\ got[s] = <<"ok">> =>
    \/ s \in enqueued[backend[s]]
    \/ pc[s] \in {"pick", "connect", "send"}
    \/ pc[s] = "end" /\ api[s] \in {"sent", "post", "queued", "running"}
    \/ s \in failed \/ NoBackend(s)

\* Every client gets an answer, also when an instance terminates under it,
\* unless the answer would come after the deadline of its connection.
EveryRequestAnswered == \A s \in Sessions : pc[s] # "new" ~> (got[s] # <<>> \/ late[s])

\* A payment that was sent to an instance gets into its queue although nobody
\* waits for it there, unless the request cannot be read or the process
\* terminates.
SentIsEnqueued ==
  \A s \in Sessions :
    kind[s] = "payment" /\ api[s] = "sent" ~> (s \in enqueued[backend[s]] \/ NoBackend(s))

=============================================================================

----------------------------- MODULE DrogonProxy -----------------------------
(***************************************************************************)
(* The proxy and the two API instances of the drogon variant.              *)
(*                                                                         *)
(* Both are handlers called by the framework (external), which reads the   *)
(* requests, sends what is given to a callback and turns an exception of a *)
(* handler into an answer.  The proxy answers a payment before it is       *)
(* forwarded and has no use for what becomes of it; any other request is   *)
(* answered from the callback of sendRequest.  An instance carries a       *)
(* request out in the thread that read it, and answers then; a purge       *)
(* empties the databases first and the queue of that instance next.        *)
(* Processors are left to module PaymentFlow: here the queues only grow,   *)
(* until they are purged.                                                  *)
(***************************************************************************)
EXTENDS Naturals, Sequences, FiniteSets

CONSTANTS Sessions,  \* the requests of the clients
          Mixes,     \* what the clients may ask for, functions from Sessions to Kinds
          Faults     \* a subset of FaultKinds

FaultKinds == {"connection", \* sendRequest has a result other than Ok
               "handler"}    \* a handler of an instance throws

\* A payment, one whose body lacks a proper id or amount, a summary, a purge.
Kinds == {"payment", "invalid", "summary", "purge"}

ASSUME FaultsAssumption == Faults \subseteq FaultKinds
ASSUME MixesAssumption  == Mixes \subseteq [Sessions -> Kinds]

Backends == {0, 1}
Failures == {"bad request", "bad gateway", "server error"}

VARIABLES
  kind,        \* kind[s]: what the client of s asks for
  nextBackend, \* the round-robin counter
  pc,          \* pc[s]: where the handler of the proxy is
  backend,     \* backend[s]: the backend it has got
  got,         \* got[s]: the answers the client has got
  api,         \* api[s]: where the request is in the instance
  reply,       \* reply[s]: what the instance has answered to the proxy
  queue,       \* queue[b]: the pending payments of instance b
  done,        \* the requests that were carried out (history)
  failed,      \* the requests that met a failed connection (history)
  before,      \* before[s]: the purges answered ok when s was asked (history)
  purgedBy     \* purgedBy[s]: the purges that took payment s off a queue (history)

proxyVars   == <<nextBackend, pc, backend, got>>
apiVars     == <<api, reply, queue, done, purgedBy>>
historyVars == <<failed, before>>
vars        == <<kind, proxyVars, apiVars, historyVars>>

Init ==
  /\ kind \in Mixes
  /\ nextBackend = 0
  /\ pc = [s \in Sessions |-> "new"]
  /\ backend = [s \in Sessions |-> 0]
  /\ got = [s \in Sessions |-> <<>>]
  /\ api = [s \in Sessions |-> "none"]
  /\ reply = [s \in Sessions |-> "none"]
  /\ queue = [b \in Backends |-> {}]
  /\ done = {} /\ failed = {}
  /\ before = [s \in Sessions |-> {}]
  /\ purgedBy = [s \in Sessions |-> {}]

IsPost(s)       == kind[s] \in {"payment", "invalid"}
Goto(s, where)  == pc' = [pc EXCEPT ![s] = where]
Callback(s, a)  == got' = [got EXCEPT ![s] = Append(@, a)]

-----------------------------------------------------------------------------
(* The handlers of the proxy.                                              *)

\* The request reaches proxyRequest or replyAndForwardRequest.
Ask(s) ==
  /\ pc[s] = "new"
  /\ Goto(s, IF IsPost(s) THEN "reply" ELSE "pick")
  /\ before' = [before EXCEPT ![s] = {q \in Sessions : kind[q] = "purge" /\ got[q] = <<"ok">>}]
  /\ UNCHANGED <<kind, nextBackend, backend, got, apiVars, failed>>

\* Mutant: the answer is all a payment gets.
ReplyFirst_AndReturn(s) ==
  /\ pc[s] = "reply"
  /\ Callback(s, "ok")
  /\ Goto(s, "end")
  /\ UNCHANGED <<kind, nextBackend, backend, apiVars, historyVars>>

\* callback(HttpResponse::newHttpResponse())
ReplyFirst(s) ==
  /\ pc[s] = "reply"
  /\ Callback(s, "ok")
  /\ Goto(s, "pick")
  /\ UNCHANGED <<kind, nextBackend, backend, apiVars, historyVars>>

\* The next backend in turn.
GetBackend(s) ==
  /\ pc[s] = "pick"
  /\ backend' = [backend EXCEPT ![s] = nextBackend % 2]
  /\ nextBackend' = nextBackend + 1
  /\ Goto(s, "send")
  /\ UNCHANGED <<kind, got, apiVars, historyVars>>

\* sendRequest: the request arrives at the instance, the handler returns.
SendRequest(s) ==
  /\ pc[s] = "send"
  /\ api' = [api EXCEPT ![s] = "arrived"]
  /\ UNCHANGED <<kind, nextBackend, backend, got, reply, queue, done, purgedBy, historyVars>>

\* The callback of proxyRequest waits for the result.
ProxyRequest(s) == ~IsPost(s) /\ SendRequest(s) /\ Goto(s, "await")

\* That of replyAndForwardRequest is empty.
ForwardPayment(s) == IsPost(s) /\ SendRequest(s) /\ Goto(s, "end")

\* Mutant: a failed request is answered as if there were a response.
ConnectionFails_NotTested(s) ==
  /\ "connection" \in Faults
  /\ pc[s] \in {"send", "await"}
  /\ failed' = failed \cup {s}
  /\ got' = IF IsPost(s) THEN got ELSE [got EXCEPT ![s] = Append(@, "ok")]
  /\ Goto(s, "end")
  /\ UNCHANGED <<kind, nextBackend, backend, apiVars, before>>

\* The request cannot be sent, or its answer not be read: 502, which for a
\* payment the empty callback swallows.
ConnectionFails(s) ==
  /\ "connection" \in Faults
  /\ pc[s] \in {"send", "await"}
  /\ failed' = failed \cup {s}
  /\ got' = IF IsPost(s) THEN got ELSE [got EXCEPT ![s] = Append(@, "bad gateway")]
  /\ Goto(s, "end")
  /\ UNCHANGED <<kind, nextBackend, backend, apiVars, before>>

\* Mutant: errors of the instance are kept from the client, and not answered.
ForwardResponse_OnlyOk(s) ==
  /\ pc[s] = "await" /\ reply[s] # "none"
  /\ got' = IF reply[s] = "ok" THEN [got EXCEPT ![s] = Append(@, "ok")] ELSE got
  /\ Goto(s, "end")
  /\ UNCHANGED <<kind, nextBackend, backend, apiVars, historyVars>>

\* The status of the instance goes to the client.
ForwardResponse(s) ==
  /\ pc[s] = "await" /\ reply[s] # "none"
  /\ Callback(s, reply[s])
  /\ Goto(s, "end")
  /\ UNCHANGED <<kind, nextBackend, backend, apiVars, historyVars>>

-----------------------------------------------------------------------------
(* The handlers of the instances.                                          *)

Reply(s, a) ==
  /\ reply' = [reply EXCEPT ![s] = a]
  /\ api' = [api EXCEPT ![s] = "replied"]

\* postPaymentHandler
PostPayment(s) ==
  /\ api[s] = "arrived" /\ IsPost(s)
  /\ queue' = IF kind[s] = "payment" THEN [queue EXCEPT ![backend[s]] = @ \cup {s}] ELSE queue
  /\ done' = IF kind[s] = "payment" THEN done \cup {s} ELSE done
  /\ Reply(s, IF kind[s] = "payment" THEN "ok" ELSE "bad request")
  /\ UNCHANGED <<kind, proxyVars, purgedBy, historyVars>>

\* paymentsSummaryHandler
PaymentsSummary(s) ==
  /\ api[s] = "arrived" /\ kind[s] = "summary"
  /\ done' = done \cup {s}
  /\ Reply(s, "ok")
  /\ UNCHANGED <<kind, proxyVars, queue, purgedBy, historyVars>>

\* Mutant: the client is answered before the queue is purged.
PurgeDatabases_AndReply(s) ==
  /\ api[s] = "arrived" /\ kind[s] = "purge"
  /\ reply' = [reply EXCEPT ![s] = "ok"]
  /\ done' = done \cup {s}
  /\ api' = [api EXCEPT ![s] = "purging"]
  /\ UNCHANGED <<kind, proxyVars, queue, purgedBy, historyVars>>

\* purgePaymentsHandler: the databases first ...
PurgeDatabases(s) ==
  /\ api[s] = "arrived" /\ kind[s] = "purge"
  /\ api' = [api EXCEPT ![s] = "purging"]
  /\ UNCHANGED <<kind, proxyVars, reply, queue, done, purgedBy, historyVars>>

\* ... then the queue.
PurgeQueue(s) ==
  /\ api[s] = "purging"
  /\ queue' = [queue EXCEPT ![backend[s]] = {}]
  /\ purgedBy' = [p \in Sessions |-> IF p \in queue[backend[s]] THEN purgedBy[p] \cup {s} ELSE purgedBy[p]]
  /\ done' = done \cup {s}
  /\ Reply(s, "ok")
  /\ UNCHANGED <<kind, proxyVars, historyVars>>

\* The body is no JSON object, a date cannot be parsed or the database throws:
\* the framework answers, and goes on.
HandlerThrows(s) ==
  /\ "handler" \in Faults
  /\ api[s] \in {"arrived", "purging"}
  /\ Reply(s, "server error")
  /\ UNCHANGED <<kind, proxyVars, queue, done, purgedBy, historyVars>>

-----------------------------------------------------------------------------

Proxy(s) ==
  \/ ReplyFirst(s) \/ GetBackend(s)
  \/ ProxyRequest(s) \/ ForwardPayment(s) \/ ForwardResponse(s)

Api(s) == PostPayment(s) \/ PaymentsSummary(s) \/ PurgeDatabases(s) \/ PurgeQueue(s)

Next == \E s \in Sessions : Ask(s) \/ Proxy(s) \/ ConnectionFails(s) \/ Api(s) \/ HandlerThrows(s)

Spec == Init /\ [][Next]_vars

\* The event loops of the framework run what is ready.
FairSpec == Spec /\ \A s \in Sessions : WF_vars(Proxy(s)) /\ WF_vars(Api(s))

-----------------------------------------------------------------------------
(* Properties.                                                             *)

TypeOK ==
  /\ kind \in Mixes /\ nextBackend \in Nat
  /\ pc \in [Sessions -> {"new", "reply", "pick", "send", "await", "end"}]
  /\ backend \in [Sessions -> Backends]
  /\ got \in [Sessions -> Seq(Failures \cup {"ok"})]
  /\ api \in [Sessions -> {"none", "arrived", "purging", "replied"}]
  /\ reply \in [Sessions -> Failures \cup {"none", "ok"}]
  /\ queue \in [Backends -> SUBSET Sessions]
  /\ done \subseteq Sessions /\ failed \subseteq Sessions
  /\ before \in [Sessions -> SUBSET Sessions]
  /\ purgedBy \in [Sessions -> SUBSET Sessions]

\* The clients are served as module ProxyService promises, as those of the
\* boost variant are: no answer takes the place of another one, and ok for a
\* summary or a purge is the answer of an instance that has carried it out.
Service == INSTANCE ProxyService WITH
             asked <- [s \in Sessions |-> CASE pc[s] = "new"               -> "nothing"
                                            [] pc[s] # "new" /\ IsPost(s)  -> "payment"
                                            [] pc[s] # "new" /\ ~IsPost(s) -> "other"],
             Errors <- Failures

ImplementsService == Service!Spec

\* A payment the client was told is fine is on its way, or in the queue of the
\* instance that was picked, or was in it when a purge came, unless the
\* connection failed or the handler threw, which nobody is told of.
AckedIsKept ==
  \A s \in Sessions : kind[s] = "payment" /\ got[s] = <<"ok">> =>
    \/ pc[s] \in {"pick", "send"}
    \/ api[s] = "arrived"
    \/ s \in queue[backend[s]] \/ purgedBy[s] # {}
    \/ s \in failed \/ reply[s] = "server error"

\* A client that has the answer to a purge and then posts a payment does not
\* lose it to that purge, whichever instances get the two and however many
\* other purges run meanwhile.
PurgeSparesLater == \A s \in Sessions : purgedBy[s] \cap before[s] = {}

\* Every client gets an answer, although payments do not wait for theirs and
\* handlers throw.
EveryRequestAnswered == \A s \in Sessions : pc[s] # "new" ~> got[s] # <<>>
=============================================================================

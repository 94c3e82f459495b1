-------------------------- MODULE DrogonProxyProofs --------------------------
(***************************************************************************)
(* Proofs about DrogonProxy: its types, AckedIsKept, PurgeSparesLater and  *)
(* that it implements ProxyService, for any number of requests of any kind *)
(* and any set of faults.                                                  *)
(*                                                                         *)
(* The invariant ties the two handlers of a request together.  What the    *)
(* proxy has answered follows from where its handler is (Answers), the     *)
(* instance has the request only when the proxy has sent it (Forwarded),   *)
(* has carried out at most what it has replied to (Replies), and keeps the *)
(* payments it acknowledged (Keeps).  That a purge spares later payments   *)
(* needs that one whose answer was read has no step left (PurgesAreOver).  *)
(***************************************************************************)
EXTENDS DrogonProxy, TLAPS

\* A payment has its answer before it is forwarded, anything else has none
\* until its handler ends, and ok only when it was carried out.
Answers ==
  \A s \in Sessions :
    /\ pc[s] \in {"new", "reply"} => got[s] = <<>>
    /\ ~IsPost(s) /\ pc[s] # "end" => got[s] = <<>>
    /\ ~IsPost(s) /\ got[s] = <<"ok">> => s \in done

\* Which way a request takes, and that the instance has it when it was sent.
Forwarded ==
  \A s \in Sessions :
    /\ pc[s] = "reply" => IsPost(s)
    /\ pc[s] = "await" => ~IsPost(s)
    /\ pc[s] \in {"new", "reply", "pick", "send"} => api[s] = "none"
    /\ IsPost(s) /\ pc[s] = "end" /\ s \notin failed => api[s] # "none"

\* What was carried out has been replied to, and what was replied ok to other
\* requests than payments has been carried out.
Replies ==
  \A s \in Sessions :
    /\ s \in done => api[s] = "replied"
    /\ reply[s] # "none" => api[s] = "replied"
    /\ ~IsPost(s) /\ reply[s] = "ok" => s \in done
    /\ api[s] = "purging" => kind[s] = "purge"

\* A payment the instance has seen is in its queue or was purged from it,
\* unless the handler threw.
Keeps ==
  \A s \in Sessions : kind[s] = "payment" /\ api[s] = "replied" =>
    reply[s] = "server error" \/ s \in queue[backend[s]] \/ purgedBy[s] # {}

\* What is or was in a queue has been asked for; a purge that was answered
\* before somebody asked is over.
PurgesAreOver ==
  \A s \in Sessions :
    /\ (\E b \in Backends : s \in queue[b]) \/ purgedBy[s] # {} => api[s] = "replied"
    /\ \A q \in before[s] : api[q] = "replied"

IInv ==
  /\ TypeOK /\ Answers /\ Forwarded /\ Replies /\ Keeps /\ PurgesAreOver
  /\ PurgeSparesLater

-----------------------------------------------------------------------------

LEMMA KindsOfMixes == \A m \in Mixes : m \in [Sessions -> Kinds]
BY MixesAssumption

\* The sequence of one answer, an error.
LEMMA OneError ==
  ASSUME NEW e \in Failures, e # "ok"
  PROVE  Append(<<>>, e) \in Seq(Failures \cup {"ok"}) /\ Append(<<>>, e) # <<"ok">>
OBVIOUS

LEMMA InitIInv == Init => IInv
<1> SUFFICES ASSUME Init PROVE IInv
  OBVIOUS
<1>1. TypeOK
  BY DEF Init, TypeOK, Backends
<1>2. Answers /\ Forwarded /\ Replies /\ Keeps /\ PurgesAreOver /\ PurgeSparesLater
  BY DEF Init, Answers, Forwarded, Replies, Keeps, PurgesAreOver, PurgeSparesLater
<1> QED
  BY <1>1, <1>2 DEF IInv

\* The steps one by one.
LEMMA AskKeeps == ASSUME IInv, NEW s \in Sessions, Ask(s) PROVE IInv'
<1> USE DEF Ask, Goto, apiVars
<1>1. TypeOK'
  BY DEF IInv, TypeOK
<1>2. Answers' /\ Forwarded'
  BY DEF IInv, TypeOK, Answers, Forwarded, IsPost
<1>3. Replies' /\ Keeps'
  BY DEF IInv, Replies, Keeps, IsPost
<1>4. PurgesAreOver'
  BY DEF IInv, TypeOK, PurgesAreOver, Answers, Replies, IsPost
<1>5. PurgeSparesLater'
  BY DEF IInv, TypeOK, PurgesAreOver, PurgeSparesLater, Forwarded
<1> QED
  BY <1>1, <1>2, <1>3, <1>4, <1>5 DEF IInv

LEMMA ReplyFirstKeeps == ASSUME IInv, NEW s \in Sessions, ReplyFirst(s) PROVE IInv'
<1> USE DEF ReplyFirst, Goto, Callback, apiVars, historyVars
<1>1. TypeOK'
  BY DEF IInv, TypeOK
<1>2. Answers' /\ Forwarded'
  BY DEF IInv, TypeOK, Answers, Forwarded, IsPost
<1>3. Replies' /\ Keeps' /\ PurgesAreOver' /\ PurgeSparesLater'
  BY DEF IInv, Replies, Keeps, PurgesAreOver, PurgeSparesLater, IsPost
<1> QED
  BY <1>1, <1>2, <1>3 DEF IInv

LEMMA GetBackendKeeps == ASSUME IInv, NEW s \in Sessions, GetBackend(s) PROVE IInv'
<1> USE DEF GetBackend, Goto, apiVars, historyVars
<1>1. TypeOK'
  BY DEF IInv, TypeOK, Backends
<1>2. Answers' /\ Forwarded'
  BY DEF IInv, TypeOK, Answers, Forwarded, IsPost
<1>3. Keeps'
  BY DEF IInv, TypeOK, Keeps, Forwarded
<1>4. Replies' /\ PurgesAreOver' /\ PurgeSparesLater'
  BY DEF IInv, Replies, PurgesAreOver, PurgeSparesLater, IsPost
<1> QED
  BY <1>1, <1>2, <1>3, <1>4 DEF IInv

LEMMA SendKeeps ==
  ASSUME IInv, NEW s \in Sessions, ProxyRequest(s) \/ ForwardPayment(s)
  PROVE  IInv'
<1>1. /\ pc[s] = "send" /\ api[s] = "none"
      /\ api' = [api EXCEPT ![s] = "arrived"]
      /\ pc' = [pc EXCEPT ![s] = IF IsPost(s) THEN "end" ELSE "await"]
      /\ UNCHANGED <<kind, nextBackend, backend, got, reply, queue, done, purgedBy, failed, before>>
  BY DEF ProxyRequest, ForwardPayment, SendRequest, Goto, historyVars, IInv, Forwarded
<1>2. TypeOK'
  BY <1>1 DEF IInv, TypeOK
<1>3. Answers' /\ Forwarded'
  BY <1>1 DEF IInv, TypeOK, Answers, Forwarded, IsPost
<1>4. Replies' /\ Keeps'
  BY <1>1 DEF IInv, TypeOK, Replies, Keeps, IsPost
<1>5. PurgesAreOver' /\ PurgeSparesLater'
  BY <1>1 DEF IInv, TypeOK, PurgesAreOver, PurgeSparesLater
<1> QED
  BY <1>2, <1>3, <1>4, <1>5 DEF IInv

\* A failed connection ends the handler of the proxy, with an answer to all but
\* payments.
LEMMA ConnectionFailsKeeps == ASSUME IInv, NEW s \in Sessions, ConnectionFails(s) PROVE IInv'
<1>1. /\ pc[s] \in {"send", "await"} /\ pc' = [pc EXCEPT ![s] = "end"]
      /\ failed' = failed \cup {s}
      /\ got' = [got EXCEPT ![s] = IF IsPost(s) THEN got[s] ELSE Append(got[s], "bad gateway")]
      /\ UNCHANGED <<kind, nextBackend, backend, api, reply, queue, done, purgedBy, before>>
  BY DEF ConnectionFails, Goto, apiVars, IInv, TypeOK
<1>2. /\ IsPost(s) => got'[s] = got[s]
      /\ ~IsPost(s) => got'[s] = Append(<<>>, "bad gateway")
  BY <1>1 DEF IInv, TypeOK, Answers
<1>3. /\ Append(<<>>, "bad gateway") \in Seq(Failures \cup {"ok"})
      /\ Append(<<>>, "bad gateway") # <<"ok">>
  BY OneError DEF Failures
<1>6. TypeOK'
  <2>3. got'[s] \in Seq(Failures \cup {"ok"})
    BY <1>2, <1>3 DEF IInv, TypeOK
  <2> QED
    BY <1>1, <2>3 DEF IInv, TypeOK
<1>4. Answers' /\ Forwarded'
  BY <1>1, <1>2, <1>3 DEF IInv, TypeOK, Answers, Forwarded, IsPost
<1>5. Replies' /\ Keeps' /\ PurgesAreOver' /\ PurgeSparesLater'
  BY <1>1 DEF IInv, Replies, Keeps, PurgesAreOver, PurgeSparesLater, IsPost
<1> QED
  BY <1>4, <1>5, <1>6 DEF IInv

LEMMA ForwardResponseKeeps == ASSUME IInv, NEW s \in Sessions, ForwardResponse(s) PROVE IInv'
<1> USE DEF ForwardResponse, Goto, Callback, apiVars, historyVars
<1>1. TypeOK'
  BY DEF IInv, TypeOK
<1>2. Answers' /\ Forwarded'
  <2>1. ~IsPost(s) /\ got'[s] = Append(<<>>, reply[s])
    BY DEF IInv, TypeOK, Answers, Forwarded
  <2>2. got'[s] = <<"ok">> => s \in done
    BY <2>1 DEF IInv, Replies
  <2> QED
    BY <2>1, <2>2 DEF IInv, TypeOK, Answers, Forwarded, IsPost
<1>3. Replies' /\ Keeps' /\ PurgesAreOver' /\ PurgeSparesLater'
  BY DEF IInv, Replies, Keeps, PurgesAreOver, PurgeSparesLater, IsPost
<1> QED
  BY <1>1, <1>2, <1>3 DEF IInv

-----------------------------------------------------------------------------
(* The handlers of the instance.                                           *)

LEMMA PostPaymentKeeps == ASSUME IInv, NEW s \in Sessions, PostPayment(s) PROVE IInv'
<1> USE DEF PostPayment, Reply, proxyVars, historyVars
<1>1. TypeOK'
  BY DEF IInv, TypeOK, Failures
<1>2. Answers' /\ Forwarded'
  BY DEF IInv, TypeOK, Answers, Forwarded, IsPost
<1>3. Replies' /\ Keeps'
  BY DEF IInv, TypeOK, Replies, Keeps, IsPost
<1>4. PurgesAreOver' /\ PurgeSparesLater'
  BY DEF IInv, TypeOK, PurgesAreOver, PurgeSparesLater
<1> QED
  BY <1>1, <1>2, <1>3, <1>4 DEF IInv

LEMMA PaymentsSummaryKeeps == ASSUME IInv, NEW s \in Sessions, PaymentsSummary(s) PROVE IInv'
<1> USE DEF PaymentsSummary, Reply, proxyVars, historyVars
<1>1. TypeOK'
  BY DEF IInv, TypeOK
<1>2. Answers' /\ Forwarded'
  BY DEF IInv, TypeOK, Answers, Forwarded, IsPost
<1>3. Replies' /\ Keeps'
  BY DEF IInv, TypeOK, Replies, Keeps, IsPost
<1>4. PurgesAreOver' /\ PurgeSparesLater'
  BY DEF IInv, TypeOK, PurgesAreOver, PurgeSparesLater
<1> QED
  BY <1>1, <1>2, <1>3, <1>4 DEF IInv

LEMMA PurgeDatabasesKeeps == ASSUME IInv, NEW s \in Sessions, PurgeDatabases(s) PROVE IInv'
<1> USE DEF PurgeDatabases, proxyVars, historyVars
<1>1. TypeOK'
  BY DEF IInv, TypeOK
<1>2. Answers' /\ Forwarded'
  BY DEF IInv, TypeOK, Answers, Forwarded, IsPost
<1>3. Replies' /\ Keeps'
  BY DEF IInv, TypeOK, Replies, Keeps, IsPost
<1>4. PurgesAreOver' /\ PurgeSparesLater'
  BY DEF IInv, TypeOK, PurgesAreOver, PurgeSparesLater
<1> QED
  BY <1>1, <1>2, <1>3, <1>4 DEF IInv

LEMMA PurgeQueueKeeps == ASSUME IInv, NEW s \in Sessions, PurgeQueue(s) PROVE IInv'
<1> USE DEF PurgeQueue, Reply, proxyVars, historyVars
<1>1. TypeOK'
  BY DEF IInv, TypeOK
<1>2. Answers' /\ Forwarded'
  BY DEF IInv, TypeOK, Answers, Forwarded, IsPost
<1>3. Replies'
  BY DEF IInv, TypeOK, Replies, IsPost
<1>4. Keeps'
  BY DEF IInv, TypeOK, Keeps, Replies
<1>5. PurgesAreOver'
  BY DEF IInv, TypeOK, PurgesAreOver
<1>6. PurgeSparesLater'
  BY DEF IInv, TypeOK, PurgesAreOver, PurgeSparesLater
<1> QED
  BY <1>1, <1>2, <1>3, <1>4, <1>5, <1>6 DEF IInv

LEMMA HandlerThrowsKeeps == ASSUME IInv, NEW s \in Sessions, HandlerThrows(s) PROVE IInv'
<1> USE DEF HandlerThrows, Reply, proxyVars, historyVars
<1>1. TypeOK'
  BY DEF IInv, TypeOK, Failures
<1>2. Answers' /\ Forwarded'
  BY DEF IInv, TypeOK, Answers, Forwarded, IsPost
<1>3. Replies' /\ Keeps'
  BY DEF IInv, TypeOK, Replies, Keeps, IsPost
<1>4. PurgesAreOver' /\ PurgeSparesLater'
  BY DEF IInv, TypeOK, PurgesAreOver, PurgeSparesLater
<1> QED
  BY <1>1, <1>2, <1>3, <1>4 DEF IInv

LEMMA NextIInv == IInv /\ [Next]_vars => IInv'
<1>1. ASSUME IInv, UNCHANGED vars PROVE IInv'
  BY <1>1 DEF vars, proxyVars, apiVars, historyVars, IInv, TypeOK, Answers, Forwarded,
              Replies, Keeps, PurgesAreOver, PurgeSparesLater, IsPost
<1> QED
  BY <1>1, AskKeeps, ReplyFirstKeeps, GetBackendKeeps, SendKeeps, ConnectionFailsKeeps,
     ForwardResponseKeeps, PostPaymentKeeps, PaymentsSummaryKeeps, PurgeDatabasesKeeps,
     PurgeQueueKeeps, HandlerThrowsKeeps
     DEF Next, Proxy, Api

\* The inductive invariant of the two handlers of every request.
THEOREM Invariance == Spec => []IInv
BY InitIInv, NextIInv, PTL DEF Spec

\* Types, for any requests and faults.
THEOREM Typing == Spec => []TypeOK
<1>1. IInv => TypeOK
  BY DEF IInv
<1> QED
  BY <1>1, Invariance, PTL

\* An acknowledged payment is on its way, in the queue of its instance or was
\* purged from it, unless the connection failed or the handler threw.
THEOREM AckedIsKeptTheorem == Spec => []AckedIsKept
<1>1. IInv => AckedIsKept
  <2> SUFFICES ASSUME IInv, NEW s \in Sessions, kind[s] = "payment", got[s] = <<"ok">>
               PROVE  \/ pc[s] \in {"pick", "send"} \/ api[s] = "arrived"
                      \/ s \in queue[backend[s]] \/ purgedBy[s] # {}
                      \/ s \in failed \/ reply[s] = "server error"
    BY DEF AckedIsKept
  <2>1. pc[s] \in {"pick", "send", "end"}
    <3>1. IsPost(s) /\ got[s] # <<>>
      BY DEF IsPost
    <3> QED
      BY <3>1 DEF IInv, TypeOK, Answers, Forwarded
  <2>2. CASE pc[s] = "end" /\ s \notin failed
    <3>1. api[s] \in {"arrived", "replied"}
      BY <2>2 DEF IInv, TypeOK, Forwarded, Replies, IsPost
    <3> QED
      BY <3>1 DEF IInv, Keeps
  <2> QED
    BY <2>1, <2>2
<1> QED
  BY <1>1, Invariance, PTL

\* A payment posted after a purge was answered is not taken by that purge.
THEOREM PurgeSparesLaterTheorem == Spec => []PurgeSparesLater
<1>1. IInv => PurgeSparesLater
  BY DEF IInv
<1> QED
  BY <1>1, Invariance, PTL

-----------------------------------------------------------------------------
(* The refinement: asked is computed from pc and kind, the rest is the same. *)

AskedOf(s) == CASE pc[s] = "new"               -> "nothing"
                [] pc[s] # "new" /\ IsPost(s)  -> "payment"
                [] pc[s] # "new" /\ ~IsPost(s) -> "other"

AllAsked == [s \in Sessions |-> AskedOf(s)]

\* A step of a handler that asked for nothing new leaves asked alone.
LEMMA SameAsked ==
  ASSUME UNCHANGED kind, \A s \in Sessions : pc'[s] = "new" <=> pc[s] = "new"
  PROVE  UNCHANGED AllAsked
<1>1. \A s \in Sessions : AskedOf(s)' = AskedOf(s)
  BY DEF AskedOf, IsPost
<1> QED
  BY <1>1 DEF AllAsked

LEMMA ServiceVars ==
  ASSUME UNCHANGED <<AllAsked, got, done>>
  PROVE  UNCHANGED Service!vars
BY DEF Service!vars, AllAsked, AskedOf

LEMMA InitService == Init => Service!Init
BY DEF Init, Service!Init

\* A request that reaches the proxy is asked for.
LEMMA AskAsks == ASSUME IInv, NEW s \in Sessions, Ask(s) PROVE Service!Ask(s)
<1>1. /\ pc[s] = "new" /\ UNCHANGED <<kind, got, done>>
      /\ \E k \in {"reply", "pick"} : pc' = [pc EXCEPT ![s] = k]
  BY DEF Ask, Goto, apiVars
<1>2. AllAsked[s] = "nothing"
  BY <1>1 DEF AllAsked, AskedOf
<1>3. \A t \in Sessions : t # s => AskedOf(t)' = AskedOf(t)
  BY <1>1 DEF IInv, TypeOK, AskedOf, IsPost
<1>4. AskedOf(s)' \in {"payment", "other"}
  BY <1>1 DEF IInv, TypeOK, AskedOf, IsPost
<1>5. AllAsked' = [AllAsked EXCEPT ![s] = AskedOf(s)']
  BY <1>3 DEF AllAsked
<1> QED
  BY <1>1, <1>2, <1>4, <1>5 DEF Service!Ask, AllAsked, AskedOf

\* An instance that has done what a request asks for carries it out.
LEMMA DoneCarriesOut ==
  ASSUME IInv, NEW s \in Sessions, api[s] \in {"arrived", "purging"},
         done' = done \cup {s}, UNCHANGED proxyVars, UNCHANGED kind
  PROVE  Service!CarryOut(s)
<1>1. pc[s] # "new" /\ s \notin done
  BY DEF IInv, Forwarded, Replies
<1>2. AllAsked[s] # "nothing"
  BY <1>1 DEF AllAsked, AskedOf, IInv, TypeOK
<1>3. UNCHANGED AllAsked /\ UNCHANGED got
  BY SameAsked DEF proxyVars
<1> QED
  BY <1>1, <1>2, <1>3 DEF Service!CarryOut, AllAsked, AskedOf

\* A handler of the proxy answers once: a payment at first, another request ok
\* when it was carried out, or with an error.
LEMMA ReplyFirstAnswers == ASSUME IInv, NEW s \in Sessions, ReplyFirst(s) PROVE Service!AnswerOk(s)
<1>1. /\ pc[s] = "reply" /\ IsPost(s) /\ got[s] = <<>>
      /\ pc' = [pc EXCEPT ![s] = "pick"] /\ UNCHANGED <<kind, done>>
      /\ got' = [got EXCEPT ![s] = Append(<<>>, "ok")]
  BY DEF ReplyFirst, Goto, Callback, apiVars, historyVars, IInv, Answers, Forwarded, TypeOK
<1>2. AllAsked[s] = "payment"
  BY <1>1 DEF AllAsked, AskedOf
<1>3. UNCHANGED AllAsked
  BY <1>1, SameAsked DEF IInv, TypeOK
<1>4. got' = [got EXCEPT ![s] = <<"ok">>]
  BY <1>1
<1> QED
  BY <1>1, <1>2, <1>3, <1>4 DEF Service!AnswerOk, AllAsked, AskedOf

LEMMA EndAnswers ==
  ASSUME IInv, NEW s \in Sessions, NEW a \in Failures \cup {"ok"}, ~IsPost(s),
         pc[s] \in {"send", "await"}, pc' = [pc EXCEPT ![s] = "end"],
         got' = [got EXCEPT ![s] = Append(got[s], a)], a = "ok" => s \in done,
         UNCHANGED <<kind, done>>
  PROVE  Service!AnswerOk(s) \/ Service!AnswerError(s)
<1>1. got[s] = <<>> /\ got' = [got EXCEPT ![s] = <<a>>]
  <2>1. got[s] = <<>>
    BY DEF IInv, Answers
  <2>2. Append(<<>>, a) = <<a>>
    OBVIOUS
  <2> QED
    BY <2>1, <2>2
<1>2. AllAsked[s] = "other" /\ UNCHANGED AllAsked
  <2>1. UNCHANGED AllAsked
    BY SameAsked DEF IInv, TypeOK
  <2> QED
    BY <2>1 DEF AllAsked, AskedOf
<1>3. CASE a = "ok"
  BY <1>1, <1>2, <1>3 DEF Service!AnswerOk, AllAsked, AskedOf
<1>4. CASE a \in Failures
  BY <1>1, <1>2, <1>4 DEF Service!AnswerError, AllAsked, AskedOf
<1> QED
  BY <1>3, <1>4

LEMMA NextService == IInv /\ [Next]_vars => [Service!Next]_(Service!vars)
<1> SUFFICES ASSUME IInv, [Next]_vars PROVE Service!Next \/ UNCHANGED Service!vars
  OBVIOUS
<1>1. ASSUME NEW s \in Sessions, Ask(s) PROVE Service!Next
  BY <1>1, AskAsks DEF Service!Next
<1>2. ASSUME NEW s \in Sessions, ReplyFirst(s) PROVE Service!Next
  BY <1>2, ReplyFirstAnswers DEF Service!Next
<1>3. ASSUME NEW s \in Sessions, GetBackend(s) PROVE UNCHANGED Service!vars
  <2>1. UNCHANGED AllAsked
    BY <1>3, SameAsked DEF GetBackend, Goto, IInv, TypeOK
  <2> QED
    BY <1>3, <2>1, ServiceVars DEF GetBackend, apiVars
<1>4. ASSUME NEW s \in Sessions, ProxyRequest(s) \/ ForwardPayment(s)
      PROVE  UNCHANGED Service!vars
  <2>1. /\ UNCHANGED <<kind, got, done>> /\ pc[s] = "send"
        /\ \E k \in {"await", "end"} : pc' = [pc EXCEPT ![s] = k]
    BY <1>4 DEF ProxyRequest, ForwardPayment, SendRequest, Goto
  <2>2. UNCHANGED AllAsked
    BY <2>1, SameAsked DEF IInv, TypeOK
  <2> QED
    BY <2>1, <2>2, ServiceVars
<1>5. ASSUME NEW s \in Sessions, ConnectionFails(s)
      PROVE  Service!Next \/ UNCHANGED Service!vars
  <2>1. /\ pc[s] \in {"send", "await"} /\ pc' = [pc EXCEPT ![s] = "end"]
        /\ UNCHANGED <<kind, done>>
        /\ IsPost(s) => UNCHANGED got
        /\ ~IsPost(s) => got' = [got EXCEPT ![s] = Append(got[s], "bad gateway")]
    BY <1>5 DEF ConnectionFails, Goto, apiVars
  <2>2. CASE IsPost(s)
    <3>1. UNCHANGED AllAsked
      BY <2>1, SameAsked DEF IInv, TypeOK
    <3> QED
      BY <2>1, <2>2, <3>1, ServiceVars
  <2>3. CASE ~IsPost(s)
    <3>1. "bad gateway" \in Failures \cup {"ok"} /\ "bad gateway" # "ok"
      BY DEF Failures
    <3> QED
      BY <2>1, <2>3, <3>1, EndAnswers DEF Service!Next
  <2> QED
    BY <2>2, <2>3
<1>6. ASSUME NEW s \in Sessions, ForwardResponse(s) PROVE Service!Next
  <2>1. /\ pc[s] = "await" /\ pc' = [pc EXCEPT ![s] = "end"]
        /\ UNCHANGED <<kind, done>>
        /\ got' = [got EXCEPT ![s] = Append(got[s], reply[s])]
    BY <1>6 DEF ForwardResponse, Goto, Callback, apiVars
  <2>2. ~IsPost(s) /\ (reply[s] = "ok" => s \in done) /\ reply[s] \in Failures \cup {"ok"}
    BY <1>6, <2>1 DEF ForwardResponse, IInv, Forwarded, Replies, TypeOK
  <2> QED
    BY <2>1, <2>2, EndAnswers DEF Service!Next
<1>7. ASSUME NEW s \in Sessions, Api(s) \/ HandlerThrows(s)
      PROVE  Service!Next \/ UNCHANGED Service!vars
  <2>1. /\ api[s] \in {"arrived", "purging"} /\ UNCHANGED proxyVars /\ UNCHANGED kind
        /\ done' = done \cup {s} \/ UNCHANGED done
    BY <1>7 DEF Api, PostPayment, PaymentsSummary, PurgeDatabases, PurgeQueue, HandlerThrows
  <2>2. CASE done' = done \cup {s}
    BY <2>1, <2>2, DoneCarriesOut DEF Service!Next
  <2>3. CASE UNCHANGED done
    <3>1. UNCHANGED AllAsked
      BY <2>1, SameAsked DEF proxyVars
    <3> QED
      BY <2>1, <2>3, <3>1, ServiceVars DEF proxyVars
  <2> QED
    BY <2>1, <2>2, <2>3
<1>8. CASE UNCHANGED vars
  <2>1. UNCHANGED AllAsked
    BY <1>8, SameAsked DEF vars, proxyVars
  <2> QED
    BY <1>8, <2>1, ServiceVars DEF vars, proxyVars, apiVars
<1> QED
  BY <1>1, <1>2, <1>3, <1>4, <1>5, <1>6, <1>7, <1>8 DEF Next, Proxy

\* DrogonProxy implements ProxyService: proxyRequest, replyAndForwardRequest
\* and the handlers of the instances answer each client once, and ok to other
\* requests than payments only when they were carried out.
THEOREM ImplementsServiceTheorem == Spec => ImplementsService
  BY InitService, NextService, Invariance, PTL DEF Spec, ImplementsService, Service!Spec
=============================================================================

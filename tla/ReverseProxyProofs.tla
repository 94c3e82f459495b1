------------------------- MODULE ReverseProxyProofs -------------------------
(***************************************************************************)
(* Proofs about ReverseProxy: its types, AckedIsKept and that it           *)
(* implements ProxyService, for any sessions, any mix of requests, any     *)
(* number of workers and any set of faults.                                *)
(*                                                                         *)
(* As in DrogonProxyProofs, the invariant ties the two ends of a request   *)
(* together: what the client has got follows from where the session of the *)
(* proxy is (Answers), the instance has the request only when the proxy    *)
(* has sent it (Forwarded), and what it has done follows from where the    *)
(* request is in it (Handled).  One thing is peculiar to this variant: a   *)
(* job of the worker pool is there once, in the pool of its own backend,   *)
(* and no worker has begun it (Pools), or two workers could run it.        *)
(***************************************************************************)
EXTENDS ReverseProxy, TLAPS

\* One answer at most, and then the client's connection is closed for sending.
\* A payment has its answer before a backend is picked, anything else has none
\* until its session ends, and ok only when it was carried out.
Answers ==
  \A s \in Sessions :
    /\ ~sendClosed[s] => got[s] = <<>>
    /\ pc[s] \in {"new", "ack"} => ~sendClosed[s]
    /\ ~IsPost(s) /\ pc[s] # "end" => ~sendClosed[s]
    /\ IsPost(s) /\ pc[s] \notin {"new", "ack"} => sendClosed[s]
    /\ ~IsPost(s) /\ got[s] = <<"ok">> => served[s]

\* Which way a request takes, and that the instance has it when it was sent.
Forwarded ==
  \A s \in Sessions :
    /\ pc[s] = "ack" => IsPost(s)
    /\ pc[s] = "await" => ~IsPost(s)
    /\ pc[s] \in {"new", "ack", "pick", "connect", "send"} => api[s] = "none"
    /\ IsPost(s) /\ pc[s] = "end" /\ s \notin failed => api[s] # "none"

\* A handler runs once, replies to other requests than payments after that, and
\* leaves a proper payment in the queue.
Handled ==
  \A s \in Sessions :
    /\ served[s] => api[s] \in {"respond", "done"}
    /\ api[s] = "respond" => served[s] /\ ~IsPost(s)
    /\ replied[s] /\ ~IsPost(s) => served[s]
    /\ api[s] = "done" /\ kind[s] = "payment" => s \in enqueued[backend[s]]

\* A job is in the pool of its own backend, once, and no worker has it.
Pools ==
  \A b \in Backends : \A i \in 1..Len(pool[b]) :
    /\ backend[pool[b][i]] = b /\ api[pool[b][i]] = "queued"
    /\ \A j \in 1..Len(pool[b]) : pool[b][i] = pool[b][j] => i = j

IInv == TypeOK /\ Answers /\ Forwarded /\ Handled /\ Pools

-----------------------------------------------------------------------------

LEMMA KindsOfMixes == \A m \in Mixes : m \in [Sessions -> Kinds]
BY MixesAssumption

\* The sequence of one answer.
LEMMA OneAnswer ==
  ASSUME NEW S, NEW a \in S
  PROVE  Append(<<>>, a) = <<a>> /\ Append(<<>>, a) \in Seq(S)
OBVIOUS

\* The jobs in a pool.
LEMMA Jobs ==
  ASSUME TypeOK
  PROVE  \A b \in Backends : \A i \in 1..Len(pool[b]) : pool[b][i] \in Sessions
<1>1. pool \in [Backends -> Seq(Sessions)]
  BY DEF TypeOK
<1> QED
  BY <1>1

LEMMA InitIInv == Init => IInv
<1> SUFFICES ASSUME Init PROVE IInv
  OBVIOUS
<1>1. TypeOK
  <2>1. <<>> \in Seq({"ok", "bad gateway"}) /\ <<>> \in Seq(Sessions)
    OBVIOUS
  <2> QED
    BY <2>1 DEF Init, TypeOK, Backends
<1>2. Answers /\ Forwarded /\ Handled
  BY DEF Init, Answers, Forwarded, Handled
<1>3. Pools
  BY DEF Init, Pools
<1> QED
  BY <1>1, <1>2, <1>3 DEF IInv

\* What writeResponse does to the client's side: the one answer, or none.
LEMMA Responding ==
  ASSUME IInv, NEW s \in Sessions, NEW a \in {"ok", "bad gateway"}, WriteResponse(s, a)
  PROVE  /\ sendClosed' = [sendClosed EXCEPT ![s] = TRUE] /\ late' = late
         /\ got' \in [Sessions -> Seq({"ok", "bad gateway"})]
         /\ sendClosed'[s] = TRUE
         /\ \A t \in Sessions : t # s => got'[t] = got[t] /\ sendClosed'[t] = sendClosed[t]
         /\ got'[s] \in {got[s], <<a>>}
         /\ \/ UNCHANGED got
            \/ ~sendClosed[s] /\ got[s] = <<>> /\ got' = [got EXCEPT ![s] = <<a>>]
<1>1. CASE UNCHANGED got
  BY <1>1 DEF WriteResponse, IInv, TypeOK
<1>2. CASE ~sendClosed[s] /\ got' = [got EXCEPT ![s] = Append(@, a)]
  <2>1. got[s] = <<>>
    BY <1>2 DEF IInv, Answers
  <2>2. got' = [got EXCEPT ![s] = Append(<<>>, a)]
    BY <1>2, <2>1 DEF IInv, TypeOK
  <2>3. got' = [got EXCEPT ![s] = <<a>>] /\ <<a>> \in Seq({"ok", "bad gateway"})
    BY <2>2, OneAnswer
  <2> QED
    BY <1>2, <2>1, <2>3 DEF WriteResponse, IInv, TypeOK
<1> QED
  BY <1>1, <1>2 DEF WriteResponse

\* The pools stay in order as long as nobody takes up a job or moves it.
LEMMA PoolsKept ==
  ASSUME IInv, UNCHANGED pool,
         \A s \in Sessions : api[s] = "queued" => api'[s] = "queued" /\ backend'[s] = backend[s]
  PROVE  Pools'
BY Jobs DEF IInv, Pools

\* The steps of the proxy that write no response.
LEMMA AcceptKeeps == ASSUME IInv, NEW s \in Sessions, Accept(s) PROVE IInv'
<1> USE DEF Accept, Goto, clientVars, apiVars
<1>1. TypeOK'
  BY DEF IInv, TypeOK
<1>2. Answers' /\ Forwarded'
  BY DEF IInv, TypeOK, Answers, Forwarded, IsPost
<1>3. Handled' /\ Pools'
  BY PoolsKept DEF IInv, Handled, IsPost
<1> QED
  BY <1>1, <1>2, <1>3 DEF IInv

LEMMA PickBackendKeeps == ASSUME IInv, NEW s \in Sessions, PickBackend(s) PROVE IInv'
<1>1. /\ pc[s] = "pick" /\ pc' = [pc EXCEPT ![s] = "connect"] /\ api[s] = "none"
      /\ nextBackend' = nextBackend + 1
      /\ backend' = [backend EXCEPT ![s] = nextBackend % 2]
      /\ UNCHANGED <<kind, got, sendClosed, late, failed, api, pool, replied, enqueued, served, up>>
  BY DEF PickBackend, Goto, clientVars, apiVars, IInv, Forwarded
<1>2. TypeOK'
  <2>1. nextBackend' \in Nat /\ nextBackend % 2 \in Backends
    <3>1. nextBackend \in Nat
      BY DEF IInv, TypeOK
    <3> QED
      BY <1>1, <3>1 DEF Backends
  <2> QED
    BY <1>1, <2>1 DEF IInv, TypeOK
<1>3. \A t \in Sessions : t # s => backend'[t] = backend[t]
  BY <1>1 DEF IInv, TypeOK
<1>4. Answers' /\ Forwarded'
  BY <1>1 DEF IInv, TypeOK, Answers, Forwarded, IsPost
<1>5. Handled' /\ Pools'
  BY <1>1, <1>3, PoolsKept DEF IInv, Handled, IsPost
<1> QED
  BY <1>2, <1>4, <1>5 DEF IInv

LEMMA ConnectKeeps == ASSUME IInv, NEW s \in Sessions, Connect(s) PROVE IInv'
<1> USE DEF Connect, Goto, clientVars, apiVars
<1>1. TypeOK'
  BY DEF IInv, TypeOK
<1>2. Answers' /\ Forwarded'
  BY DEF IInv, TypeOK, Answers, Forwarded, IsPost
<1>3. Handled' /\ Pools'
  BY PoolsKept DEF IInv, Handled, IsPost
<1> QED
  BY <1>1, <1>2, <1>3 DEF IInv

LEMMA SendRequestKeeps == ASSUME IInv, NEW s \in Sessions, SendRequest(s) PROVE IInv'
<1> USE DEF SendRequest, Goto, clientVars
<1>1. TypeOK'
  BY DEF IInv, TypeOK
<1>2. Answers' /\ Forwarded'
  BY DEF IInv, TypeOK, Answers, Forwarded, IsPost
<1>3. Handled' /\ Pools'
  <2>1. api[s] = "none" /\ \A t \in Sessions : t # s => api'[t] = api[t]
    BY DEF IInv, TypeOK, Forwarded
  <2> QED
    BY <2>1, PoolsKept DEF IInv, TypeOK, Handled, IsPost
<1> QED
  BY <1>1, <1>2, <1>3 DEF IInv

LEMMA DeadlinePassesKeeps == ASSUME IInv, NEW s \in Sessions, DeadlinePasses(s) PROVE IInv'
<1> USE DEF DeadlinePasses, apiVars
<1>1. TypeOK'
  BY DEF IInv, TypeOK
<1>2. Answers' /\ Forwarded' /\ Handled' /\ Pools'
  BY DEF IInv, Answers, Forwarded, Handled, Pools, IsPost
<1> QED
  BY <1>1, <1>2 DEF IInv

\* The steps that write one: the acknowledgement of a payment, ...
LEMMA AcknowledgeKeeps == ASSUME IInv, NEW s \in Sessions, Acknowledge(s) PROVE IInv'
<1>1. /\ pc[s] = "ack" /\ IsPost(s) /\ pc' = [pc EXCEPT ![s] = "pick"]
      /\ UNCHANGED <<nextBackend, kind, backend, failed, api, pool, replied, enqueued, served, up>>
  BY DEF Acknowledge, Goto, apiVars, IInv, Forwarded
<1>2. WriteResponse(s, "ok")
  BY DEF Acknowledge
<1>3. TypeOK'
  <2>1. /\ sendClosed' = [sendClosed EXCEPT ![s] = TRUE] /\ late' = late
        /\ got' \in [Sessions -> Seq({"ok", "bad gateway"})]
    BY <1>2, Responding
  <2> QED
    BY <1>1, <2>1 DEF IInv, TypeOK
<1>4. Answers'
  <2>1. /\ sendClosed'[s] = TRUE
        /\ \A t \in Sessions : t # s => got'[t] = got[t] /\ sendClosed'[t] = sendClosed[t]
    BY <1>2, Responding
  <2>2. pc'[s] = "pick" /\ \A t \in Sessions : t # s => pc'[t] = pc[t]
    BY <1>1 DEF IInv, TypeOK
  <2> QED
    BY <1>1, <2>1, <2>2 DEF IInv, Answers, IsPost
<1>5. Forwarded'
  BY <1>1 DEF IInv, TypeOK, Forwarded, IsPost
<1>6. Handled' /\ Pools'
  BY <1>1, PoolsKept DEF IInv, Handled, IsPost
<1> QED
  BY <1>3, <1>4, <1>5, <1>6 DEF IInv

\* ... and the last one of a session, ok to other requests than payments only
\* when they were carried out.
LEMMA EndKeeps ==
  ASSUME IInv, NEW s \in Sessions, NEW a \in {"ok", "bad gateway"}, WriteResponse(s, a),
         pc[s] \in {"connect", "send", "await"}, pc' = [pc EXCEPT ![s] = "end"],
         IsPost(s) => s \in failed', failed \subseteq failed', failed' \subseteq Sessions,
         ~IsPost(s) /\ a = "ok" => served[s],
         UNCHANGED <<nextBackend, kind, backend, api, pool, replied, enqueued, served, up>>
  PROVE  IInv'
<1>1. TypeOK'
  BY Responding DEF IInv, TypeOK
<1>2. Answers'
  <2>1. /\ sendClosed'[s] = TRUE
        /\ \A t \in Sessions : t # s => got'[t] = got[t] /\ sendClosed'[t] = sendClosed[t]
        /\ got'[s] \in {got[s], <<a>>}
    BY Responding
  <2>2. pc'[s] = "end" /\ \A t \in Sessions : t # s => pc'[t] = pc[t]
    BY DEF IInv, TypeOK
  <2>3. <<a>> = <<"ok">> => a = "ok"
    OBVIOUS
  <2> QED
    BY <2>1, <2>2, <2>3 DEF IInv, Answers, IsPost
<1>3. Forwarded'
  BY DEF IInv, TypeOK, Forwarded, IsPost
<1>4. Handled' /\ Pools'
  BY PoolsKept DEF IInv, Handled, IsPost
<1> QED
  BY <1>1, <1>2, <1>3, <1>4 DEF IInv

LEMMA BackendErrorKeeps == ASSUME IInv, NEW s \in Sessions, BackendError(s) PROVE IInv'
BY EndKeeps DEF BackendError, Goto, apiVars, IInv, TypeOK

LEMMA BackendTimeoutKeeps == ASSUME IInv, NEW s \in Sessions, BackendTimeout(s) PROVE IInv'
BY EndKeeps DEF BackendTimeout, Goto, apiVars, IInv, TypeOK, Forwarded

LEMMA ForwardResponseKeeps == ASSUME IInv, NEW s \in Sessions, ForwardResponse(s) PROVE IInv'
BY EndKeeps DEF ForwardResponse, Goto, apiVars, IInv, TypeOK, Forwarded, Handled

-----------------------------------------------------------------------------
(* The instance.                                                           *)

LEMMA RequestFailsKeeps == ASSUME IInv, NEW s \in Sessions, RequestFails(s) PROVE IInv'
<1> USE DEF RequestFails, Step, proxyVars, clientVars
<1>1. TypeOK'
  BY DEF IInv, TypeOK
<1>2. Answers' /\ Forwarded'
  BY DEF IInv, TypeOK, Answers, Forwarded, IsPost
<1>3. Handled' /\ Pools'
  BY PoolsKept DEF IInv, TypeOK, Handled, IsPost
<1> QED
  BY <1>1, <1>2, <1>3 DEF IInv

LEMMA ReadRequestKeeps == ASSUME IInv, NEW s \in Sessions, ReadRequest(s) PROVE IInv'
<1> USE DEF ReadRequest, Step, proxyVars, clientVars
<1>1. TypeOK'
  <2>1. IsPost(s) \in BOOLEAN
    BY DEF IsPost
  <2> QED
    BY <2>1 DEF IInv, TypeOK
<1>2. Answers' /\ Forwarded'
  BY DEF IInv, TypeOK, Answers, Forwarded, IsPost
<1>3. Handled' /\ Pools'
  BY PoolsKept DEF IInv, TypeOK, Handled, IsPost
<1> QED
  BY <1>1, <1>2, <1>3 DEF IInv

\* A job that is posted was in no pool, for its request was not queued.
LEMMA PostToPoolKeeps == ASSUME IInv, NEW s \in Sessions, PostToPool(s) PROVE IInv'
<1> DEFINE b == backend[s]
<1>1. /\ b \in Backends /\ pool \in [Backends -> Seq(Sessions)]
      /\ api[s] = "post" /\ api'[s] = "queued"
      /\ \A t \in Sessions : t # s => api'[t] = api[t]
      /\ pool' = [pool EXCEPT ![b] = Append(@, s)]
      /\ UNCHANGED <<proxyVars, replied, enqueued, served, up>>
  BY DEF PostToPool, Step, IInv, TypeOK
<1> HIDE DEF b
<1>2. /\ pool' \in [Backends -> Seq(Sessions)]
      /\ Len(pool'[b]) = Len(pool[b]) + 1 /\ Len(pool[b]) \in Nat
      /\ \A i \in 1..Len(pool[b]) : pool'[b][i] = pool[b][i]
      /\ pool'[b][Len(pool[b]) + 1] = s
      /\ \A c \in Backends : c # b => pool'[c] = pool[c]
  BY <1>1
<1>3. TypeOK'
  BY <1>1, <1>2 DEF PostToPool, Step, proxyVars, clientVars, IInv, TypeOK
<1>4. Answers' /\ Forwarded' /\ Handled'
  BY <1>1 DEF proxyVars, clientVars, IInv, Answers, Forwarded, Handled, IsPost
<1>5. Pools'
  <2> SUFFICES ASSUME NEW c \in Backends, NEW i \in 1..Len(pool'[c])
               PROVE  /\ backend[pool'[c][i]] = c /\ api'[pool'[c][i]] = "queued"
                      /\ \A j \in 1..Len(pool'[c]) : pool'[c][i] = pool'[c][j] => i = j
    BY <1>1 DEF proxyVars, Pools
  <2>1. \A d \in Backends : \A j \in 1..Len(pool[d]) :
          /\ pool[d][j] \in Sessions /\ pool[d][j] # s
          /\ backend[pool[d][j]] = d /\ api'[pool[d][j]] = "queued"
    <3>1. \A d \in Backends : \A j \in 1..Len(pool[d]) :
            backend[pool[d][j]] = d /\ api[pool[d][j]] = "queued"
      BY DEF IInv, Pools
    <3>2. \A d \in Backends : \A j \in 1..Len(pool[d]) : pool[d][j] \in Sessions
      BY Jobs DEF IInv
    <3> QED
      BY <1>1, <3>1, <3>2
  <2>2. CASE c # b
    BY <1>2, <2>1, <2>2 DEF IInv, Pools
  <2>3. CASE c = b
    <3>1. backend[s] = c /\ api'[s] = "queued"
      BY <1>1, <2>3 DEF b
    <3>2. \A j, k \in 1..Len(pool[b]) : pool[b][j] = pool[b][k] => j = k
      BY <2>3 DEF IInv, Pools
    <3> QED
      BY <1>2, <2>1, <2>3, <3>1, <3>2
  <2> QED
    BY <2>2, <2>3
<1> QED
  BY <1>3, <1>4, <1>5 DEF IInv

\* A worker takes the oldest job, which is not in the rest of the pool.
LEMMA StartJobKeeps == ASSUME IInv, NEW b \in Backends, StartJob(b) PROVE IInv'
<1> DEFINE s == Head(pool[b])
<1>1. pool \in [Backends -> Seq(Sessions)] /\ pool[b] # <<>>
  BY DEF StartJob, IInv, TypeOK
<1>2. /\ pool' = [pool EXCEPT ![b] = Tail(@)]
      /\ api' = [api EXCEPT ![s] = "running"]
      /\ UNCHANGED <<proxyVars, replied, enqueued, served, up>>
  BY DEF StartJob
<1>3. /\ s \in Sessions /\ s = pool[b][1] /\ 1 \in 1..Len(pool[b])
      /\ pool' \in [Backends -> Seq(Sessions)]
      /\ \A i \in 1..Len(pool'[b]) : i + 1 \in 1..Len(pool[b]) /\ pool'[b][i] = pool[b][i + 1]
      /\ \A c \in Backends : c # b => pool'[c] = pool[c]
  BY <1>1, <1>2
<1> HIDE DEF s
<1>4. /\ api[s] = "queued" /\ backend[s] = b /\ api'[s] = "running"
      /\ \A t \in Sessions : t # s => api'[t] = api[t]
  <2>1. api[s] = "queued" /\ backend[s] = b
    BY <1>3 DEF IInv, Pools
  <2> QED
    BY <1>2, <1>3, <2>1 DEF IInv, TypeOK
<1>5. TypeOK'
  BY <1>2, <1>3 DEF proxyVars, clientVars, IInv, TypeOK
<1>6. Answers' /\ Forwarded' /\ Handled'
  BY <1>2, <1>4 DEF proxyVars, clientVars, IInv, Answers, Forwarded, Handled, IsPost
<1>7. Pools'
  <2> SUFFICES ASSUME NEW c \in Backends, NEW i \in 1..Len(pool'[c])
               PROVE  /\ backend[pool'[c][i]] = c /\ api'[pool'[c][i]] = "queued"
                      /\ \A j \in 1..Len(pool'[c]) : pool'[c][i] = pool'[c][j] => i = j
    BY <1>2 DEF proxyVars, Pools
  <2>1. CASE c # b
    BY <1>3, <1>4, <2>1, Jobs DEF IInv, Pools
  <2>2. CASE c = b
    <3>1. \A j, k \in 1..Len(pool[b]) : pool[b][j] = pool[b][k] => j = k
      BY DEF IInv, Pools
    <3>2. pool'[b][i] \in Sessions /\ pool'[b][i] # s
      BY <1>3, <2>2, <3>1, Jobs DEF IInv
    <3>3. backend[pool'[b][i]] = b /\ api[pool'[b][i]] = "queued"
      BY <1>3, <2>2 DEF IInv, Pools
    <3> QED
      BY <1>3, <1>4, <2>2, <3>1, <3>2, <3>3
  <2> QED
    BY <2>1, <2>2
<1> QED
  BY <1>5, <1>6, <1>7 DEF IInv

LEMMA RunHandlerKeeps == ASSUME IInv, NEW s \in Sessions, RunHandler(s) PROVE IInv'
<1> USE DEF RunHandler, Step, proxyVars, clientVars
<1>1. TypeOK'
  BY DEF IInv, TypeOK
<1>2. Answers' /\ Forwarded'
  BY DEF IInv, TypeOK, Answers, Forwarded, IsPost
<1>3. Handled' /\ Pools'
  BY PoolsKept DEF IInv, TypeOK, Handled, IsPost
<1> QED
  BY <1>1, <1>2, <1>3 DEF IInv

LEMMA WriteReplyKeeps == ASSUME IInv, NEW s \in Sessions, WriteReply(s) PROVE IInv'
<1> USE DEF WriteReply, Step, proxyVars, clientVars
<1>1. TypeOK'
  BY DEF IInv, TypeOK
<1>2. Answers' /\ Forwarded'
  BY DEF IInv, TypeOK, Answers, Forwarded, IsPost
<1>3. Handled' /\ Pools'
  BY PoolsKept DEF IInv, TypeOK, Handled, IsPost
<1> QED
  BY <1>1, <1>2, <1>3 DEF IInv

LEMMA HandlerThrowsKeeps == ASSUME IInv, NEW s \in Sessions, HandlerThrows(s) PROVE IInv'
<1> USE DEF HandlerThrows, proxyVars, clientVars
<1>1. TypeOK'
  BY DEF IInv, TypeOK
<1>2. Answers' /\ Forwarded' /\ Handled' /\ Pools'
  BY DEF IInv, Answers, Forwarded, Handled, Pools, IsPost
<1> QED
  BY <1>1, <1>2 DEF IInv

LEMMA NextIInv == IInv /\ [Next]_vars => IInv'
<1>1. ASSUME IInv, UNCHANGED vars PROVE IInv'
  <2> USE <1>1 DEF vars, proxyVars, clientVars, apiVars, IInv
  <2>1. TypeOK' /\ Pools'
    BY DEF TypeOK, Pools
  <2>2. Answers' /\ Forwarded' /\ Handled'
    BY DEF Answers, Forwarded, Handled, IsPost
  <2> QED
    BY <2>1, <2>2
<1> QED
  BY <1>1, AcceptKeeps, AcknowledgeKeeps, PickBackendKeeps, ConnectKeeps, SendRequestKeeps,
     BackendErrorKeeps, DeadlinePassesKeeps, BackendTimeoutKeeps, ForwardResponseKeeps,
     RequestFailsKeeps, ReadRequestKeeps, PostToPoolKeeps, StartJobKeeps, RunHandlerKeeps,
     WriteReplyKeeps, HandlerThrowsKeeps
     DEF Next, Proxy, Api

\* The inductive invariant of the two ends of every request.
THEOREM Invariance == Spec => []IInv
BY InitIInv, NextIInv, PTL DEF Spec

\* Types, for any sessions, workers and faults.
THEOREM Typing == Spec => []TypeOK
<1>1. IInv => TypeOK
  BY DEF IInv
<1> QED
  BY <1>1, Invariance, PTL

\* A payment whose client was told ok is on its way, or in the queue of the
\* instance that was picked, unless the connection failed, the request could
\* not be read or the process has terminated (Session, sessionHandler).
THEOREM AckedIsKeptTheorem == Spec => []AckedIsKept
<1>1. IInv => AckedIsKept
  <2> SUFFICES ASSUME IInv, NEW s \in Sessions, kind[s] = "payment", got[s] = <<"ok">>
               PROVE  \/ s \in enqueued[backend[s]]
                      \/ pc[s] \in {"pick", "connect", "send"}
                      \/ pc[s] = "end" /\ api[s] \in {"sent", "post", "queued", "running"}
                      \/ s \in failed \/ NoBackend(s)
    BY DEF AckedIsKept
  <2>1. IsPost(s) /\ got[s] # <<>>
    BY DEF IsPost
  <2>2. pc[s] \in {"pick", "connect", "send", "end"}
    BY <2>1 DEF IInv, TypeOK, Answers, Forwarded
  <2>3. CASE pc[s] = "end" /\ s \notin failed
    <3>1. api[s] \in {"sent", "closed", "post", "queued", "running", "done"}
      BY <2>1, <2>3 DEF IInv, TypeOK, Forwarded, Handled
    <3> QED
      BY <2>3, <3>1 DEF IInv, Handled, NoBackend
  <2> QED
    BY <2>2, <2>3
<1> QED
  BY <1>1, Invariance, PTL

-----------------------------------------------------------------------------
(* The refinement: asked is computed from pc and kind, done from served.   *)

AllAsked == [s \in Sessions |-> Asked(s)]
AllDone  == {s \in Sessions : served[s]}

\* A step of a session that was accepted before leaves asked alone.
LEMMA SameAsked ==
  ASSUME UNCHANGED kind, \A s \in Sessions : pc'[s] = "new" <=> pc[s] = "new"
  PROVE  UNCHANGED AllAsked
<1>1. \A s \in Sessions : Asked(s)' = Asked(s)
  BY DEF Asked, IsPost
<1> QED
  BY <1>1 DEF AllAsked

LEMMA ServiceVars ==
  ASSUME UNCHANGED <<AllAsked, got, AllDone>>
  PROVE  UNCHANGED Service!vars
BY DEF Service!vars, AllAsked, AllDone

LEMMA InitService == Init => Service!Init
BY DEF Init, Service!Init, Asked

\* A request that reaches the proxy is asked for.
LEMMA AcceptAsks == ASSUME IInv, NEW s \in Sessions, Accept(s) PROVE Service!Ask(s)
<1>1. /\ pc[s] = "new" /\ UNCHANGED <<kind, got, served>>
      /\ \E k \in {"ack", "pick"} : pc' = [pc EXCEPT ![s] = k]
  BY DEF Accept, Goto, clientVars, apiVars
<1>2. AllAsked[s] = "nothing"
  BY <1>1 DEF AllAsked, Asked
<1>3. \A t \in Sessions : t # s => Asked(t)' = Asked(t)
  BY <1>1 DEF IInv, TypeOK, Asked, IsPost
<1>4. Asked(s)' \in {"payment", "other"}
  BY <1>1 DEF IInv, TypeOK, Asked, IsPost
<1>5. AllAsked' = [AllAsked EXCEPT ![s] = Asked(s)']
  BY <1>3 DEF AllAsked
<1>6. UNCHANGED AllDone
  BY <1>1 DEF AllDone
<1> QED
  BY <1>1, <1>2, <1>4, <1>5, <1>6 DEF Service!Ask, AllAsked, AllDone

\* A handler that runs carries the request out, for the first time.
LEMMA RunHandlerCarriesOut == ASSUME IInv, NEW s \in Sessions, RunHandler(s) PROVE Service!CarryOut(s)
<1>1. /\ api[s] = "running" /\ served' = [served EXCEPT ![s] = TRUE]
      /\ UNCHANGED <<kind, pc, got>>
  BY DEF RunHandler, Step, proxyVars, clientVars
<1>2. pc[s] # "new" /\ ~served[s]
  BY <1>1 DEF IInv, Forwarded, Handled
<1>3. AllAsked[s] # "nothing" /\ s \notin AllDone
  BY <1>2 DEF AllAsked, Asked, AllDone
<1>4. AllDone' = AllDone \cup {s}
  BY <1>1 DEF AllDone, IInv, TypeOK
<1>5. UNCHANGED AllAsked
  BY <1>1, SameAsked
<1> QED
  BY <1>1, <1>3, <1>4, <1>5 DEF Service!CarryOut, AllAsked, AllDone

\* The proxy answers a payment ok before it picks a backend, ...
LEMMA AcknowledgeAnswers ==
  ASSUME IInv, NEW s \in Sessions, Acknowledge(s)
  PROVE  Service!AnswerOk(s) \/ UNCHANGED Service!vars
<1>1. /\ pc[s] = "ack" /\ IsPost(s) /\ pc' = [pc EXCEPT ![s] = "pick"] /\ UNCHANGED <<kind, served>>
      /\ WriteResponse(s, "ok")
  BY DEF Acknowledge, Goto, apiVars, IInv, Forwarded
<1>2. AllAsked[s] = "payment"
  BY <1>1 DEF AllAsked, Asked
<1>3. UNCHANGED AllAsked
  BY <1>1, SameAsked DEF IInv, TypeOK
<1>4. UNCHANGED AllDone
  BY <1>1 DEF AllDone
<1>5. CASE UNCHANGED got
  BY <1>3, <1>4, <1>5, ServiceVars
<1>6. CASE got[s] = <<>> /\ got' = [got EXCEPT ![s] = <<"ok">>]
  BY <1>2, <1>3, <1>4, <1>6 DEF Service!AnswerOk, AllAsked, AllDone
<1> QED
  BY <1>1, <1>5, <1>6, Responding

\* ... and the others when their session ends, ok only after the instance has
\* carried them out.  A payment gets no second answer then: its connection is
\* closed for sending.
LEMMA EndAnswers ==
  ASSUME IInv, NEW s \in Sessions, NEW a \in {"ok", "bad gateway"}, WriteResponse(s, a),
         pc[s] \in {"connect", "send", "await"}, pc' = [pc EXCEPT ![s] = "end"],
         ~IsPost(s) /\ a = "ok" => served[s], UNCHANGED <<kind, served>>
  PROVE  Service!AnswerOk(s) \/ Service!AnswerError(s) \/ UNCHANGED Service!vars
<1>1. UNCHANGED AllAsked
  BY SameAsked DEF IInv, TypeOK
<1>2. UNCHANGED AllDone
  BY DEF AllDone
<1>3. CASE UNCHANGED got
  BY <1>1, <1>2, <1>3, ServiceVars
<1>4. CASE ~sendClosed[s] /\ got[s] = <<>> /\ got' = [got EXCEPT ![s] = <<a>>]
  <2>1. ~IsPost(s)
    BY <1>4 DEF IInv, Answers
  <2>2. AllAsked[s] = "other"
    BY <2>1 DEF AllAsked, Asked
  <2>3. CASE a = "ok"
    <3>1. s \in AllDone
      BY <2>1, <2>3 DEF AllDone
    <3> QED
      BY <1>1, <1>2, <1>4, <2>3, <3>1 DEF Service!AnswerOk, AllAsked, AllDone
  <2>4. CASE a = "bad gateway"
    BY <1>1, <1>2, <1>4, <2>2, <2>4 DEF Service!AnswerError, AllAsked, AllDone
  <2> QED
    BY <2>3, <2>4
<1> QED
  BY <1>3, <1>4, Responding

LEMMA NextService == IInv /\ [Next]_vars => [Service!Next]_(Service!vars)
<1> SUFFICES ASSUME IInv, [Next]_vars PROVE Service!Next \/ UNCHANGED Service!vars
  OBVIOUS
<1>1. ASSUME NEW s \in Sessions, Accept(s) PROVE Service!Next
  BY <1>1, AcceptAsks DEF Service!Next
<1>2. ASSUME NEW s \in Sessions, Acknowledge(s) PROVE Service!Next \/ UNCHANGED Service!vars
  BY <1>2, AcknowledgeAnswers DEF Service!Next
<1>3. ASSUME NEW s \in Sessions, RunHandler(s) PROVE Service!Next
  BY <1>3, RunHandlerCarriesOut DEF Service!Next
<1>4. ASSUME NEW s \in Sessions, BackendError(s) \/ BackendTimeout(s) \/ ForwardResponse(s)
      PROVE  Service!Next \/ UNCHANGED Service!vars
  <2>1. PICK a \in {"ok", "bad gateway"} : WriteResponse(s, a) /\ (a = "ok" => replied[s])
    BY <1>4 DEF BackendError, BackendTimeout, ForwardResponse
  <2>2. /\ pc[s] \in {"connect", "send", "await"} /\ pc' = [pc EXCEPT ![s] = "end"]
        /\ UNCHANGED <<kind, served>>
    BY <1>4 DEF BackendError, BackendTimeout, ForwardResponse, Goto, apiVars
  <2>3. ~IsPost(s) /\ a = "ok" => served[s]
    BY <2>1 DEF IInv, Handled
  <2> QED
    BY <2>1, <2>2, <2>3, EndAnswers DEF Service!Next
<1>5. ASSUME NEW s \in Sessions, PickBackend(s) \/ Connect(s) \/ SendRequest(s)
      PROVE  UNCHANGED Service!vars
  <2>1. /\ UNCHANGED <<kind, got, served>> /\ pc[s] # "new"
        /\ \E k \in {"connect", "send", "await", "end"} : pc' = [pc EXCEPT ![s] = k]
    BY <1>5 DEF PickBackend, Connect, SendRequest, Goto, clientVars, apiVars
  <2>2. UNCHANGED AllAsked
    BY <2>1, SameAsked DEF IInv, TypeOK
  <2> QED
    BY <2>1, <2>2, ServiceVars DEF AllDone
<1>6. CASE UNCHANGED <<kind, pc, got, served>>
  BY <1>6, SameAsked, ServiceVars DEF AllDone
<1>7. ASSUME NEW s \in Sessions,
             \/ DeadlinePasses(s) \/ RequestFails(s) \/ HandlerThrows(s)
             \/ ReadRequest(s) \/ PostToPool(s) \/ WriteReply(s)
      PROVE  UNCHANGED <<kind, pc, got, served>>
  BY <1>7 DEF DeadlinePasses, RequestFails, HandlerThrows, ReadRequest, PostToPool, WriteReply,
              proxyVars, clientVars, apiVars
<1>8. (\E b \in Backends : StartJob(b)) \/ UNCHANGED vars => UNCHANGED <<kind, pc, got, served>>
  BY DEF StartJob, vars, proxyVars, clientVars, apiVars
<1> QED
  BY <1>1, <1>2, <1>3, <1>4, <1>5, <1>6, <1>7, <1>8 DEF Next, Proxy, Api

\* ReverseProxy implements ProxyService: the sessions of the proxy and of the
\* instances answer each client once, and ok to other requests than payments
\* only when an instance has carried them out.
THEOREM ImplementsServiceTheorem == Spec => ImplementsService
  BY InitService, NextService, Invariance, PTL DEF Spec, ImplementsService, Service!Spec
=============================================================================

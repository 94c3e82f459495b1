------------------------------- MODULE IpcSlot -------------------------------
(***************************************************************************)
(* One slot of the shared memory between the proxy and the API instances   *)
(* of the boost-ipc variant (IpcMessage, Session::processRequest of the    *)
(* proxy and handler() of the API).                                        *)
(*                                                                         *)
(* Each proxy thread owns one slot: it writes a request into it and posts  *)
(* requestReady.  In EVERY API instance one handler thread waits on that   *)
(* same slot, so the instances compete for its requests.  For a summary or *)
(* a purge the proxy then waits on responseReady; for a payment it does    *)
(* not, and goes on to write its next request into the same memory,        *)
(* whether or not a handler has read the payment by then.                  *)
(*                                                                         *)
(* The union of the slot is two fields: head, which holds the correlation  *)
(* id of a payment, the range of a summary request or a summary, and       *)
(* amount, which only a payment uses.  Requests are numbered, and a field  *)
(* holds the number of the request it was written for.                     *)
(*                                                                         *)
(* An instance may end at any time: handler() catches nothing, so that an  *)
(* LMDB error in a summary or a purge, on this slot or on another one,     *)
(* terminates the process, and a request its handler has in hand is lost.  *)
(***************************************************************************)
EXTENDS Integers, Sequences, FiniteSets

CONSTANTS Handlers,    \* the handler threads waiting on this slot, one per API instance
          MaxRequests  \* how many requests the proxy thread gets (bound)

ASSUME HandlersAssumption == IsFiniteSet(Handlers) /\ "proxy" \notin Handlers
ASSUME BoundAssumption    == MaxRequests \in Nat

\* What a client may send: a payment, one whose body is no JSON object, one
\* with a bad amount or id, a summary, a summary with a date that cannot be
\* parsed, a purge.
Kinds == {"post", "malformed", "invalid", "summary", "badDate", "purge"}

Answered == {"summary", "purge"}  \* those the proxy waits for

Requests == 1..MaxRequests
Garbage  == -1                    \* bytes of another type, or torn
Numbers  == Requests \cup {0, Garbage}

VARIABLES
  requestReady, responseReady, \* the two semaphores
  messageType, head, amount,   \* the rest of IpcMessage
  writing,                     \* who is in the middle of writing head
  pc, kind, request,           \* the proxy thread: its request, and that one's number
  hpc, copied,                 \* hpc[h], copied[h]: handler h and its local copy
  posted,                      \* the payments the proxy signalled (history)
  enqueued,                    \* the payments handlers enqueued (history)
  replies,                     \* the summaries the proxy got (history)
  asked, purged,               \* purges signalled and carried out (history)
  forsaken,                    \* a handler ended, a request in hand, while the proxy waits (history)
  overlapped                   \* a request began before the last one was done with (history)

slotVars    == <<messageType, head, amount, writing>>
semVars     == <<requestReady, responseReady>>
proxyVars   == <<pc, kind, request>>
handlerVars == <<hpc, copied>>
bookVars    == <<posted, enqueued, replies, asked, purged>>
historyVars == <<bookVars, forsaken, overlapped>>
vars        == <<semVars, slotVars, proxyVars, handlerVars, historyVars>>

Bytes(view, n) == [view |-> view, n |-> n]
Zero           == Bytes("zero", 0)
Torn(w)        == [view |-> "torn", by |-> w]
Mixed          == Bytes("mixed", Garbage)

\* What reading head as a correlation id or as a range gives.
ReadAs(view) == IF head.view \in {view, "zero"} THEN head.n ELSE Garbage

NoCopy == [amount |-> 0, id |-> 0, left |-> {"amount", "id"}]

Init ==
  /\ requestReady = 0 /\ responseReady = 0
  /\ messageType = "post"        \* fresh shared memory is all zeros
  /\ head = Zero /\ amount = 0
  /\ writing = {}
  /\ pc = "idle" /\ kind = "post" /\ request = 0
  /\ hpc = [h \in Handlers |-> "wait"]
  /\ copied = [h \in Handlers |-> NoCopy]
  /\ posted = <<>> /\ enqueued = <<>> /\ replies = <<>>
  /\ asked = 0 /\ purged = 0
  /\ forsaken = FALSE /\ overlapped = FALSE

-----------------------------------------------------------------------------
(* Writing head takes time: what is read meanwhile is torn, and so is what *)
(* two writers leave who write at once.                                    *)

StartWrite(w) ==
  /\ w \notin writing
  /\ writing' = writing \cup {w}
  /\ head' = Torn(w)

FinishWrite(w, bytes) ==
  /\ w \in writing
  /\ writing' = writing \ {w}
  /\ head' = IF head = Torn(w) THEN bytes ELSE Mixed

-----------------------------------------------------------------------------
(* The proxy thread.                                                       *)

\* The handlers with a request in hand, those who ended with it included.
Busy == {h \in Handlers : hpc[h] \notin {"wait", "ended"}}

\* A client's request has been read; the proxy turns to its slot.
Receive(k) ==
  /\ pc = "idle" /\ request < MaxRequests
  /\ request' = request + 1
  /\ kind' = k
  /\ pc' = IF k \in {"post", "malformed", "invalid"} THEN "clear" ELSE "type"
  /\ overlapped' = (overlapped \/ requestReady > 0 \/ Busy # {})
  /\ UNCHANGED <<semVars, slotVars, handlerVars, bookVars, forsaken>>

StartProxyWrite ==
  /\ pc \in {"clear", "id", "range"}
  /\ StartWrite("proxy")
  /\ UNCHANGED <<semVars, messageType, amount, proxyVars, handlerVars, historyVars>>

\* postPaymentRequest = {}; a body that is no JSON object throws after that.
Clear ==
  /\ pc = "clear"
  /\ FinishWrite("proxy", Zero)
  /\ amount' = 0
  /\ pc' = IF kind = "malformed" THEN "idle" ELSE "amount"
  /\ UNCHANGED <<semVars, messageType, kind, request, handlerVars, historyVars>>

\* The amount is written before it is checked.
WriteAmount ==
  /\ pc = "amount"
  /\ amount' = request
  /\ pc' = IF kind = "invalid" THEN "idle" ELSE "id"
  /\ UNCHANGED <<semVars, messageType, head, writing, kind, request, handlerVars, historyVars>>

WriteId ==
  /\ pc = "id"
  /\ FinishWrite("proxy", Bytes("post", request))
  /\ pc' = "type"
  /\ UNCHANGED <<semVars, messageType, amount, kind, request, handlerVars, historyVars>>

\* Mutant: the type of a payment is left as the last request set it.
WriteType_NotForPayments ==
  /\ pc = "type"
  /\ messageType' = IF kind = "badDate" THEN "summary"
                    ELSE IF kind = "post" THEN messageType ELSE kind
  /\ pc' = IF kind \in {"summary", "badDate"} THEN "range" ELSE "signal"
  /\ UNCHANGED <<semVars, head, amount, writing, kind, request, handlerVars, historyVars>>

WriteType ==
  /\ pc = "type"
  /\ messageType' = IF kind = "badDate" THEN "summary" ELSE kind
  /\ pc' = IF kind \in {"summary", "badDate"} THEN "range" ELSE "signal"
  /\ UNCHANGED <<semVars, head, amount, writing, kind, request, handlerVars, historyVars>>

\* paymentsSummaryRequest = {}, from and to; a bad date throws in between.
WriteRange ==
  /\ pc = "range"
  /\ FinishWrite("proxy", Bytes("range", request))
  /\ pc' = IF kind = "badDate" THEN "idle" ELSE "signal"
  /\ UNCHANGED <<semVars, messageType, amount, kind, request, handlerVars, historyVars>>

\* requestReady.post().  A payment is answered ok at once; the rest waits.
Signal ==
  /\ pc = "signal"
  /\ requestReady' = requestReady + 1
  /\ pc' = IF kind = "post" THEN "idle" ELSE "await"
  /\ posted' = IF kind = "post" THEN Append(posted, request) ELSE posted
  /\ asked'  = IF kind = "purge" THEN asked + 1 ELSE asked
  /\ forsaken' = FALSE
  /\ UNCHANGED <<responseReady, slotVars, kind, request, handlerVars,
                 enqueued, replies, purged, overlapped>>

\* responseReady.wait()
Await ==
  /\ pc = "await"
  /\ responseReady > 0
  /\ responseReady' = responseReady - 1
  /\ pc' = IF kind = "summary" THEN "reply" ELSE "idle"
  /\ UNCHANGED <<requestReady, slotVars, kind, request, handlerVars, historyVars>>

Reply ==
  /\ pc = "reply"
  /\ replies' = Append(replies, [to |-> request, range |-> ReadAs("response")])
  /\ pc' = "idle"
  /\ UNCHANGED <<semVars, slotVars, kind, request, handlerVars,
                 posted, enqueued, asked, purged, forsaken, overlapped>>

-----------------------------------------------------------------------------
(* The handler thread of an API instance.                                  *)

Goto(h, where) == hpc' = [hpc EXCEPT ![h] = where]

Take(h) ==
  /\ hpc[h] = "wait"
  /\ requestReady > 0
  /\ requestReady' = requestReady - 1
  /\ Goto(h, "switch")
  /\ UNCHANGED <<responseReady, slotVars, proxyVars, copied, historyVars>>

Switch(h) ==
  /\ hpc[h] = "switch"
  /\ Goto(h, CASE messageType = "post"    -> "copy"
               [] messageType = "summary" -> "range"
               [] messageType = "purge"   -> "purge")
  /\ copied' = [copied EXCEPT ![h] = NoCopy]
  /\ UNCHANGED <<semVars, slotVars, proxyVars, historyVars>>

\* The two fields of a payment are copied one after the other; nothing orders
\* the two plain reads.
CopyAmount(h) ==
  /\ hpc[h] = "copy" /\ "amount" \in copied[h].left
  /\ copied' = [copied EXCEPT ![h] = [amount |-> amount, id |-> @.id, left |-> @.left \ {"amount"}]]
  /\ UNCHANGED <<semVars, slotVars, proxyVars, hpc, historyVars>>

CopyId(h) ==
  /\ hpc[h] = "copy" /\ "id" \in copied[h].left
  /\ copied' = [copied EXCEPT ![h] = [amount |-> @.amount, id |-> ReadAs("post"), left |-> @.left \ {"id"}]]
  /\ UNCHANGED <<semVars, slotVars, proxyVars, hpc, historyVars>>

\* Mutant: a payment is answered too, although the proxy does not wait for it.
Enqueue_AndRespond(h) ==
  /\ hpc[h] = "copy" /\ copied[h].left = {}
  /\ enqueued' = Append(enqueued, [amount |-> copied[h].amount, id |-> copied[h].id])
  /\ responseReady' = responseReady + 1
  /\ Goto(h, "wait")
  /\ UNCHANGED <<requestReady, slotVars, proxyVars, copied,
                 posted, replies, asked, purged, forsaken, overlapped>>

Enqueue(h) ==
  /\ hpc[h] = "copy" /\ copied[h].left = {}
  /\ enqueued' = Append(enqueued, [amount |-> copied[h].amount, id |-> copied[h].id])
  /\ Goto(h, "wait")
  /\ UNCHANGED <<semVars, slotVars, proxyVars, copied,
                 posted, replies, asked, purged, forsaken, overlapped>>

\* The range is read and the summary computed (PaymentService).
ReadRange(h) ==
  /\ hpc[h] = "range"
  /\ copied' = [copied EXCEPT ![h].id = ReadAs("range")]
  /\ Goto(h, "respond")
  /\ UNCHANGED <<semVars, slotVars, proxyVars, historyVars>>

StartRespond(h) ==
  /\ hpc[h] = "respond"
  /\ StartWrite(h)
  /\ UNCHANGED <<semVars, messageType, amount, proxyVars, handlerVars, historyVars>>

Respond(h) ==
  /\ hpc[h] = "respond"
  /\ FinishWrite(h, Bytes("response", copied[h].id))
  /\ Goto(h, "signal")
  /\ UNCHANGED <<semVars, messageType, amount, proxyVars, copied, historyVars>>

\* Mutant: a purge is not answered.
Purge_WithoutResponse(h) ==
  /\ hpc[h] = "purge"
  /\ purged' = purged + 1
  /\ Goto(h, "wait")
  /\ UNCHANGED <<semVars, slotVars, proxyVars, copied,
                 posted, enqueued, replies, asked, forsaken, overlapped>>

\* PaymentService::purge; the pending payments are left alone.
Purge(h) ==
  /\ hpc[h] = "purge"
  /\ purged' = purged + 1
  /\ Goto(h, "signal")
  /\ UNCHANGED <<semVars, slotVars, proxyVars, copied,
                 posted, enqueued, replies, asked, forsaken, overlapped>>

\* responseReady.post()
PostResponse(h) ==
  /\ hpc[h] = "signal"
  /\ responseReady' = responseReady + 1
  /\ Goto(h, "wait")
  /\ UNCHANGED <<requestReady, slotVars, proxyVars, copied, historyVars>>

\* A PaymentService of this instance throws, called by this handler or by one
\* of another slot: std::terminate.  What the handler was writing stays torn.
InstanceEnds(h) ==
  /\ hpc[h] \notin {"ended", "lost"}
  /\ Goto(h, IF h \in Busy THEN "lost" ELSE "ended")
  /\ forsaken' = (forsaken \/ (pc = "await" /\ h \in Busy))
  /\ UNCHANGED <<semVars, slotVars, proxyVars, copied, bookVars, overlapped>>

-----------------------------------------------------------------------------

Proxy ==
  \/ \E k \in Kinds : Receive(k)
  \/ StartProxyWrite \/ Clear \/ WriteAmount \/ WriteId \/ WriteType
  \/ WriteRange \/ Signal \/ Await \/ Reply

Handler(h) ==
  \/ Take(h) \/ Switch(h) \/ CopyAmount(h) \/ CopyId(h) \/ Enqueue(h)
  \/ ReadRange(h) \/ StartRespond(h) \/ Respond(h) \/ Purge(h) \/ PostResponse(h)

Next == Proxy \/ \E h \in Handlers : Handler(h) \/ InstanceEnds(h)

Spec == Init /\ [][Next]_vars

\* Threads that can move do; clients need not send anything.  A handler that
\* ended moves no more: nothing is assumed of PaymentService.
Fairness ==
  /\ WF_vars(pc # "idle" /\ Proxy)
  /\ \A h \in Handlers : WF_vars(Handler(h))

FairSpec == Spec /\ Fairness

-----------------------------------------------------------------------------
(* Properties.                                                             *)

Heads == [view : {"zero", "post", "range", "response", "mixed"}, n : Numbers]
           \cup [view : {"torn"}, by : Handlers \cup {"proxy"}]

TypeOK ==
  /\ requestReady \in Nat /\ responseReady \in Nat
  /\ messageType \in {"post", "summary", "purge"}
  /\ head \in Heads /\ amount \in Numbers
  /\ writing \subseteq Handlers \cup {"proxy"}
  /\ pc \in {"idle", "clear", "amount", "id", "type", "range", "signal", "await", "reply"}
  /\ kind \in Kinds /\ request \in Requests \cup {0}
  /\ hpc \in [Handlers -> {"wait", "switch", "copy", "range", "respond", "purge", "signal",
                       "ended", "lost"}]
  /\ copied \in [Handlers -> [amount : Numbers, id : Numbers, left : SUBSET {"amount", "id"}]]
  /\ posted \in Seq(Requests)
  /\ enqueued \in Seq([amount : Numbers, id : Numbers])
  /\ replies \in Seq([to : Requests, range : Numbers])
  /\ asked \in Nat /\ purged \in Nat
  /\ forsaken \in BOOLEAN /\ overlapped \in BOOLEAN

Awaiting == IF pc = "await" THEN 1 ELSE 0

\* Tokens are conserved: every request signalled is still in requestReady, in
\* the hands of a handler (and lost with it, if its instance has ended), enqueued
\* as a payment, or has become a response, even when a handler takes it for a
\* request of another type.
TokensBalance ==
  Len(posted) + Awaiting =
    requestReady + responseReady + Cardinality(Busy) + Len(enqueued)

\* A proxy thread that waits is about to be answered (there is a response, a
\* request, or a handler that is going to respond), unless an instance ended
\* with a request in hand since it began to wait: losing a payment before that,
\* or an instance that has nothing in hand, costs no answer.
AwaitIsServed ==
  pc = "await" => \/ forsaken
                  \/ requestReady > 0 \/ responseReady > 0
                  \/ \E h \in Handlers : hpc[h] \in {"switch", "range", "respond", "purge", "signal"}

\* Requests overwritten in the slot may lose a payment and enqueue another one
\* twice, but never do the instances enqueue more payments than were posted.
NoPhantomPayments == Len(enqueued) <= Len(posted)

\* The protocol is exact as long as the proxy begins no request before the last
\* one has been read out of the slot (nothing in the code makes it wait) or has
\* been lost with an instance, whatever becomes of the others: each payment is
\* enqueued once, unchanged and in order, each summary answers its own request,
\* and each purge is carried out before it is acknowledged.
SpacedSlotIsExact ==
  ~overlapped =>
    /\ Len(enqueued) <= Len(posted)
    /\ requestReady = 0 /\ Busy = {} => Len(enqueued) = Len(posted)
    /\ \A j \in DOMAIN enqueued : /\ enqueued[j].id = posted[j]
                                  /\ enqueued[j].amount = posted[j]
    /\ \A j \in DOMAIN replies : replies[j].range = replies[j].to
    /\ pc # "await" => responseReady = 0 /\ purged = asked

\* A proxy thread does not wait for ever, although handlers of several instances
\* compete for its slot and may read a request as one of another type, unless an
\* instance ends with a request in hand while it waits, or all have ended.
AwaitEnds ==
  pc = "await" ~> \/ pc # "await"
                  \/ forsaken
                  \/ \A h \in Handlers : hpc[h] \in {"ended", "lost"}

-----------------------------------------------------------------------------
(* The inductive invariant of IpcSlotProofs.                               *)

\* Which requests reach which step of the proxy, and that the type of the one
\* being signalled or waited for is in the slot.
ProxyPlace ==
  /\ pc # "idle" => request \in Requests
  /\ pc = "id" => kind = "post"
  /\ pc = "amount" => kind \in {"post", "invalid"}
  /\ pc = "clear" => kind \in {"post", "malformed", "invalid"}
  /\ pc = "type" => kind \in {"post", "summary", "badDate", "purge"}
  /\ pc = "range" => kind \in {"summary", "badDate"} /\ messageType = "summary"
  /\ pc \in {"signal", "await"} => messageType = kind
  /\ pc = "await" => kind # "post"

IInv ==
  /\ TypeOK
  /\ ProxyPlace
  /\ TokensBalance
  /\ AwaitIsServed

=============================================================================

---------------------------- MODULE IpcSlotProofs ----------------------------
(***************************************************************************)
(* Proofs about IpcSlot, for any number of requests and of API instances.  *)
(*                                                                         *)
(* NoPhantomPayments is not inductive: the payments enqueued are what is   *)
(* left of the tokens once responses and requests are taken away           *)
(* (TokensBalance), and a proxy that waits stands for a token that has     *)
(* become or will become a response (AwaitIsServed), or that was lost with *)
(* an instance (ForsakenIsLost).  AwaitIsServed in turn holds because the  *)
(* type in the slot does not change while the proxy waits (ProxyPlace).    *)
(*                                                                         *)
(* SpacedSlotIsExact needs an invariant of its own, Exact, of slots whose  *)
(* requests do not overlap: there is one token at most, and none while the *)
(* proxy writes (OneToken); hence one writer at a time (OneWriter); hence  *)
(* what is in the slot, and in the copy of the handler that reads it, is   *)
(* the proxy's last request or the response to it (SlotHolds,              *)
(* CopyIsExact); and hence what was enqueued, answered and purged is what  *)
(* was asked for, but for the one request still in the slot.               *)
(***************************************************************************)
EXTENDS IpcSlot, FiniteSetTheorems, TLAPS

\* A handler that takes a request is one more busy handler ...
LEMMA BusyGrows ==
  ASSUME TypeOK, NEW h \in Handlers, hpc[h] = "wait",
         NEW where, where \notin {"wait", "ended"}, hpc' = [hpc EXCEPT ![h] = where]
  PROVE  Cardinality(Busy') = Cardinality(Busy) + 1
<1>1. h \notin Busy /\ IsFiniteSet(Busy)
  BY HandlersAssumption, FS_Subset DEF Busy
<1>2. Busy' = Busy \cup {h}
  BY DEF Busy, TypeOK
<1> QED
  BY <1>1, <1>2, FS_AddElement

\* ... and one that goes back to waiting is one less.
LEMMA BusyShrinks ==
  ASSUME TypeOK, NEW h \in Handlers, hpc[h] \notin {"wait", "ended"}, hpc' = [hpc EXCEPT ![h] = "wait"]
  PROVE  /\ Cardinality(Busy) \in Nat
         /\ Cardinality(Busy') = Cardinality(Busy) - 1
<1>1. h \in Busy /\ IsFiniteSet(Busy)
  BY HandlersAssumption, FS_Subset DEF Busy
<1>2. Busy' = Busy \ {h}
  BY DEF Busy, TypeOK
<1> QED
  BY <1>1, <1>2, FS_RemoveElement, FS_CardinalityType

LEMMA BusySame ==
  ASSUME TypeOK, NEW h \in Handlers, hpc[h] \notin {"wait", "ended"},
         NEW where, where \notin {"wait", "ended"}, hpc' = [hpc EXCEPT ![h] = where]
  PROVE  Busy' = Busy
BY DEF Busy, TypeOK

LEMMA BusyCount == Cardinality(Busy) \in Nat /\ (Busy # {} => Cardinality(Busy) > 0)
<1>1. IsFiniteSet(Busy)
  BY HandlersAssumption, FS_Subset DEF Busy
<1> QED
  BY <1>1, FS_CardinalityType, FS_EmptySet

LEMMA Reading == TypeOK => \A view \in {"post", "range", "response"} : ReadAs(view) \in Numbers
BY DEF TypeOK, ReadAs, Heads, Numbers

LEMMA Writing ==
  ASSUME TypeOK, NEW w \in Handlers \cup {"proxy"}
  PROVE  /\ StartWrite(w) => writing' \subseteq Handlers \cup {"proxy"} /\ head' \in Heads
         /\ \A view \in {"zero", "post", "range", "response"}, n \in Numbers :
              FinishWrite(w, Bytes(view, n)) =>
                writing' \subseteq Handlers \cup {"proxy"} /\ head' \in Heads
<1>1. Torn(w) \in Heads /\ Mixed \in Heads
  BY DEF Torn, Mixed, Heads, Bytes, Numbers
<1>2. \A view \in {"zero", "post", "range", "response"}, n \in Numbers : Bytes(view, n) \in Heads
  BY DEF Heads, Bytes
<1> QED
  BY <1>1, <1>2 DEF StartWrite, FinishWrite, TypeOK

LEMMA ReceiveStep == ASSUME IInv, NEW k \in Kinds, Receive(k) PROVE IInv'
<1> USE DEF IInv
<1>1. TypeOK'
  BY BoundAssumption DEF TypeOK, Receive, semVars, slotVars, handlerVars, bookVars, Requests, Kinds
<1>2. ProxyPlace'
  BY BoundAssumption DEF ProxyPlace, TypeOK, Kinds, Receive, semVars, slotVars, handlerVars, bookVars, Requests
<1>3. TokensBalance'
  <2>1. Busy' = Busy
    BY DEF Busy, Receive, semVars, slotVars, handlerVars, bookVars
  <2> QED
    BY <2>1, BusyCount DEF TokensBalance, Awaiting, TypeOK, Receive, semVars, slotVars, handlerVars, bookVars
<1>4. AwaitIsServed'
  BY DEF AwaitIsServed, ProxyPlace, TypeOK, Receive, semVars, slotVars, handlerVars, bookVars
<1> QED
  BY <1>1, <1>2, <1>3, <1>4

LEMMA StartProxyWriteStep == ASSUME IInv, StartProxyWrite PROVE IInv'
<1> USE DEF IInv
<1>1. TypeOK'
  <2>1. StartWrite("proxy")
    BY DEF StartProxyWrite
  <2>3. writing' \subseteq Handlers \cup {"proxy"} /\ head' \in Heads
    BY <2>1, Writing
  <2> QED
    BY <2>3 DEF TypeOK, StartProxyWrite, semVars, proxyVars, handlerVars, historyVars, bookVars
<1>2. ProxyPlace'
  BY DEF ProxyPlace, TypeOK, Kinds, StartProxyWrite, semVars, proxyVars, handlerVars, historyVars, bookVars
<1>3. TokensBalance'
  <2>1. Busy' = Busy
    BY DEF Busy, StartProxyWrite, semVars, proxyVars, handlerVars, historyVars, bookVars
  <2> QED
    BY <2>1, BusyCount DEF TokensBalance, Awaiting, TypeOK, StartProxyWrite, semVars, proxyVars, handlerVars, historyVars, bookVars
<1>4. AwaitIsServed'
  BY DEF AwaitIsServed, ProxyPlace, TypeOK, StartProxyWrite, semVars, proxyVars, handlerVars, historyVars, bookVars
<1> QED
  BY <1>1, <1>2, <1>3, <1>4

LEMMA ClearStep == ASSUME IInv, Clear PROVE IInv'
<1> USE DEF IInv
<1>1. TypeOK'
  <2>1. FinishWrite("proxy", Bytes("zero", 0))
    BY DEF Clear, Zero
  <2>2. 0 \in Numbers
    BY DEF TypeOK, Numbers
  <2>3. writing' \subseteq Handlers \cup {"proxy"} /\ head' \in Heads
    BY <2>1, <2>2, Writing
  <2> QED
    BY <2>3 DEF TypeOK, Clear, semVars, handlerVars, historyVars, bookVars, Numbers
<1>2. ProxyPlace'
  BY DEF ProxyPlace, TypeOK, Kinds, Clear, semVars, handlerVars, historyVars, bookVars
<1>3. TokensBalance'
  <2>1. Busy' = Busy
    BY DEF Busy, Clear, semVars, handlerVars, historyVars, bookVars
  <2> QED
    BY <2>1, BusyCount DEF TokensBalance, Awaiting, TypeOK, Clear, semVars, handlerVars, historyVars, bookVars
<1>4. AwaitIsServed'
  BY DEF AwaitIsServed, ProxyPlace, TypeOK, Clear, semVars, handlerVars, historyVars, bookVars
<1> QED
  BY <1>1, <1>2, <1>3, <1>4

LEMMA WriteAmountStep == ASSUME IInv, WriteAmount PROVE IInv'
<1> USE DEF IInv
<1>1. TypeOK'
  BY DEF TypeOK, WriteAmount, semVars, handlerVars, historyVars, bookVars, Numbers
<1>2. ProxyPlace'
  BY DEF ProxyPlace, TypeOK, Kinds, WriteAmount, semVars, handlerVars, historyVars, bookVars
<1>3. TokensBalance'
  <2>1. Busy' = Busy
    BY DEF Busy, WriteAmount, semVars, handlerVars, historyVars, bookVars
  <2> QED
    BY <2>1, BusyCount DEF TokensBalance, Awaiting, TypeOK, WriteAmount, semVars, handlerVars, historyVars, bookVars
<1>4. AwaitIsServed'
  BY DEF AwaitIsServed, ProxyPlace, TypeOK, WriteAmount, semVars, handlerVars, historyVars, bookVars
<1> QED
  BY <1>1, <1>2, <1>3, <1>4

LEMMA WriteIdStep == ASSUME IInv, WriteId PROVE IInv'
<1> USE DEF IInv
<1>1. TypeOK'
  <2>1. FinishWrite("proxy", Bytes("post", request))
    BY DEF WriteId
  <2>2. request \in Numbers
    BY DEF TypeOK, Numbers
  <2>3. writing' \subseteq Handlers \cup {"proxy"} /\ head' \in Heads
    BY <2>1, <2>2, Writing
  <2> QED
    BY <2>3 DEF TypeOK, WriteId, semVars, handlerVars, historyVars, bookVars
<1>2. ProxyPlace'
  BY DEF ProxyPlace, TypeOK, Kinds, WriteId, semVars, handlerVars, historyVars, bookVars
<1>3. TokensBalance'
  <2>1. Busy' = Busy
    BY DEF Busy, WriteId, semVars, handlerVars, historyVars, bookVars
  <2> QED
    BY <2>1, BusyCount DEF TokensBalance, Awaiting, TypeOK, WriteId, semVars, handlerVars, historyVars, bookVars
<1>4. AwaitIsServed'
  BY DEF AwaitIsServed, ProxyPlace, TypeOK, WriteId, semVars, handlerVars, historyVars, bookVars
<1> QED
  BY <1>1, <1>2, <1>3, <1>4

LEMMA WriteTypeStep == ASSUME IInv, WriteType PROVE IInv'
<1> USE DEF IInv
<1>1. TypeOK'
  BY DEF TypeOK, WriteType, semVars, handlerVars, historyVars, bookVars, Kinds, ProxyPlace
<1>2. ProxyPlace'
  BY DEF ProxyPlace, TypeOK, Kinds, WriteType, semVars, handlerVars, historyVars, bookVars
<1>3. TokensBalance'
  <2>1. Busy' = Busy
    BY DEF Busy, WriteType, semVars, handlerVars, historyVars, bookVars
  <2> QED
    BY <2>1, BusyCount DEF TokensBalance, Awaiting, TypeOK, WriteType, semVars, handlerVars, historyVars, bookVars
<1>4. AwaitIsServed'
  BY DEF AwaitIsServed, ProxyPlace, TypeOK, WriteType, semVars, handlerVars, historyVars, bookVars
<1> QED
  BY <1>1, <1>2, <1>3, <1>4

LEMMA WriteRangeStep == ASSUME IInv, WriteRange PROVE IInv'
<1> USE DEF IInv
<1>1. TypeOK'
  <2>1. FinishWrite("proxy", Bytes("range", request))
    BY DEF WriteRange
  <2>2. request \in Numbers
    BY DEF TypeOK, Numbers
  <2>3. writing' \subseteq Handlers \cup {"proxy"} /\ head' \in Heads
    BY <2>1, <2>2, Writing
  <2> QED
    BY <2>3 DEF TypeOK, WriteRange, semVars, handlerVars, historyVars, bookVars
<1>2. ProxyPlace'
  BY DEF ProxyPlace, TypeOK, Kinds, WriteRange, semVars, handlerVars, historyVars, bookVars
<1>3. TokensBalance'
  <2>1. Busy' = Busy
    BY DEF Busy, WriteRange, semVars, handlerVars, historyVars, bookVars
  <2> QED
    BY <2>1, BusyCount DEF TokensBalance, Awaiting, TypeOK, WriteRange, semVars, handlerVars, historyVars, bookVars
<1>4. AwaitIsServed'
  BY DEF AwaitIsServed, ProxyPlace, TypeOK, WriteRange, semVars, handlerVars, historyVars, bookVars
<1> QED
  BY <1>1, <1>2, <1>3, <1>4

LEMMA SignalStep == ASSUME IInv, Signal PROVE IInv'
<1> USE DEF IInv
<1>1. TypeOK'
  <2>1. posted' \in Seq(Requests) /\ Len(posted') = Len(posted) + (IF kind = "post" THEN 1 ELSE 0)
    BY DEF TypeOK, Signal, ProxyPlace
  <2>2. requestReady' \in Nat /\ asked' \in Nat /\ pc' \in {"idle", "await"} /\ forsaken' = FALSE
    BY DEF TypeOK, Signal
  <2> QED
    BY <2>1, <2>2 DEF TypeOK, Signal, slotVars, handlerVars
<1>2. ProxyPlace'
  BY DEF ProxyPlace, TypeOK, Kinds, Signal, slotVars, handlerVars
<1>3. TokensBalance'
  <2>1. Busy' = Busy
    BY DEF Busy, Signal, slotVars, handlerVars
  <2>2. requestReady' = requestReady + 1 /\ responseReady' = responseReady /\ enqueued' = enqueued
    BY DEF Signal
  <2>3. Len(posted) \in Nat /\ Len(enqueued) \in Nat
    BY DEF TypeOK
  <2>4. Awaiting = 0
    BY DEF Signal, Awaiting
  <2>5. requestReady \in Nat /\ responseReady \in Nat
    BY DEF TypeOK
  <2>6. Len(posted) = requestReady + responseReady + Cardinality(Busy) + Len(enqueued)
    BY <2>3, <2>4, <2>5, BusyCount DEF TokensBalance
  <2>7. CASE kind = "post"
    <3>1. Awaiting' = 0
      BY <2>7 DEF Signal, Awaiting
    <3>2. Len(posted') = Len(posted) + 1
      BY <2>7 DEF Signal, TypeOK, ProxyPlace
    <3> QED
      BY <2>1, <2>2, <2>3, <2>5, <2>6, <3>1, <3>2, BusyCount DEF TokensBalance
  <2>8. CASE kind # "post"
    <3>1. Awaiting' = 1 /\ posted' = posted
      BY <2>8 DEF Signal, Awaiting
    <3> QED
      BY <2>1, <2>2, <2>3, <2>5, <2>6, <3>1, BusyCount DEF TokensBalance
  <2> QED
    BY <2>7, <2>8
<1>4. AwaitIsServed'
  BY DEF AwaitIsServed, ProxyPlace, TypeOK, Signal, slotVars, handlerVars
<1> QED
  BY <1>1, <1>2, <1>3, <1>4

LEMMA AwaitStep == ASSUME IInv, Await PROVE IInv'
<1> USE DEF IInv
<1>1. TypeOK'
  BY DEF TypeOK, Await, slotVars, handlerVars, historyVars, bookVars
<1>2. ProxyPlace'
  BY DEF ProxyPlace, TypeOK, Kinds, Await, slotVars, handlerVars, historyVars, bookVars
<1>3. TokensBalance'
  <2>1. Busy' = Busy
    BY DEF Busy, Await, slotVars, handlerVars, historyVars, bookVars
  <2>2. /\ responseReady' = responseReady - 1 /\ UNCHANGED <<requestReady, posted, enqueued>>
        /\ pc = "await" /\ pc' # "await"
    BY DEF Await, historyVars, bookVars
  <2>3. Len(posted) \in Nat /\ Len(enqueued) \in Nat
    BY DEF TypeOK
  <2>4. Awaiting = 1 /\ Awaiting' = 0
    BY <2>2 DEF Awaiting
  <2> QED
    BY <2>1, <2>2, <2>3, <2>4, BusyCount DEF TokensBalance, TypeOK
<1>4. AwaitIsServed'
  BY DEF AwaitIsServed, ProxyPlace, TypeOK, Await, slotVars, handlerVars, historyVars, bookVars
<1> QED
  BY <1>1, <1>2, <1>3, <1>4

LEMMA ReplyStep == ASSUME IInv, Reply PROVE IInv'
<1> USE DEF IInv
<1>1. TypeOK'
  BY Reading DEF TypeOK, Reply, semVars, slotVars, handlerVars, ProxyPlace
<1>2. ProxyPlace'
  BY DEF ProxyPlace, TypeOK, Kinds, Reply, semVars, slotVars, handlerVars
<1>3. TokensBalance'
  <2>1. Busy' = Busy
    BY DEF Busy, Reply, semVars, slotVars, handlerVars
  <2> QED
    BY <2>1, BusyCount DEF TokensBalance, Awaiting, TypeOK, Reply, semVars, slotVars, handlerVars
<1>4. AwaitIsServed'
  BY DEF AwaitIsServed, ProxyPlace, TypeOK, Reply, semVars, slotVars, handlerVars
<1> QED
  BY <1>1, <1>2, <1>3, <1>4

LEMMA TakeStep == ASSUME IInv, NEW h \in Handlers, Take(h) PROVE IInv'
<1> USE DEF IInv
<1>1. TypeOK'
  BY DEF TypeOK, Take, slotVars, proxyVars, historyVars, bookVars, Goto
<1>2. ProxyPlace'
  BY DEF ProxyPlace, TypeOK, Kinds, Take, slotVars, proxyVars, historyVars, bookVars, Goto
<1>3. TokensBalance'
  <2>1. Cardinality(Busy') = Cardinality(Busy) + 1
    BY BusyGrows DEF Take, Goto
  <2> QED
    BY <2>1, BusyCount DEF TokensBalance, Awaiting, TypeOK, Take, slotVars, proxyVars, historyVars, bookVars
<1>4. AwaitIsServed'
  BY DEF AwaitIsServed, ProxyPlace, TypeOK, Take, slotVars, proxyVars, historyVars, bookVars, Goto
<1> QED
  BY <1>1, <1>2, <1>3, <1>4

LEMMA SwitchStep == ASSUME IInv, NEW h \in Handlers, Switch(h) PROVE IInv'
<1> USE DEF IInv
<1>1. TypeOK'
  BY DEF TypeOK, Switch, semVars, slotVars, proxyVars, historyVars, bookVars, Goto, NoCopy, Numbers
<1>2. ProxyPlace'
  BY DEF ProxyPlace, TypeOK, Kinds, Switch, semVars, slotVars, proxyVars, historyVars, bookVars, Goto
<1>3. TokensBalance'
  <2>1. PICK where : where \notin {"wait", "ended"} /\ hpc' = [hpc EXCEPT ![h] = where]
    <3>1. CASE messageType = "post"
      BY <3>1 DEF Switch, Goto
    <3>2. CASE messageType = "summary"
      BY <3>2 DEF Switch, Goto
    <3>3. CASE messageType = "purge"
      BY <3>3 DEF Switch, Goto
    <3> QED
      BY <3>1, <3>2, <3>3 DEF TypeOK
  <2>2. Busy' = Busy
    BY <2>1, BusySame DEF Switch
  <2> QED
    BY <2>2, BusyCount DEF TokensBalance, Awaiting, TypeOK, Switch, semVars, proxyVars, historyVars, bookVars
<1>4. AwaitIsServed'
  BY DEF AwaitIsServed, ProxyPlace, TypeOK, Switch, semVars, slotVars, proxyVars, historyVars, bookVars, Goto
<1> QED
  BY <1>1, <1>2, <1>3, <1>4

LEMMA CopyAmountStep == ASSUME IInv, NEW h \in Handlers, CopyAmount(h) PROVE IInv'
<1> USE DEF IInv
<1>1. TypeOK'
  BY DEF TypeOK, CopyAmount, semVars, slotVars, proxyVars, historyVars, bookVars
<1>2. ProxyPlace'
  BY DEF ProxyPlace, TypeOK, Kinds, CopyAmount, semVars, slotVars, proxyVars, historyVars, bookVars
<1>3. TokensBalance'
  <2>1. Busy' = Busy
    BY DEF Busy, CopyAmount, semVars, slotVars, proxyVars, historyVars, bookVars
  <2> QED
    BY <2>1, BusyCount DEF TokensBalance, Awaiting, TypeOK, CopyAmount, semVars, slotVars, proxyVars, historyVars, bookVars
<1>4. AwaitIsServed'
  BY DEF AwaitIsServed, ProxyPlace, TypeOK, CopyAmount, semVars, slotVars, proxyVars, historyVars, bookVars
<1> QED
  BY <1>1, <1>2, <1>3, <1>4

LEMMA CopyIdStep == ASSUME IInv, NEW h \in Handlers, CopyId(h) PROVE IInv'
<1> USE DEF IInv
<1>1. TypeOK'
  BY Reading DEF TypeOK, CopyId, semVars, slotVars, proxyVars, historyVars, bookVars
<1>2. ProxyPlace'
  BY DEF ProxyPlace, TypeOK, Kinds, CopyId, semVars, slotVars, proxyVars, historyVars, bookVars
<1>3. TokensBalance'
  <2>1. Busy' = Busy
    BY DEF Busy, CopyId, semVars, slotVars, proxyVars, historyVars, bookVars
  <2> QED
    BY <2>1, BusyCount DEF TokensBalance, Awaiting, TypeOK, CopyId, semVars, slotVars, proxyVars, historyVars, bookVars
<1>4. AwaitIsServed'
  BY DEF AwaitIsServed, ProxyPlace, TypeOK, CopyId, semVars, slotVars, proxyVars, historyVars, bookVars
<1> QED
  BY <1>1, <1>2, <1>3, <1>4

LEMMA EnqueueStep == ASSUME IInv, NEW h \in Handlers, Enqueue(h) PROVE IInv'
<1> USE DEF IInv
<1>1. TypeOK'
  BY DEF TypeOK, Enqueue, semVars, slotVars, proxyVars, Goto
<1>2. ProxyPlace'
  BY DEF ProxyPlace, TypeOK, Kinds, Enqueue, semVars, slotVars, proxyVars, Goto
<1>3. TokensBalance'
  <2>1. Cardinality(Busy') = Cardinality(Busy) - 1
    BY BusyShrinks DEF Enqueue, Goto
  <2>2. Len(enqueued') = Len(enqueued) + 1
    BY DEF Enqueue, TypeOK
  <2>3. UNCHANGED <<requestReady, responseReady, posted, Awaiting>>
    BY DEF Enqueue, semVars, proxyVars, Awaiting
  <2>4. /\ requestReady \in Nat /\ responseReady \in Nat /\ Awaiting \in Nat
        /\ Len(posted) \in Nat /\ Len(enqueued) \in Nat
    BY DEF TypeOK, Awaiting
  <2> QED
    BY <2>1, <2>2, <2>3, <2>4, BusyCount DEF TokensBalance
<1>4. AwaitIsServed'
  BY DEF AwaitIsServed, ProxyPlace, TypeOK, Enqueue, semVars, slotVars, proxyVars, Goto
<1> QED
  BY <1>1, <1>2, <1>3, <1>4

LEMMA ReadRangeStep == ASSUME IInv, NEW h \in Handlers, ReadRange(h) PROVE IInv'
<1> USE DEF IInv
<1>1. TypeOK'
  <2>1. ReadAs("range") \in Numbers
    BY Reading
  <2> DEFINE Copies == [amount : Numbers, id : Numbers, left : SUBSET {"amount", "id"}]
  <2>3. copied[h] \in Copies /\ copied \in [Handlers -> Copies]
    BY DEF TypeOK
  <2>4. [copied[h] EXCEPT !.id = ReadAs("range")] \in Copies
    BY <2>1, <2>3
  <2>5. copied' = [copied EXCEPT ![h] = [copied[h] EXCEPT !.id = ReadAs("range")]]
    BY DEF ReadRange
  <2> HIDE DEF Copies
  <2>2. copied' \in [Handlers -> Copies]
    BY <2>3, <2>4, <2>5
  <2> QED
    BY <2>2 DEF Copies, TypeOK, ReadRange, Goto, semVars, slotVars, proxyVars, historyVars, bookVars
<1>2. ProxyPlace'
  BY DEF ProxyPlace, TypeOK, Kinds, ReadRange, semVars, slotVars, proxyVars, historyVars, bookVars, Goto
<1>3. TokensBalance'
  <2>1. Busy' = Busy
    BY BusySame DEF ReadRange, Goto
  <2> QED
    BY <2>1, BusyCount DEF TokensBalance, Awaiting, TypeOK, ReadRange, semVars, slotVars, proxyVars, historyVars, bookVars
<1>4. AwaitIsServed'
  BY DEF AwaitIsServed, ProxyPlace, TypeOK, ReadRange, semVars, slotVars, proxyVars, historyVars, bookVars, Goto
<1> QED
  BY <1>1, <1>2, <1>3, <1>4

LEMMA StartRespondStep == ASSUME IInv, NEW h \in Handlers, StartRespond(h) PROVE IInv'
<1> USE DEF IInv
<1>1. TypeOK'
  <2>1. StartWrite(h)
    BY DEF StartRespond
  <2>3. writing' \subseteq Handlers \cup {"proxy"} /\ head' \in Heads
    BY <2>1, Writing
  <2> QED
    BY <2>3 DEF TypeOK, StartRespond, semVars, proxyVars, handlerVars, historyVars, bookVars
<1>2. ProxyPlace'
  BY DEF ProxyPlace, TypeOK, Kinds, StartRespond, semVars, proxyVars, handlerVars, historyVars, bookVars
<1>3. TokensBalance'
  <2>1. Busy' = Busy
    BY DEF Busy, StartRespond, semVars, proxyVars, handlerVars, historyVars, bookVars
  <2> QED
    BY <2>1, BusyCount DEF TokensBalance, Awaiting, TypeOK, StartRespond, semVars, proxyVars, handlerVars, historyVars, bookVars
<1>4. AwaitIsServed'
  BY DEF AwaitIsServed, ProxyPlace, TypeOK, StartRespond, semVars, proxyVars, handlerVars, historyVars, bookVars
<1> QED
  BY <1>1, <1>2, <1>3, <1>4

LEMMA RespondStep == ASSUME IInv, NEW h \in Handlers, Respond(h) PROVE IInv'
<1> USE DEF IInv
<1>1. TypeOK'
  <2>1. FinishWrite(h, Bytes("response", copied[h].id))
    BY DEF Respond
  <2>2. copied[h].id \in Numbers
    BY DEF TypeOK, Numbers
  <2>3. writing' \subseteq Handlers \cup {"proxy"} /\ head' \in Heads
    BY <2>1, <2>2, Writing
  <2> QED
    BY <2>3 DEF TypeOK, Respond, semVars, proxyVars, historyVars, bookVars, Goto
<1>2. ProxyPlace'
  BY DEF ProxyPlace, TypeOK, Kinds, Respond, semVars, proxyVars, historyVars, bookVars, Goto
<1>3. TokensBalance'
  <2>1. Busy' = Busy
    BY BusySame DEF Respond, Goto
  <2> QED
    BY <2>1, BusyCount DEF TokensBalance, Awaiting, TypeOK, Respond, semVars, proxyVars, historyVars, bookVars
<1>4. AwaitIsServed'
  BY DEF AwaitIsServed, ProxyPlace, TypeOK, Respond, semVars, proxyVars, historyVars, bookVars, Goto
<1> QED
  BY <1>1, <1>2, <1>3, <1>4

LEMMA PurgeStep == ASSUME IInv, NEW h \in Handlers, Purge(h) PROVE IInv'
<1> USE DEF IInv
<1>1. TypeOK'
  BY DEF TypeOK, Purge, semVars, slotVars, proxyVars, Goto
<1>2. ProxyPlace'
  BY DEF ProxyPlace, TypeOK, Kinds, Purge, semVars, slotVars, proxyVars, Goto
<1>3. TokensBalance'
  <2>1. Busy' = Busy
    BY BusySame DEF Purge, Goto
  <2> QED
    BY <2>1, BusyCount DEF TokensBalance, Awaiting, TypeOK, Purge, semVars, slotVars, proxyVars
<1>4. AwaitIsServed'
  BY DEF AwaitIsServed, ProxyPlace, TypeOK, Purge, semVars, slotVars, proxyVars, Goto
<1> QED
  BY <1>1, <1>2, <1>3, <1>4

LEMMA PostResponseStep == ASSUME IInv, NEW h \in Handlers, PostResponse(h) PROVE IInv'
<1> USE DEF IInv
<1>1. TypeOK'
  BY DEF TypeOK, PostResponse, slotVars, proxyVars, historyVars, bookVars, Goto
<1>2. ProxyPlace'
  BY DEF ProxyPlace, TypeOK, Kinds, PostResponse, slotVars, proxyVars, historyVars, bookVars, Goto
<1>3. TokensBalance'
  <2>1. Cardinality(Busy') = Cardinality(Busy) - 1
    BY BusyShrinks DEF PostResponse, Goto
  <2> QED
    BY <2>1, BusyCount DEF TokensBalance, Awaiting, TypeOK, PostResponse, slotVars, proxyVars, historyVars, bookVars
<1>4. AwaitIsServed'
  BY DEF AwaitIsServed, ProxyPlace, TypeOK, PostResponse, slotVars, proxyVars, historyVars, bookVars, Goto
<1> QED
  BY <1>1, <1>2, <1>3, <1>4

\* An instance that ends keeps what it has in hand, or has nothing in hand.
LEMMA InstanceEndsStep == ASSUME IInv, NEW h \in Handlers, InstanceEnds(h) PROVE IInv' /\ Busy' = Busy
<1> USE DEF IInv
<1>1. TypeOK'
  BY DEF TypeOK, InstanceEnds, semVars, slotVars, proxyVars, bookVars, Goto
<1>2. ProxyPlace'
  BY DEF ProxyPlace, InstanceEnds, semVars, slotVars, proxyVars
<1>3. Busy' = Busy
  BY DEF Busy, InstanceEnds, Goto, TypeOK
<1>4. TokensBalance'
  BY <1>3 DEF TokensBalance, Awaiting, InstanceEnds, semVars, proxyVars, bookVars
<1>5. AwaitIsServed'
  BY DEF AwaitIsServed, TypeOK, InstanceEnds, semVars, proxyVars, Goto, Busy
<1> QED
  BY <1>1, <1>2, <1>3, <1>4, <1>5

-----------------------------------------------------------------------------

LEMMA InitIInv == Init => IInv
<1> SUFFICES ASSUME Init PROVE IInv
  OBVIOUS
<1>1. TypeOK
  <2>1. Zero \in Heads /\ 0 \in Numbers
    BY DEF Zero, Bytes, Heads, Numbers
  <2>2. NoCopy \in [amount : Numbers, id : Numbers, left : SUBSET {"amount", "id"}]
    BY <2>1 DEF NoCopy
  <2>3. "post" \in Kinds
    BY DEF Kinds
  <2>4. /\ hpc \in [Handlers -> {"wait", "switch", "copy", "range", "respond", "purge", "signal",
                               "ended", "lost"}]
        /\ copied \in [Handlers -> [amount : Numbers, id : Numbers, left : SUBSET {"amount", "id"}]]
    BY <2>2 DEF Init
  <2>5. /\ posted \in Seq(Requests)
        /\ enqueued \in Seq([amount : Numbers, id : Numbers])
        /\ replies \in Seq([to : Requests, range : Numbers])
    BY DEF Init
  <2>6. /\ requestReady \in Nat /\ responseReady \in Nat
        /\ asked \in Nat /\ purged \in Nat
    BY DEF Init
  <2> QED
    BY <2>1, <2>3, <2>4, <2>5, <2>6 DEF Init, TypeOK
<1>2. Busy = {}
  BY DEF Init, Busy
<1>3. TokensBalance
  BY <1>2, FS_EmptySet DEF Init, TokensBalance, Awaiting
<1> QED
  BY <1>1, <1>3 DEF Init, IInv, ProxyPlace, AwaitIsServed

LEMMA NextIInv == IInv /\ [Next]_vars => IInv'
<1> SUFFICES ASSUME IInv, [Next]_vars PROVE IInv'
  OBVIOUS
<1>1. CASE Proxy
  BY <1>1, ReceiveStep, StartProxyWriteStep, ClearStep, WriteAmountStep, WriteIdStep,
     WriteTypeStep, WriteRangeStep, SignalStep, AwaitStep, ReplyStep DEF Proxy
<1>2. ASSUME NEW h \in Handlers, Handler(h) PROVE IInv'
  BY <1>2, TakeStep, SwitchStep, CopyAmountStep, CopyIdStep, EnqueueStep, ReadRangeStep,
     StartRespondStep, RespondStep, PurgeStep, PostResponseStep DEF Handler
<1>3. CASE UNCHANGED vars
  BY <1>3 DEF vars, slotVars, semVars, proxyVars, handlerVars, historyVars, bookVars, IInv, TypeOK,
              ProxyPlace, TokensBalance, Awaiting, Busy, AwaitIsServed
<1>4. ASSUME NEW h \in Handlers, InstanceEnds(h) PROVE IInv'
  BY <1>4, InstanceEndsStep
<1> QED
  BY <1>1, <1>2, <1>3, <1>4 DEF Next

THEOREM Invariance == Spec => []IInv
  BY InitIInv, NextIInv, PTL DEF Spec

\* Every variable keeps its type.
THEOREM Typing == Spec => []TypeOK
<1>1. IInv => TypeOK
  BY DEF IInv
<1> QED
  BY <1>1, Invariance, PTL

\* No request token is made up, and none is lost but with the instance that has
\* it in hand (requestReady and responseReady).
THEOREM TokensBalanceTheorem == Spec => []TokensBalance
<1>1. IInv => TokensBalance
  BY DEF IInv
<1> QED
  BY <1>1, Invariance, PTL

\* A proxy thread that waits is about to be answered, unless an instance ended
\* with a request in hand since it began to wait.
THEOREM AwaitIsServedTheorem == Spec => []AwaitIsServed
<1>1. IInv => AwaitIsServed
  BY DEF IInv
<1> QED
  BY <1>1, Invariance, PTL

\* What the proxy waits for in vain is in the hands of a handler that ended.
ForsakenIsLost == forsaken => \E h \in Handlers : hpc[h] = "lost"

LEMMA ForsakenIsLostNext == IInv /\ ForsakenIsLost /\ [Next]_vars => ForsakenIsLost'
<1> SUFFICES ASSUME IInv, ForsakenIsLost, [Next]_vars PROVE ForsakenIsLost'
  OBVIOUS
<1> USE DEF ForsakenIsLost, IInv, TypeOK
<1>1. ASSUME NEW h \in Handlers, InstanceEnds(h) PROVE ForsakenIsLost'
  BY <1>1 DEF InstanceEnds, Goto, Busy
<1>2. ASSUME NEW h \in Handlers, Handler(h) PROVE ForsakenIsLost'
  <2>1. forsaken' = forsaken /\ \A g \in Handlers : hpc[g] = "lost" => hpc'[g] = "lost"
    BY <1>2 DEF Handler, Take, Switch, CopyAmount, CopyId, Enqueue, ReadRange, StartRespond, Respond,
                Purge, PostResponse, Goto, historyVars, handlerVars
  <2> QED
    BY <2>1
<1>3. CASE Proxy
  <2>1. (forsaken' => forsaken) /\ hpc' = hpc
    BY <1>3 DEF Proxy, Receive, StartProxyWrite, Clear, WriteAmount, WriteId, WriteType, WriteRange,
                Signal, Await, Reply, historyVars, handlerVars
  <2> QED
    BY <2>1
<1>4. CASE UNCHANGED vars
  BY <1>4 DEF vars, historyVars, handlerVars
<1> QED
  BY <1>1, <1>2, <1>3, <1>4 DEF Next

\* Overwritten slots never make the instances enqueue more payments than the
\* proxy posted.
THEOREM NoPhantomPaymentsTheorem == Spec => []NoPhantomPayments
<1>1. IInv /\ ForsakenIsLost => NoPhantomPayments
  <2> SUFFICES ASSUME IInv, ForsakenIsLost PROVE NoPhantomPayments
    OBVIOUS
  <2> USE DEF IInv
  <2>1. Awaiting <= requestReady + responseReady + Cardinality(Busy)
    <3>1. CASE pc = "await"
      <4>1. requestReady > 0 \/ responseReady > 0 \/ Busy # {}
        BY <3>1 DEF AwaitIsServed, ForsakenIsLost, Busy
      <4> QED
        BY <3>1, <4>1, BusyCount DEF Awaiting, TypeOK
    <3> QED
      BY <3>1, BusyCount DEF Awaiting, TypeOK
  <2>2. Len(posted) \in Nat /\ Len(enqueued) \in Nat
    BY DEF TypeOK
  <2> QED
    BY <2>1, <2>2, BusyCount DEF NoPhantomPayments, TokensBalance, Awaiting, TypeOK
<1>2. Init => ForsakenIsLost
  BY DEF Init, ForsakenIsLost
<1> QED
  BY <1>1, <1>2, ForsakenIsLostNext, Invariance, PTL DEF Spec

-----------------------------------------------------------------------------
(* A slot whose requests do not overlap.                                   *)

Pending == requestReady > 0 \/ Busy # {}

\* There is one token at most.  While the proxy writes, there is none.
OneToken ==
  /\ requestReady > 0 => requestReady = 1 /\ Busy = {}
  /\ responseReady > 0 => responseReady = 1 /\ ~Pending /\ pc = "await"
  /\ \A g, h \in Busy : g = h
  /\ Pending => pc \in {"idle", "await"}

\* The request in a handler's hands is the proxy's last one.
RequestInHand ==
  /\ Pending /\ pc = "idle" => kind = "post" /\ messageType = "post"
  /\ \A h \in Handlers :
       /\ hpc[h] = "copy" => kind = "post"
       /\ hpc[h] \in {"range", "respond"} => kind = "summary"
       /\ hpc[h] = "purge" => kind = "purge"
       /\ hpc[h] = "signal" => kind \in Answered

\* Nobody writes but the proxy before it signals and the handler that responds.
OneWriter ==
  \A w \in writing : /\ head = Torn(w)
                     /\ w = "proxy" => pc \in {"clear", "id", "range"}
                     /\ w # "proxy" => hpc[w] \in {"respond", "lost"}

\* What the slot holds from the moment it is written until it has been read.
SlotHolds ==
  /\ pc = "id" => amount = request
  /\ kind = "post" /\ (pc \in {"type", "signal"} \/ Pending)
       => head = Bytes("post", request) /\ amount = request
  /\ kind = "summary" /\ (\/ pc = "signal" \/ requestReady > 0
                          \/ \E h \in Handlers : hpc[h] \in {"switch", "range"})
       => head = Bytes("range", request)
  /\ kind = "summary" /\ (\/ pc = "reply" \/ responseReady > 0
                          \/ \E h \in Handlers : hpc[h] = "signal")
       => head = Bytes("response", request)
  /\ pc = "reply" => kind = "summary"

\* What a handler has read of it.
CopyIsExact ==
  \A h \in Handlers :
    /\ hpc[h] = "copy" => /\ "amount" \notin copied[h].left => copied[h].amount = request
                          /\ "id" \notin copied[h].left => copied[h].id = request
    /\ hpc[h] = "respond" => copied[h].id = request

\* The last payment is the only one that may not be enqueued yet ...
PaymentsAreExact ==
  /\ Len(posted) = Len(enqueued) + (IF pc = "idle" /\ Pending THEN 1 ELSE 0)
  /\ pc = "idle" /\ Pending => posted[Len(posted)] = request
  /\ \A j \in DOMAIN enqueued : /\ enqueued[j].id = posted[j]
                                /\ enqueued[j].amount = posted[j]

RepliesAreExact == \A j \in DOMAIN replies : replies[j].range = replies[j].to

\* ... and the last purge the only one that may not be carried out yet, or that
\* nobody knows of because it was lost with an instance.
PurgesAreExact ==
  \/ asked = purged + (IF kind = "purge" /\ (\/ requestReady > 0
                                             \/ \E h \in Handlers : hpc[h] \in {"switch", "purge"})
                       THEN 1 ELSE 0)
  \/ kind = "purge" /\ pc = "await" /\ \E h \in Handlers : hpc[h] = "lost"

Exact ==
  /\ OneToken /\ RequestInHand /\ OneWriter /\ SlotHolds
  /\ CopyIsExact /\ PaymentsAreExact /\ RepliesAreExact /\ PurgesAreExact

Spaced == ~overlapped => Exact

-----------------------------------------------------------------------------

\* The types this section needs.
LEMMA SlotTypes ==
  ASSUME TypeOK
  PROVE  /\ requestReady \in Nat /\ responseReady \in Nat
         /\ messageType \in {"post", "summary", "purge"}
         /\ writing \subseteq Handlers \cup {"proxy"}
         /\ hpc \in [Handlers -> {"wait", "switch", "copy", "range", "respond", "purge", "signal",
                               "ended", "lost"}]
         /\ copied \in [Handlers -> [amount : Numbers, id : Numbers, left : SUBSET {"amount", "id"}]]
         /\ posted \in Seq(Requests) /\ Len(posted) \in Nat
         /\ enqueued \in Seq([amount : Numbers, id : Numbers]) /\ Len(enqueued) \in Nat
         /\ replies \in Seq([to : Requests, range : Numbers])
         /\ asked \in Nat /\ purged \in Nat
BY DEF TypeOK

LEMMA ReceiveExact == ASSUME IInv, Exact, NEW k \in Kinds, Receive(k), ~overlapped' PROVE Exact'
<1>1. ~Pending /\ responseReady = 0 /\ writing = {}
  <2>1. ~(requestReady > 0 \/ Busy # {})
    BY DEF Receive
  <2> QED
    BY <2>1, SlotTypes DEF IInv, Exact, Receive, OneToken, OneWriter, Pending, Busy
<1>2. (OneToken /\ RequestInHand /\ OneWriter)'
  BY <1>1 DEF Receive, semVars, slotVars, handlerVars, bookVars, OneToken, RequestInHand, OneWriter,
     Pending, Busy
<1>3. (SlotHolds /\ CopyIsExact)'
  BY <1>1 DEF Receive, semVars, handlerVars, bookVars, SlotHolds, CopyIsExact, Pending, Busy
<1>4. (PaymentsAreExact /\ RepliesAreExact /\ PurgesAreExact)'
  BY <1>1 DEF Exact, Receive, semVars, handlerVars, bookVars, PaymentsAreExact, RepliesAreExact,
     PurgesAreExact, Pending, Busy
<1> QED
  BY <1>2, <1>3, <1>4 DEF Exact

LEMMA StartProxyWriteExact == ASSUME IInv, Exact, StartProxyWrite PROVE Exact'
<1>1. writing = {}
  <2>1. Busy = {} /\ "proxy" \notin writing
    BY DEF Exact, StartProxyWrite, StartWrite, OneToken, Pending
  <2>2. \A w \in writing : w \in Handlers /\ w \in Busy
    BY <2>1, SlotTypes DEF IInv, Exact, OneWriter, Busy
  <2> QED
    BY <2>1, <2>2
<1>2. (OneToken /\ RequestInHand /\ OneWriter)'
  BY <1>1 DEF Exact, StartProxyWrite, semVars, proxyVars, handlerVars, OneToken, RequestInHand,
     OneWriter, Pending, Busy, StartWrite
<1>3. (SlotHolds /\ CopyIsExact)'
  BY <1>1 DEF Exact, StartProxyWrite, semVars, proxyVars, handlerVars, OneToken, SlotHolds,
     CopyIsExact, Pending, Busy
<1>4. (PaymentsAreExact /\ RepliesAreExact /\ PurgesAreExact)'
  BY DEF Exact, StartProxyWrite, semVars, proxyVars, handlerVars, historyVars, bookVars, PaymentsAreExact,
     RepliesAreExact, PurgesAreExact
<1> QED
  BY <1>2, <1>3, <1>4 DEF Exact

LEMMA ClearExact == ASSUME IInv, Exact, Clear PROVE Exact'
<1>1. (OneToken /\ RequestInHand /\ OneWriter)'
  BY SlotTypes DEF IInv, Exact, Clear, semVars, handlerVars, OneToken, RequestInHand, OneWriter,
     Pending, Busy, FinishWrite
<1>2. (SlotHolds /\ CopyIsExact)'
  BY DEF Exact, Clear, semVars, handlerVars, OneToken, SlotHolds, CopyIsExact, Pending, Busy
<1>3. (PaymentsAreExact /\ RepliesAreExact /\ PurgesAreExact)'
  BY DEF Exact, Clear, semVars, handlerVars, historyVars, bookVars, OneToken, PaymentsAreExact,
     RepliesAreExact, PurgesAreExact, Pending, Busy
<1> QED
  BY <1>1, <1>2, <1>3 DEF Exact

LEMMA WriteAmountExact == ASSUME IInv, Exact, WriteAmount PROVE Exact'
<1>1. (OneToken /\ RequestInHand /\ OneWriter)'
  BY DEF Exact, WriteAmount, semVars, handlerVars, OneToken, RequestInHand, OneWriter, Pending,
     Busy
<1>2. (SlotHolds /\ CopyIsExact)'
  BY DEF Exact, WriteAmount, semVars, handlerVars, SlotHolds, CopyIsExact, Pending, Busy
<1>3. (PaymentsAreExact /\ RepliesAreExact /\ PurgesAreExact)'
  BY DEF Exact, WriteAmount, semVars, handlerVars, historyVars, bookVars, OneToken, PaymentsAreExact,
     RepliesAreExact, PurgesAreExact, Pending, Busy
<1> QED
  BY <1>1, <1>2, <1>3 DEF Exact

LEMMA WriteIdExact == ASSUME IInv, Exact, WriteId PROVE Exact'
<1>1. (OneToken /\ RequestInHand /\ OneWriter)'
  BY SlotTypes DEF IInv, Exact, WriteId, semVars, handlerVars, OneToken, RequestInHand,
     OneWriter, Pending, Busy, FinishWrite
<1>2. (SlotHolds /\ CopyIsExact)'
  BY DEF Exact, WriteId, semVars, handlerVars, OneToken, OneWriter, SlotHolds, CopyIsExact,
     Pending, Busy, FinishWrite
<1>3. (PaymentsAreExact /\ RepliesAreExact /\ PurgesAreExact)'
  BY DEF Exact, WriteId, semVars, handlerVars, historyVars, bookVars, PaymentsAreExact, RepliesAreExact,
     PurgesAreExact
<1> QED
  BY <1>1, <1>2, <1>3 DEF Exact

LEMMA WriteTypeExact == ASSUME IInv, Exact, WriteType PROVE Exact'
<1>1. (OneToken /\ RequestInHand /\ OneWriter)'
  BY DEF Exact, WriteType, semVars, handlerVars, OneToken, RequestInHand, OneWriter, Pending,
     Busy
<1>2. (SlotHolds /\ CopyIsExact)'
  BY DEF Exact, WriteType, semVars, handlerVars, SlotHolds, CopyIsExact
<1>3. (PaymentsAreExact /\ RepliesAreExact /\ PurgesAreExact)'
  BY DEF Exact, WriteType, semVars, handlerVars, historyVars, bookVars, PaymentsAreExact, RepliesAreExact,
     PurgesAreExact
<1> QED
  BY <1>1, <1>2, <1>3 DEF Exact

LEMMA WriteRangeExact == ASSUME IInv, Exact, WriteRange PROVE Exact'
<1>1. (OneToken /\ RequestInHand /\ OneWriter)'
  BY SlotTypes DEF IInv, Exact, WriteRange, semVars, handlerVars, OneToken, RequestInHand,
     OneWriter, Pending, Busy, FinishWrite
<1>2. (SlotHolds /\ CopyIsExact)'
  BY DEF IInv, Exact, WriteRange, semVars, handlerVars, OneToken, OneWriter, SlotHolds,
     CopyIsExact, Pending, Busy, ProxyPlace, FinishWrite
<1>3. (PaymentsAreExact /\ RepliesAreExact /\ PurgesAreExact)'
  BY DEF Exact, WriteRange, semVars, handlerVars, historyVars, bookVars, OneToken, PaymentsAreExact,
     RepliesAreExact, PurgesAreExact, Pending, Busy
<1> QED
  BY <1>1, <1>2, <1>3 DEF Exact

LEMMA SignalExact == ASSUME IInv, Exact, Signal PROVE Exact'
<1>1. (OneToken /\ RequestInHand /\ OneWriter)'
  BY SlotTypes DEF IInv, Exact, Signal, slotVars, handlerVars, OneToken, RequestInHand,
     OneWriter, Pending, Busy, ProxyPlace
<1>2. (SlotHolds /\ CopyIsExact)'
  BY DEF Exact, Signal, slotVars, handlerVars, SlotHolds, CopyIsExact
<1>3. (PaymentsAreExact /\ RepliesAreExact /\ PurgesAreExact)'
  <2>1. /\ pc = "signal" /\ requestReady = 0 /\ Busy = {} /\ hpc' = hpc /\ requestReady' = 1
        /\ UNCHANGED <<kind, request, enqueued, replies, purged>>
    BY SlotTypes DEF IInv, Exact, Signal, OneToken, Pending, handlerVars
  <2>2. \A h \in Handlers : hpc[h] \notin {"switch", "purge"}
    BY <2>1 DEF Busy
  <2>3. PaymentsAreExact'
    <3>1. CASE kind = "post"
      <4>1. posted' = Append(posted, request) /\ request \in Requests /\ pc' = "idle" /\ Pending'
        BY <2>1, <3>1 DEF Signal, Pending, IInv, TypeOK, ProxyPlace
      <4>2. /\ Len(posted') = Len(posted) + 1 /\ posted'[Len(posted')] = request
            /\ \A j \in 1..Len(posted) : posted'[j] = posted[j]
        BY <4>1, SlotTypes DEF IInv
      <4>3. Len(posted) = Len(enqueued)
        BY <2>1, SlotTypes DEF IInv, Exact, PaymentsAreExact
      <4>4. \A j \in DOMAIN enqueued : enqueued[j].id = posted[j] /\ enqueued[j].amount = posted[j]
        BY DEF Exact, PaymentsAreExact
      <4>5. DOMAIN enqueued = 1..Len(posted)
        BY <4>3, SlotTypes DEF IInv
      <4>6. \A j \in DOMAIN enqueued : enqueued[j].id = posted'[j] /\ enqueued[j].amount = posted'[j]
        BY <4>2, <4>4, <4>5
      <4> QED
        BY <2>1, <4>1, <4>2, <4>3, <4>6 DEF PaymentsAreExact
    <3>2. CASE kind # "post"
      BY <2>1, <3>2 DEF Signal, Exact, PaymentsAreExact
    <3> QED
      BY <3>1, <3>2
  <2>4. RepliesAreExact'
    BY <2>1 DEF Exact, RepliesAreExact
  <2>5. PurgesAreExact'
    <3>1. asked = purged
      BY <2>1, <2>2, SlotTypes DEF IInv, Exact, PurgesAreExact
    <3> QED
      BY <2>1, <2>2, <3>1, SlotTypes DEF Signal, IInv, PurgesAreExact
  <2> QED
    BY <2>3, <2>4, <2>5
<1> QED
  BY <1>1, <1>2, <1>3 DEF Exact

LEMMA AwaitExact == ASSUME IInv, Exact, Await PROVE Exact'
<1>1. (OneToken /\ RequestInHand /\ OneWriter)'
  BY DEF Exact, Await, slotVars, handlerVars, OneToken, RequestInHand, OneWriter, Pending, Busy
<1>2. (SlotHolds /\ CopyIsExact)'
  BY DEF Exact, Await, slotVars, handlerVars, SlotHolds, CopyIsExact, Pending, Busy
<1>3. (PaymentsAreExact /\ RepliesAreExact /\ PurgesAreExact)'
  BY DEF Exact, Await, handlerVars, historyVars, bookVars, OneToken, PaymentsAreExact, RepliesAreExact,
     PurgesAreExact, Pending, Busy
<1> QED
  BY <1>1, <1>2, <1>3 DEF Exact

LEMMA ReplyExact == ASSUME IInv, Exact, Reply PROVE Exact'
<1>1. (OneToken /\ RequestInHand /\ OneWriter)'
  BY DEF Exact, Reply, semVars, slotVars, handlerVars, OneToken, RequestInHand, OneWriter,
     Pending, Busy
<1>2. (SlotHolds /\ CopyIsExact)'
  BY DEF Exact, Reply, semVars, slotVars, handlerVars, SlotHolds, CopyIsExact
<1>3. (PaymentsAreExact /\ RepliesAreExact /\ PurgesAreExact)'
  BY DEF Exact, Reply, semVars, handlerVars, OneToken, SlotHolds, PaymentsAreExact,
     RepliesAreExact, PurgesAreExact, Pending, Busy, ReadAs, Bytes
<1> QED
  BY <1>1, <1>2, <1>3 DEF Exact

LEMMA TakeExact == ASSUME IInv, Exact, NEW h \in Handlers, Take(h) PROVE Exact'
<1>1. (OneToken /\ RequestInHand /\ OneWriter)'
  BY DEF Exact, Take, slotVars, proxyVars, Goto, OneToken, RequestInHand, OneWriter, Pending,
     Busy
<1>2. (SlotHolds /\ CopyIsExact)'
  BY DEF Exact, Take, slotVars, proxyVars, Goto, SlotHolds, CopyIsExact, Pending
<1>3. (PaymentsAreExact /\ RepliesAreExact /\ PurgesAreExact)'
  BY SlotTypes DEF IInv, Exact, Take, proxyVars, historyVars, bookVars, Goto, PaymentsAreExact,
     RepliesAreExact, PurgesAreExact, Pending, Busy
<1> QED
  BY <1>1, <1>2, <1>3 DEF Exact

LEMMA SwitchExact == ASSUME IInv, Exact, NEW h \in Handlers, Switch(h) PROVE Exact'
<1>1. (OneToken /\ RequestInHand /\ OneWriter)'
  BY SlotTypes DEF IInv, Exact, Switch, semVars, slotVars, proxyVars, Goto, OneToken,
     RequestInHand, OneWriter, Pending, Busy, ProxyPlace
<1>2. (SlotHolds /\ CopyIsExact)'
  BY SlotTypes DEF IInv, Exact, Switch, semVars, slotVars, proxyVars, Goto, SlotHolds,
     CopyIsExact, Pending, Busy, NoCopy
<1>3. (PaymentsAreExact /\ RepliesAreExact /\ PurgesAreExact)'
  BY DEF IInv, Exact, Switch, proxyVars, historyVars, bookVars, Goto, OneToken, RequestInHand,
     PaymentsAreExact, RepliesAreExact, PurgesAreExact, Pending, Busy, ProxyPlace
<1> QED
  BY <1>1, <1>2, <1>3 DEF Exact

LEMMA CopyAmountExact == ASSUME IInv, Exact, NEW h \in Handlers, CopyAmount(h) PROVE Exact'
<1>1. (OneToken /\ RequestInHand /\ OneWriter)'
  BY DEF Exact, CopyAmount, semVars, slotVars, proxyVars, OneToken, RequestInHand, OneWriter,
     Pending, Busy
<1>2. (SlotHolds /\ CopyIsExact)'
  BY DEF Exact, CopyAmount, slotVars, proxyVars, RequestInHand, SlotHolds, CopyIsExact, Pending,
     Busy
<1>3. (PaymentsAreExact /\ RepliesAreExact /\ PurgesAreExact)'
  BY DEF Exact, CopyAmount, semVars, proxyVars, historyVars, bookVars, PaymentsAreExact, RepliesAreExact,
     PurgesAreExact, Pending, Busy
<1> QED
  BY <1>1, <1>2, <1>3 DEF Exact

LEMMA CopyIdExact == ASSUME IInv, Exact, NEW h \in Handlers, CopyId(h) PROVE Exact'
<1>1. (OneToken /\ RequestInHand /\ OneWriter)'
  BY DEF Exact, CopyId, semVars, slotVars, proxyVars, OneToken, RequestInHand, OneWriter,
     Pending, Busy
<1>2. (SlotHolds /\ CopyIsExact)'
  BY DEF Exact, CopyId, slotVars, proxyVars, RequestInHand, SlotHolds, CopyIsExact, Pending,
     Busy, ReadAs, Bytes
<1>3. (PaymentsAreExact /\ RepliesAreExact /\ PurgesAreExact)'
  BY DEF Exact, CopyId, semVars, proxyVars, historyVars, bookVars, PaymentsAreExact, RepliesAreExact,
     PurgesAreExact, Pending, Busy
<1> QED
  BY <1>1, <1>2, <1>3 DEF Exact

LEMMA EnqueueExact == ASSUME IInv, Exact, NEW h \in Handlers, Enqueue(h) PROVE Exact'
<1>1. (OneToken /\ RequestInHand /\ OneWriter)'
  BY DEF Exact, Enqueue, semVars, slotVars, proxyVars, Goto, OneToken, RequestInHand, OneWriter,
     Pending, Busy
<1>2. (SlotHolds /\ CopyIsExact)'
  BY DEF Exact, Enqueue, semVars, slotVars, proxyVars, Goto, SlotHolds, CopyIsExact, Pending,
     Busy
<1>3. /\ kind = "post" /\ h \in Busy /\ requestReady = 0
      /\ \A g \in Handlers : g # h => hpc[g] \in {"wait", "ended"}
  BY SlotTypes DEF IInv, Exact, Enqueue, OneToken, RequestInHand, Busy
<1>4. ~Pending' /\ UNCHANGED <<proxyVars, posted, replies, asked, purged>>
  BY <1>3, SlotTypes DEF IInv, Enqueue, Goto, semVars, Pending, Busy
<1>5. (PaymentsAreExact /\ RepliesAreExact)'
  <2>1. pc = "idle"
    BY <1>3 DEF IInv, Exact, OneToken, Pending, ProxyPlace
  <2>2. Len(posted) = Len(enqueued) + 1 /\ posted[Len(posted)] = request
    BY <1>3, <2>1 DEF Exact, PaymentsAreExact, Pending
  <2>3. copied[h].amount = request /\ copied[h].id = request
    BY DEF Exact, Enqueue, CopyIsExact
  <2>4. /\ Len(enqueued') = Len(enqueued) + 1
        /\ \A j \in DOMAIN enqueued : enqueued'[j] = enqueued[j]
        /\ enqueued'[Len(enqueued) + 1] = [amount |-> copied[h].amount, id |-> copied[h].id]
        /\ DOMAIN enqueued' = DOMAIN enqueued \cup {Len(enqueued) + 1}
    BY SlotTypes DEF IInv, Enqueue
  <2> QED
    BY <1>4, <2>2, <2>3, <2>4, SlotTypes DEF IInv, Exact, PaymentsAreExact, RepliesAreExact
<1>6. PurgesAreExact'
  <2>1. asked = purged
    BY <1>3, SlotTypes DEF IInv, Exact, PurgesAreExact
  <2> QED
    BY <1>3, <1>4, <2>1, SlotTypes DEF IInv, PurgesAreExact, proxyVars
<1> QED
  BY <1>1, <1>2, <1>5, <1>6 DEF Exact

LEMMA ReadRangeExact == ASSUME IInv, Exact, NEW h \in Handlers, ReadRange(h) PROVE Exact'
<1>1. (OneToken /\ RequestInHand /\ OneWriter)'
  BY DEF Exact, ReadRange, semVars, slotVars, proxyVars, Goto, OneToken, RequestInHand,
     OneWriter, Pending, Busy
<1>2. (SlotHolds /\ CopyIsExact)'
  BY SlotTypes DEF IInv, Exact, ReadRange, semVars, slotVars, proxyVars, Goto, RequestInHand,
     SlotHolds, CopyIsExact, ReadAs, Bytes
<1>3. (PaymentsAreExact /\ RepliesAreExact /\ PurgesAreExact)'
  BY DEF Exact, ReadRange, semVars, proxyVars, historyVars, bookVars, Goto, PaymentsAreExact,
     RepliesAreExact, PurgesAreExact, Pending, Busy
<1> QED
  BY <1>1, <1>2, <1>3 DEF Exact

LEMMA StartRespondExact == ASSUME IInv, Exact, NEW h \in Handlers, StartRespond(h) PROVE Exact'
<1>1. writing = {}
  BY SlotTypes, HandlersAssumption DEF IInv, Exact, StartRespond, StartWrite, OneToken,
     OneWriter, Pending, Busy
<1>2. (OneToken /\ RequestInHand /\ OneWriter)'
  BY <1>1, HandlersAssumption DEF Exact, StartRespond, semVars, proxyVars, handlerVars,
     OneToken, RequestInHand, OneWriter, Pending, Busy, StartWrite
<1>3. (SlotHolds /\ CopyIsExact)'
  BY <1>1, HandlersAssumption DEF Exact, StartRespond, semVars, proxyVars, handlerVars,
     OneToken, RequestInHand, OneWriter, SlotHolds, CopyIsExact, Pending, Busy, ProxyPlace,
     Bytes
<1>4. (PaymentsAreExact /\ RepliesAreExact /\ PurgesAreExact)'
  BY DEF Exact, StartRespond, semVars, proxyVars, handlerVars, historyVars, bookVars, PaymentsAreExact,
     RepliesAreExact, PurgesAreExact, Pending, Busy
<1> QED
  BY <1>2, <1>3, <1>4 DEF Exact

LEMMA RespondExact == ASSUME IInv, Exact, NEW h \in Handlers, Respond(h) PROVE Exact'
<1>1. (OneToken /\ RequestInHand /\ OneWriter)'
  BY SlotTypes DEF IInv, Exact, Respond, semVars, proxyVars, Goto, OneToken, RequestInHand,
     OneWriter, Pending, Busy, Answered, FinishWrite
<1>2. (SlotHolds /\ CopyIsExact)'
  BY DEF Exact, Respond, semVars, proxyVars, Goto, OneToken, RequestInHand, OneWriter,
     SlotHolds, CopyIsExact, Pending, Busy, FinishWrite
<1>3. (PaymentsAreExact /\ RepliesAreExact /\ PurgesAreExact)'
  BY DEF Exact, Respond, semVars, proxyVars, historyVars, bookVars, Goto, PaymentsAreExact,
     RepliesAreExact, PurgesAreExact, Pending, Busy
<1> QED
  BY <1>1, <1>2, <1>3 DEF Exact

LEMMA PurgeExact == ASSUME IInv, Exact, NEW h \in Handlers, Purge(h) PROVE Exact'
<1>1. (OneToken /\ RequestInHand /\ OneWriter)'
  BY DEF Exact, Purge, semVars, slotVars, proxyVars, Goto, OneToken, RequestInHand, OneWriter,
     Pending, Busy, Answered
<1>2. (SlotHolds /\ CopyIsExact)'
  BY DEF Exact, Purge, slotVars, proxyVars, Goto, RequestInHand, SlotHolds, CopyIsExact
<1>3. kind = "purge" /\ requestReady = 0 /\ h \in Busy
  BY SlotTypes DEF IInv, Exact, Purge, OneToken, RequestInHand, Busy
<1>4. (PaymentsAreExact /\ RepliesAreExact)'
  <2>1. Busy' = Busy
    BY BusySame DEF IInv, Purge, Goto
  <2> QED
    BY <2>1 DEF Exact, Purge, semVars, proxyVars, PaymentsAreExact, RepliesAreExact, Pending
<1>5. PurgesAreExact'
  <2>1. \A g \in Handlers : g # h => hpc[g] \in {"wait", "ended"} /\ hpc'[g] = hpc[g]
    BY <1>3, SlotTypes DEF IInv, Exact, Purge, Goto, OneToken, Busy
  <2>2. hpc[h] = "purge" /\ hpc'[h] = "signal" /\ purged' = purged + 1
    BY SlotTypes DEF IInv, Purge, Goto
  <2>3. asked = purged + 1
    BY <1>3, <2>1, <2>2 DEF Exact, PurgesAreExact
  <2> QED
    BY <1>3, <2>1, <2>2, <2>3, SlotTypes DEF IInv, Purge, semVars, proxyVars, PurgesAreExact
<1> QED
  BY <1>1, <1>2, <1>4, <1>5 DEF Exact

LEMMA PostResponseExact == ASSUME IInv, Exact, NEW h \in Handlers, PostResponse(h) PROVE Exact'
<1>1. (OneToken /\ RequestInHand /\ OneWriter)'
  BY SlotTypes DEF IInv, Exact, PostResponse, slotVars, proxyVars, Goto, OneToken,
     RequestInHand, OneWriter, Pending, Busy, Answered
<1>2. (SlotHolds /\ CopyIsExact)'
  BY DEF Exact, PostResponse, slotVars, proxyVars, Goto, SlotHolds, CopyIsExact, Pending, Busy
<1>3. (PaymentsAreExact /\ RepliesAreExact /\ PurgesAreExact)'
  BY DEF Exact, PostResponse, proxyVars, historyVars, bookVars, Goto, RequestInHand, PaymentsAreExact,
     RepliesAreExact, PurgesAreExact, Pending, Busy, Answered
<1> QED
  BY <1>1, <1>2, <1>3 DEF Exact

\* What an instance loses, it has in hand for ever: no request begins after it
\* that does not overlap it.
LEMMA InstanceEndsExact == ASSUME IInv, Exact, NEW h \in Handlers, InstanceEnds(h) PROVE Exact'
<1>1. Busy' = Busy /\ (Pending' <=> Pending)
  BY InstanceEndsStep DEF InstanceEnds, Pending, semVars
<1>2. \A g \in Handlers : hpc'[g] = hpc[g] \/ (g = h /\ hpc'[g] \in {"ended", "lost"})
  BY SlotTypes DEF IInv, InstanceEnds, Goto
<1>3. (OneToken /\ RequestInHand)'
  BY <1>1, <1>2 DEF Exact, InstanceEnds, semVars, slotVars, proxyVars, OneToken, RequestInHand
<1>4. OneWriter'
  <2>1. hpc[h] = "respond" => hpc'[h] = "lost"
    BY SlotTypes DEF IInv, InstanceEnds, Goto, Busy
  <2>2. hpc[h] # "lost"
    BY DEF InstanceEnds
  <2> QED
    BY <1>2, <2>1, <2>2, SlotTypes DEF IInv, Exact, InstanceEnds, slotVars, proxyVars, OneWriter
<1>5. (SlotHolds /\ CopyIsExact)'
  BY <1>1, <1>2 DEF Exact, InstanceEnds, semVars, slotVars, proxyVars, SlotHolds, CopyIsExact
<1>6. (PaymentsAreExact /\ RepliesAreExact)'
  BY <1>1 DEF Exact, InstanceEnds, proxyVars, bookVars, PaymentsAreExact, RepliesAreExact
<1>7. PurgesAreExact'
  <2>1. UNCHANGED <<asked, purged, kind, pc, requestReady>>
    BY DEF InstanceEnds, semVars, proxyVars, bookVars
  <2>2. CASE kind = "purge" /\ hpc[h] \in {"switch", "purge"}
    <3>1. hpc'[h] = "lost" /\ Pending
      BY <2>2, SlotTypes DEF IInv, InstanceEnds, Goto, Busy, Pending
    <3>2. pc = "await"
      BY <2>2, <3>1 DEF Exact, OneToken, RequestInHand
    <3>3. \E g \in Handlers : hpc'[g] = "lost"
      BY <3>1
    <3> QED
      BY <2>1, <2>2, <3>2, <3>3 DEF PurgesAreExact
  <2>3. CASE kind = "purge" /\ hpc[h] \notin {"switch", "purge"}
    <3>1. \A g \in Handlers : hpc'[g] \in {"switch", "purge"} <=> hpc[g] \in {"switch", "purge"}
      BY <1>2, <2>3
    <3>2. \A g \in Handlers : hpc[g] = "lost" => hpc'[g] = "lost"
      BY <1>2 DEF InstanceEnds
    <3> QED
      BY <2>1, <3>1, <3>2 DEF Exact, PurgesAreExact
  <2>4. CASE kind # "purge"
    BY <2>1, <2>4 DEF Exact, PurgesAreExact
  <2> QED
    BY <2>2, <2>3, <2>4
<1> QED
  BY <1>3, <1>4, <1>5, <1>6, <1>7 DEF Exact

LEMMA InitSpaced == Init => Spaced
<1> SUFFICES ASSUME Init PROVE Exact
  BY DEF Spaced
<1>1. ~Pending /\ Busy = {}
  BY DEF Init, Pending, Busy
<1>2. OneToken /\ RequestInHand /\ OneWriter
  BY <1>1 DEF Init, OneToken, RequestInHand, OneWriter
<1>3. SlotHolds /\ CopyIsExact
  BY <1>1 DEF Init, SlotHolds, CopyIsExact
<1>4. PaymentsAreExact /\ RepliesAreExact /\ PurgesAreExact
  BY <1>1 DEF Init, PaymentsAreExact, RepliesAreExact, PurgesAreExact
<1> QED
  BY <1>2, <1>3, <1>4 DEF Exact

\* No step but Receive changes overlapped, and none takes it back.
LEMMA OverlappedStays == IInv /\ [Next]_vars /\ overlapped => overlapped'
BY DEF IInv, TypeOK, Next, Proxy, Handler, vars, historyVars, bookVars, Receive, StartProxyWrite, Clear,
   WriteAmount, WriteId, WriteType, WriteRange, Signal, Await, Reply, Take, Switch, CopyAmount,
   CopyId, Enqueue, ReadRange, StartRespond, Respond, Purge, PostResponse,
   InstanceEnds

LEMMA NextSpaced == IInv /\ Spaced /\ [Next]_vars => Spaced'
<1> SUFFICES ASSUME IInv, Spaced, [Next]_vars, ~overlapped' PROVE Exact'
  BY DEF Spaced
<1>1. Exact
  BY OverlappedStays DEF Spaced
<1>2. CASE Proxy
  BY <1>1, <1>2, ReceiveExact, StartProxyWriteExact, ClearExact, WriteAmountExact, WriteIdExact,
     WriteTypeExact, WriteRangeExact, SignalExact, AwaitExact, ReplyExact DEF Proxy
<1>3. ASSUME NEW h \in Handlers, Handler(h) PROVE Exact'
  BY <1>1, <1>3, TakeExact, SwitchExact, CopyAmountExact, CopyIdExact, EnqueueExact,
     ReadRangeExact, StartRespondExact, RespondExact, PurgeExact, PostResponseExact DEF Handler
<1>4. CASE UNCHANGED vars
  BY <1>1, <1>4 DEF vars, slotVars, semVars, proxyVars, handlerVars, historyVars, bookVars, Exact, OneToken,
     RequestInHand, OneWriter, SlotHolds, CopyIsExact, PaymentsAreExact, RepliesAreExact,
     PurgesAreExact, Pending, Busy
<1>5. ASSUME NEW h \in Handlers, InstanceEnds(h) PROVE Exact'
  BY <1>1, <1>5, InstanceEndsExact
<1> QED
  BY <1>2, <1>3, <1>4, <1>5 DEF Next

\* As long as no request begins before the last one has been read out of the
\* slot, payments, summaries and purges are carried out exactly.
THEOREM SpacedSlotIsExactTheorem == Spec => []SpacedSlotIsExact
<1>1. IInv /\ Spaced => SpacedSlotIsExact
  <2> SUFFICES ASSUME IInv, Exact PROVE ~overlapped => SpacedSlotIsExact
    BY DEF Spaced, SpacedSlotIsExact
  <2>1. /\ Len(enqueued) <= Len(posted)
        /\ requestReady = 0 /\ Busy = {} => Len(enqueued) = Len(posted)
    BY SlotTypes DEF IInv, Exact, PaymentsAreExact, Pending
  <2>2. pc # "await" => responseReady = 0 /\ purged = asked
    BY SlotTypes DEF IInv, Exact, OneToken, RequestInHand, PurgesAreExact, Pending, Busy
  <2> QED
    BY <2>1, <2>2 DEF Exact, SpacedSlotIsExact, PaymentsAreExact, RepliesAreExact
<1>2. Spec => []Spaced
  BY InitSpaced, NextSpaced, Invariance, PTL DEF Spec
<1> QED
  BY <1>1, <1>2, Invariance, PTL

=============================================================================

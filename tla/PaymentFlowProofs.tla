------------------------- MODULE PaymentFlowProofs -------------------------
(***************************************************************************)
(* Proofs of the safety properties of PaymentFlow, for any number of       *)
(* payments, instances and purges and for any set of faults.               *)
(*                                                                         *)
(* None of ChargedOnce, RecordedWasCharged and ChargeAccountedFor is       *)
(* inductive: each holds because of what a processor's place in its code   *)
(* says about the gateways.  IInv adds that: a payment that is new,        *)
(* pending, not yet sent or refused is known to no gateway (NotSentYet);   *)
(* one being read is known to the gateway it was sent to, and one being    *)
(* recorded was charged there (SentTo); and a payment is in one place at   *)
(* the gateways as it is in the instances (KnownOnce, EachInOnePlace).     *)
(* IInv is stated in PaymentFlow, where TLC checks it too.                 *)
(***************************************************************************)
EXTENDS PaymentFlow, TLAPS

-----------------------------------------------------------------------------

\* The gateways are each other's other one.
LEMMA OtherGateway ==
  \A g \in Gateways : /\ Other(g) \in Gateways /\ Other(g) # g
                      /\ \A h \in Gateways : h = g \/ h = Other(g)
BY DEF Gateways, Other

\* What dropping the database of one gateway does to the records and to the
\* fates: nothing is recorded that was not, and only what was recorded there
\* changes its fate.
LEMMA Dropping ==
  ASSUME TypeOK, NEW g \in Gateways, DropDatabase(g)
  PROVE  /\ recorded' \in [Gateways -> SUBSET Payments]
         /\ fate' \in [Payments -> Fates]
         /\ recorded'[Other(g)] = recorded[Other(g)]
         /\ \/ /\ recorded'[g] = {}
               /\ \A p \in Payments :
                    fate'[p] = IF p \in recorded[g] THEN "purged" ELSE fate[p]
            \/ recorded'[g] = recorded[g] /\ fate' = fate
<1>1. CASE recorded' = [recorded EXCEPT ![g] = {}] /\ Forget(recorded[g])
  <2>1. fate' = [p \in Payments |-> IF p \in recorded[g] THEN "purged" ELSE fate[p]]
    BY <1>1 DEF Forget
  <2>2. fate' \in [Payments -> Fates]
    BY <2>1 DEF TypeOK, Fates
  <2>3. /\ recorded' \in [Gateways -> SUBSET Payments]
        /\ recorded'[g] = {} /\ recorded'[Other(g)] = recorded[Other(g)]
    BY <1>1, OtherGateway DEF TypeOK
  <2> QED
    BY <2>1, <2>2, <2>3
<1>2. CASE UNCHANGED <<recorded, fate>>
  BY <1>2, OtherGateway DEF TypeOK
<1> QED
  BY <1>1, <1>2 DEF DropDatabase

\* A payment that is posted is new, hence unknown to every gateway.
LEMMA PostPaymentStep == ASSUME IInv, NEW i \in Instances, NEW p \in Payments, PostPayment(i, p) PROVE IInv'
<1> USE NoneAssumption, OtherGateway DEF IInv
<1>1. TypeOK'
  BY DEF TypeOK, HandAndPc, Fates, PostPayment, wireVars, purgeVars
<1>2. EachInOnePlace'
  BY DEF TypeOK, HandAndPc, EachInOnePlace, InHand, PostPayment, wireVars, purgeVars
<1>3. HandAndPc'
  BY DEF TypeOK, HandAndPc, PostPayment, wireVars, purgeVars
<1>4. NoStaleAnswer'
  BY DEF TypeOK, NoStaleAnswer, PostPayment, wireVars, purgeVars
<1>5. KnownOnce'
  BY DEF TypeOK, HandAndPc, EachInOnePlace, InHand, KnownOnce, NotSentYet, SentTo, Unsent, PostPayment, wireVars, purgeVars
<1>6. NotSentYet'
  BY DEF TypeOK, HandAndPc, EachInOnePlace, InHand, KnownOnce, NotSentYet, SentTo,
              NoStaleAnswer, Unsent, PostPayment, wireVars, purgeVars
<1>7. SentTo'
  BY DEF TypeOK, HandAndPc, EachInOnePlace, InHand, KnownOnce, NotSentYet, SentTo,
              NoStaleAnswer, Unsent, PostPayment, wireVars, purgeVars
<1>8. RecordedWasCharged'
  BY DEF TypeOK, RecordedWasCharged, SentTo, PostPayment, wireVars, purgeVars
<1>9. LossesAreFaults'
  BY DEF TypeOK, HandAndPc, LossesAreFaults, Fates, PostPayment, wireVars, purgeVars
<1> QED
  BY <1>1, <1>2, <1>3, <1>4, <1>5, <1>6, <1>7, <1>8, <1>9

LEMMA DequeueStep == ASSUME IInv, NEW i \in Instances, NEW p \in Payments, Dequeue(i, p) PROVE IInv'
<1> USE NoneAssumption, OtherGateway DEF IInv
<1>1. TypeOK'
  BY DEF TypeOK, HandAndPc, Fates, Dequeue, wireVars, purgeVars
<1>2. EachInOnePlace'
  BY DEF TypeOK, HandAndPc, EachInOnePlace, InHand, Dequeue, wireVars, purgeVars
<1>3. HandAndPc'
  BY DEF TypeOK, HandAndPc, Dequeue, wireVars, purgeVars
<1>4. NoStaleAnswer'
  BY DEF TypeOK, NoStaleAnswer, Dequeue, wireVars, purgeVars
<1>5. KnownOnce'
  BY DEF TypeOK, HandAndPc, EachInOnePlace, InHand, KnownOnce, NotSentYet, SentTo, Unsent, Dequeue, wireVars, purgeVars
<1>6. NotSentYet'
  BY DEF TypeOK, HandAndPc, EachInOnePlace, InHand, KnownOnce, NotSentYet, SentTo,
              NoStaleAnswer, Unsent, Dequeue, wireVars, purgeVars
<1>7. SentTo'
  BY DEF TypeOK, HandAndPc, EachInOnePlace, InHand, KnownOnce, NotSentYet, SentTo,
              NoStaleAnswer, Unsent, Dequeue, wireVars, purgeVars
<1>8. RecordedWasCharged'
  BY DEF TypeOK, RecordedWasCharged, SentTo, Dequeue, wireVars, purgeVars
<1>9. LossesAreFaults'
  BY DEF TypeOK, HandAndPc, LossesAreFaults, Fates, Dequeue, wireVars, purgeVars
<1> QED
  BY <1>1, <1>2, <1>3, <1>4, <1>5, <1>6, <1>7, <1>8, <1>9

LEMMA GetGatewayStep == ASSUME IInv, NEW i \in Instances, GetGateway(i) PROVE IInv'
<1> USE NoneAssumption, OtherGateway DEF IInv
<1>1. TypeOK'
  BY DEF TypeOK, HandAndPc, Fates, GetGateway, wireVars, purgeVars
<1>2. EachInOnePlace'
  BY DEF TypeOK, HandAndPc, EachInOnePlace, InHand, GetGateway, wireVars, purgeVars
<1>3. HandAndPc'
  BY DEF TypeOK, HandAndPc, GetGateway, wireVars, purgeVars
<1>4. NoStaleAnswer'
  BY DEF TypeOK, NoStaleAnswer, GetGateway, wireVars, purgeVars
<1>5. KnownOnce'
  BY DEF TypeOK, HandAndPc, EachInOnePlace, InHand, KnownOnce, NotSentYet, SentTo, Unsent, GetGateway, wireVars, purgeVars
<1>6. NotSentYet'
  BY DEF TypeOK, HandAndPc, EachInOnePlace, InHand, KnownOnce, NotSentYet, SentTo,
              NoStaleAnswer, Unsent, GetGateway, wireVars, purgeVars
<1>7. SentTo'
  BY DEF TypeOK, HandAndPc, EachInOnePlace, InHand, KnownOnce, NotSentYet, SentTo,
              NoStaleAnswer, Unsent, GetGateway, wireVars, purgeVars
<1>8. RecordedWasCharged'
  BY DEF TypeOK, RecordedWasCharged, SentTo, GetGateway, wireVars, purgeVars
<1>9. LossesAreFaults'
  BY DEF TypeOK, HandAndPc, LossesAreFaults, Fates, GetGateway, wireVars, purgeVars
<1> QED
  BY <1>1, <1>2, <1>3, <1>4, <1>5, <1>6, <1>7, <1>8, <1>9

\* What is sent was known to no gateway.
LEMMA SendStep == ASSUME IInv, NEW i \in Instances, Send(i) PROVE IInv'
<1> USE NoneAssumption, OtherGateway DEF IInv
<1>1. TypeOK'
  BY DEF TypeOK, HandAndPc, Fates, Send, purgeVars
<1>2. EachInOnePlace'
  BY DEF TypeOK, HandAndPc, EachInOnePlace, InHand, Send, purgeVars
<1>3. HandAndPc'
  BY DEF TypeOK, HandAndPc, Send, purgeVars
<1>4. NoStaleAnswer'
  BY DEF TypeOK, NoStaleAnswer, Send, purgeVars
<1>5. KnownOnce'
  BY DEF TypeOK, HandAndPc, EachInOnePlace, InHand, KnownOnce, NotSentYet, SentTo, Unsent, Send, purgeVars
<1>6. NotSentYet'
  BY DEF TypeOK, HandAndPc, EachInOnePlace, InHand, KnownOnce, NotSentYet, SentTo,
              NoStaleAnswer, Unsent, Send, purgeVars
<1>7. SentTo'
  BY DEF TypeOK, HandAndPc, EachInOnePlace, InHand, KnownOnce, NotSentYet, SentTo,
              NoStaleAnswer, Unsent, Send, purgeVars
<1>8. RecordedWasCharged'
  BY DEF TypeOK, RecordedWasCharged, SentTo, Send, purgeVars
<1>9. LossesAreFaults'
  BY DEF TypeOK, HandAndPc, LossesAreFaults, Fates, Send, purgeVars
<1> QED
  BY <1>1, <1>2, <1>3, <1>4, <1>5, <1>6, <1>7, <1>8, <1>9

LEMMA ConnectionErrorStep == ASSUME IInv, NEW i \in Instances, ConnectionError(i) PROVE IInv'
<1> USE NoneAssumption, OtherGateway DEF IInv
<1>1. TypeOK'
  BY DEF TypeOK, HandAndPc, Fates, ConnectionError, BackToLoop, purgeVars
<1>2. EachInOnePlace'
  BY DEF TypeOK, HandAndPc, EachInOnePlace, InHand, ConnectionError, BackToLoop, purgeVars
<1>3. HandAndPc'
  BY DEF TypeOK, HandAndPc, ConnectionError, BackToLoop, purgeVars
<1>4. NoStaleAnswer'
  BY DEF TypeOK, NoStaleAnswer, ConnectionError, BackToLoop, purgeVars
<1>5. KnownOnce'
  BY DEF TypeOK, HandAndPc, EachInOnePlace, InHand, KnownOnce, NotSentYet, SentTo, Unsent, ConnectionError, BackToLoop, purgeVars
<1>6. NotSentYet'
  BY DEF TypeOK, HandAndPc, EachInOnePlace, InHand, KnownOnce, NotSentYet, SentTo,
              NoStaleAnswer, Unsent, ConnectionError, BackToLoop, purgeVars
<1>7. SentTo'
  BY DEF TypeOK, HandAndPc, EachInOnePlace, InHand, KnownOnce, NotSentYet, SentTo,
              NoStaleAnswer, Unsent, ConnectionError, BackToLoop, purgeVars
<1>8. RecordedWasCharged'
  BY DEF TypeOK, RecordedWasCharged, SentTo, ConnectionError, BackToLoop, purgeVars
<1>9. LossesAreFaults'
  BY DEF TypeOK, HandAndPc, LossesAreFaults, Fates, ConnectionError, BackToLoop, purgeVars
<1> QED
  BY <1>1, <1>2, <1>3, <1>4, <1>5, <1>6, <1>7, <1>8, <1>9

LEMMA ReadOkStep == ASSUME IInv, NEW i \in Instances, ReadOk(i) PROVE IInv'
<1> USE NoneAssumption, OtherGateway DEF IInv
<1>1. TypeOK'
  BY DEF TypeOK, HandAndPc, Fates, ReadOk, wireVars, purgeVars
<1>2. EachInOnePlace'
  BY DEF TypeOK, HandAndPc, EachInOnePlace, InHand, ReadOk, wireVars, purgeVars
<1>3. HandAndPc'
  BY DEF TypeOK, HandAndPc, ReadOk, wireVars, purgeVars
<1>4. NoStaleAnswer'
  BY DEF TypeOK, NoStaleAnswer, ReadOk, wireVars, purgeVars
<1>5. KnownOnce'
  BY DEF TypeOK, HandAndPc, EachInOnePlace, InHand, KnownOnce, NotSentYet, SentTo, Unsent, ReadOk, wireVars, purgeVars
<1>6. NotSentYet'
  BY DEF TypeOK, HandAndPc, EachInOnePlace, InHand, KnownOnce, NotSentYet, SentTo,
              NoStaleAnswer, Unsent, ReadOk, wireVars, purgeVars
<1>7. SentTo'
  BY DEF TypeOK, HandAndPc, EachInOnePlace, InHand, KnownOnce, NotSentYet, SentTo,
              NoStaleAnswer, Unsent, ReadOk, wireVars, purgeVars
<1>8. RecordedWasCharged'
  BY DEF TypeOK, RecordedWasCharged, SentTo, ReadOk, wireVars, purgeVars
<1>9. LossesAreFaults'
  BY DEF TypeOK, HandAndPc, LossesAreFaults, Fates, ReadOk, wireVars, purgeVars
<1> QED
  BY <1>1, <1>2, <1>3, <1>4, <1>5, <1>6, <1>7, <1>8, <1>9

LEMMA ReadRefusalStep == ASSUME IInv, NEW i \in Instances, ReadRefusal(i) PROVE IInv'
<1> USE NoneAssumption, OtherGateway DEF IInv
<1>1. TypeOK'
  BY DEF TypeOK, HandAndPc, Fates, ReadRefusal, purgeVars
<1>2. EachInOnePlace'
  BY DEF TypeOK, HandAndPc, EachInOnePlace, InHand, ReadRefusal, purgeVars
<1>3. HandAndPc'
  BY DEF TypeOK, HandAndPc, ReadRefusal, purgeVars
<1>4. NoStaleAnswer'
  BY DEF TypeOK, NoStaleAnswer, ReadRefusal, purgeVars
<1>5. KnownOnce'
  BY DEF TypeOK, HandAndPc, EachInOnePlace, InHand, KnownOnce, NotSentYet, SentTo, Unsent, ReadRefusal, purgeVars
<1>6. NotSentYet'
  BY DEF TypeOK, HandAndPc, EachInOnePlace, InHand, KnownOnce, NotSentYet, SentTo,
              NoStaleAnswer, Unsent, ReadRefusal, purgeVars
<1>7. SentTo'
  BY DEF TypeOK, HandAndPc, EachInOnePlace, InHand, KnownOnce, NotSentYet, SentTo,
              NoStaleAnswer, Unsent, ReadRefusal, purgeVars
<1>8. RecordedWasCharged'
  BY DEF TypeOK, RecordedWasCharged, SentTo, ReadRefusal, purgeVars
<1>9. LossesAreFaults'
  BY DEF TypeOK, HandAndPc, LossesAreFaults, Fates, ReadRefusal, purgeVars
<1> QED
  BY <1>1, <1>2, <1>3, <1>4, <1>5, <1>6, <1>7, <1>8, <1>9

\* What is recorded was charged by the gateway it was sent to.
LEMMA RecordStep == ASSUME IInv, NEW i \in Instances, Record(i) PROVE IInv'
<1> USE NoneAssumption, OtherGateway DEF IInv
<1>1. TypeOK'
  BY DEF TypeOK, HandAndPc, Fates, Record, BackToLoop, purgeVars
<1>2. EachInOnePlace'
  BY DEF TypeOK, HandAndPc, EachInOnePlace, InHand, Record, BackToLoop, purgeVars
<1>3. HandAndPc'
  BY DEF TypeOK, HandAndPc, Record, BackToLoop, purgeVars
<1>4. NoStaleAnswer'
  BY DEF TypeOK, NoStaleAnswer, Record, BackToLoop, purgeVars
<1>5. KnownOnce'
  BY DEF TypeOK, HandAndPc, EachInOnePlace, InHand, KnownOnce, NotSentYet, SentTo, Unsent, Record, BackToLoop, purgeVars
<1>6. NotSentYet'
  BY DEF TypeOK, HandAndPc, EachInOnePlace, InHand, KnownOnce, NotSentYet, SentTo,
              NoStaleAnswer, Unsent, Record, BackToLoop, purgeVars
<1>7. SentTo'
  BY DEF TypeOK, HandAndPc, EachInOnePlace, InHand, KnownOnce, NotSentYet, SentTo,
              NoStaleAnswer, Unsent, Record, BackToLoop, purgeVars
<1>8. RecordedWasCharged'
  BY DEF TypeOK, RecordedWasCharged, SentTo, Record, BackToLoop, purgeVars
<1>9. LossesAreFaults'
  BY DEF TypeOK, HandAndPc, LossesAreFaults, Fates, Record, BackToLoop, purgeVars
<1> QED
  BY <1>1, <1>2, <1>3, <1>4, <1>5, <1>6, <1>7, <1>8, <1>9

LEMMA RecordNotCommittedStep == ASSUME IInv, NEW i \in Instances, RecordNotCommitted(i) PROVE IInv'
<1> USE NoneAssumption, OtherGateway DEF IInv
<1>1. TypeOK'
  BY DEF TypeOK, HandAndPc, Fates, RecordNotCommitted, BackToLoop, purgeVars
<1>2. EachInOnePlace'
  BY DEF TypeOK, HandAndPc, EachInOnePlace, InHand, RecordNotCommitted, BackToLoop, purgeVars
<1>3. HandAndPc'
  BY DEF TypeOK, HandAndPc, RecordNotCommitted, BackToLoop, purgeVars
<1>4. NoStaleAnswer'
  BY DEF TypeOK, NoStaleAnswer, RecordNotCommitted, BackToLoop, purgeVars
<1>5. KnownOnce'
  BY DEF TypeOK, HandAndPc, EachInOnePlace, InHand, KnownOnce, NotSentYet, SentTo, Unsent, RecordNotCommitted, BackToLoop, purgeVars
<1>6. NotSentYet'
  BY DEF TypeOK, HandAndPc, EachInOnePlace, InHand, KnownOnce, NotSentYet, SentTo,
              NoStaleAnswer, Unsent, RecordNotCommitted, BackToLoop, purgeVars
<1>7. SentTo'
  BY DEF TypeOK, HandAndPc, EachInOnePlace, InHand, KnownOnce, NotSentYet, SentTo,
              NoStaleAnswer, Unsent, RecordNotCommitted, BackToLoop, purgeVars
<1>8. RecordedWasCharged'
  BY DEF TypeOK, RecordedWasCharged, SentTo, RecordNotCommitted, BackToLoop, purgeVars
<1>9. LossesAreFaults'
  BY DEF TypeOK, HandAndPc, LossesAreFaults, Fates, RecordNotCommitted, BackToLoop, purgeVars
<1> QED
  BY <1>1, <1>2, <1>3, <1>4, <1>5, <1>6, <1>7, <1>8, <1>9

LEMMA RecordThrowsStep == ASSUME IInv, NEW i \in Instances, RecordThrows(i) PROVE IInv'
<1> USE NoneAssumption, OtherGateway DEF IInv
<1>1. TypeOK'
  BY DEF TypeOK, HandAndPc, Fates, RecordThrows, purgeVars
<1>2. EachInOnePlace'
  BY DEF TypeOK, HandAndPc, EachInOnePlace, InHand, RecordThrows, purgeVars
<1>3. HandAndPc'
  BY DEF TypeOK, HandAndPc, RecordThrows, purgeVars
<1>4. NoStaleAnswer'
  BY DEF TypeOK, NoStaleAnswer, RecordThrows, purgeVars
<1>5. KnownOnce'
  BY DEF TypeOK, HandAndPc, EachInOnePlace, InHand, KnownOnce, NotSentYet, SentTo, Unsent, RecordThrows, purgeVars
<1>6. NotSentYet'
  BY DEF TypeOK, HandAndPc, EachInOnePlace, InHand, KnownOnce, NotSentYet, SentTo,
              NoStaleAnswer, Unsent, RecordThrows, purgeVars
<1>7. SentTo'
  BY DEF TypeOK, HandAndPc, EachInOnePlace, InHand, KnownOnce, NotSentYet, SentTo,
              NoStaleAnswer, Unsent, RecordThrows, purgeVars
<1>8. RecordedWasCharged'
  BY DEF TypeOK, RecordedWasCharged, SentTo, RecordThrows, purgeVars
<1>9. LossesAreFaults'
  BY DEF TypeOK, HandAndPc, LossesAreFaults, Fates, RecordThrows, purgeVars
<1> QED
  BY <1>1, <1>2, <1>3, <1>4, <1>5, <1>6, <1>7, <1>8, <1>9

LEMMA PurgeDefaultStep == ASSUME IInv, NEW i \in Instances, PurgeDefault(i) PROVE IInv'
<1> USE OtherGateway DEF IInv
<1> DEFINE g == "default"
<1>1. g \in Gateways /\ DropDatabase(g)
  BY DEF Gateways, PurgeDefault
<1>2. /\ UNCHANGED <<currentGateway, pending, pc, payment, gateway, inFlight, answer, accepted>>
      /\ purge' \in [Instances -> {"idle", "fallback", "queue", "done", "dead"}]
      /\ doomed' \in [Instances -> SUBSET Payments]
      /\ purges' \in 0..MaxPurges
  BY BoundAssumption DEF PurgeDefault, NotPurging, flowVars, wireVars, TypeOK, Gateways
<1>3. /\ recorded' \in [Gateways -> SUBSET Payments]
      /\ fate' \in [Payments -> Fates]
      /\ recorded'[Other(g)] = recorded[Other(g)]
      /\ \/ /\ recorded'[g] = {}
            /\ \A p \in Payments :
                 fate'[p] = IF p \in recorded[g] THEN "purged" ELSE fate[p]
         \/ recorded'[g] = recorded[g] /\ fate' = fate
  BY <1>1, Dropping
<1> HIDE DEF g
<1>4. TypeOK'
  BY <1>2, <1>3 DEF TypeOK
<1>5. EachInOnePlace'
  <2>1. ASSUME NEW p \in Payments
        PROVE  fate'[p] = "recorded" <=> \E h \in Gateways : p \in recorded'[h]
    <3>1. fate[p] = "recorded" <=> p \in recorded[g] \/ p \in recorded[Other(g)]
      BY <1>1 DEF EachInOnePlace
    <3>2. p \notin recorded[g] \/ p \notin recorded[Other(g)]
      BY <1>1 DEF RecordedWasCharged, KnownOnce
    <3> QED
      BY <1>1, <1>3, <3>1, <3>2 DEF TypeOK
  <2>2. ASSUME NEW p \in Payments
        PROVE  fate'[p] = "live" <=> fate[p] = "live"
    BY <1>1, <1>3 DEF EachInOnePlace, TypeOK
  <2> QED
    BY <1>2, <2>1, <2>2 DEF EachInOnePlace, InHand
<1>6. NotSentYet' /\ KnownOnce' /\ SentTo' /\ HandAndPc' /\ NoStaleAnswer'
  <2>1. \A p \in Payments : fate'[p] = "new" => fate[p] = "new"
    BY <1>3
  <2> QED
    BY <1>2, <2>1 DEF NotSentYet, Unsent, KnownOnce, SentTo, HandAndPc, NoStaleAnswer
<1>7. RecordedWasCharged' /\ LossesAreFaults'
  BY <1>1, <1>2, <1>3 DEF RecordedWasCharged, LossesAreFaults
<1> QED
  BY <1>4, <1>5, <1>6, <1>7

LEMMA PurgeFallbackStep == ASSUME IInv, NEW i \in Instances, PurgeFallback(i) PROVE IInv'
<1> USE OtherGateway DEF IInv
<1> DEFINE g == "fallback"
<1>1. g \in Gateways /\ DropDatabase(g)
  BY DEF Gateways, PurgeFallback
<1>2. /\ UNCHANGED <<currentGateway, pending, pc, payment, gateway, inFlight, answer, accepted>>
      /\ purge' \in [Instances -> {"idle", "fallback", "queue", "done", "dead"}]
      /\ doomed' \in [Instances -> SUBSET Payments]
      /\ purges' \in 0..MaxPurges
  BY BoundAssumption DEF PurgeFallback, AfterDatabases, flowVars, wireVars, TypeOK, Gateways
<1>3. /\ recorded' \in [Gateways -> SUBSET Payments]
      /\ fate' \in [Payments -> Fates]
      /\ recorded'[Other(g)] = recorded[Other(g)]
      /\ \/ /\ recorded'[g] = {}
            /\ \A p \in Payments :
                 fate'[p] = IF p \in recorded[g] THEN "purged" ELSE fate[p]
         \/ recorded'[g] = recorded[g] /\ fate' = fate
  BY <1>1, Dropping
<1> HIDE DEF g
<1>4. TypeOK'
  BY <1>2, <1>3 DEF TypeOK
<1>5. EachInOnePlace'
  <2>1. ASSUME NEW p \in Payments
        PROVE  fate'[p] = "recorded" <=> \E h \in Gateways : p \in recorded'[h]
    <3>1. fate[p] = "recorded" <=> p \in recorded[g] \/ p \in recorded[Other(g)]
      BY <1>1 DEF EachInOnePlace
    <3>2. p \notin recorded[g] \/ p \notin recorded[Other(g)]
      BY <1>1 DEF RecordedWasCharged, KnownOnce
    <3> QED
      BY <1>1, <1>3, <3>1, <3>2 DEF TypeOK
  <2>2. ASSUME NEW p \in Payments
        PROVE  fate'[p] = "live" <=> fate[p] = "live"
    BY <1>1, <1>3 DEF EachInOnePlace, TypeOK
  <2> QED
    BY <1>2, <2>1, <2>2 DEF EachInOnePlace, InHand
<1>6. NotSentYet' /\ KnownOnce' /\ SentTo' /\ HandAndPc' /\ NoStaleAnswer'
  <2>1. \A p \in Payments : fate'[p] = "new" => fate[p] = "new"
    BY <1>3
  <2> QED
    BY <1>2, <2>1 DEF NotSentYet, Unsent, KnownOnce, SentTo, HandAndPc, NoStaleAnswer
<1>7. RecordedWasCharged' /\ LossesAreFaults'
  BY <1>1, <1>2, <1>3 DEF RecordedWasCharged, LossesAreFaults
<1> QED
  BY <1>4, <1>5, <1>6, <1>7

LEMMA PurgeQueueStep == ASSUME IInv, NEW i \in Instances, PurgeQueue(i) PROVE IInv'
<1> USE NoneAssumption, OtherGateway DEF IInv
<1>1. TypeOK'
  BY DEF TypeOK, HandAndPc, Fates, PurgeQueue, Forget, wireVars
<1>2. EachInOnePlace'
  BY DEF TypeOK, HandAndPc, EachInOnePlace, InHand, PurgeQueue, Forget, wireVars
<1>3. HandAndPc'
  BY DEF TypeOK, HandAndPc, PurgeQueue, Forget, wireVars
<1>4. NoStaleAnswer'
  BY DEF TypeOK, NoStaleAnswer, PurgeQueue, Forget, wireVars
<1>5. KnownOnce'
  BY DEF TypeOK, HandAndPc, EachInOnePlace, InHand, KnownOnce, NotSentYet, SentTo, Unsent, PurgeQueue, Forget, wireVars
<1>6. NotSentYet'
  BY DEF TypeOK, HandAndPc, EachInOnePlace, InHand, KnownOnce, NotSentYet, SentTo,
              NoStaleAnswer, Unsent, PurgeQueue, Forget, wireVars
<1>7. SentTo'
  BY DEF TypeOK, HandAndPc, EachInOnePlace, InHand, KnownOnce, NotSentYet, SentTo,
              NoStaleAnswer, Unsent, PurgeQueue, Forget, wireVars
<1>8. RecordedWasCharged'
  BY DEF TypeOK, RecordedWasCharged, SentTo, PurgeQueue, Forget, wireVars
<1>9. LossesAreFaults'
  BY DEF TypeOK, HandAndPc, LossesAreFaults, Fates, PurgeQueue, Forget, wireVars
<1> QED
  BY <1>1, <1>2, <1>3, <1>4, <1>5, <1>6, <1>7, <1>8, <1>9

\* A purge that throws only changes its own place.
LEMMA PurgeThrowsStep == ASSUME IInv, NEW i \in Instances, PurgeThrows(i) PROVE IInv'
<1> USE DEF IInv
<1>1. /\ UNCHANGED <<currentGateway, pending, pc, payment, gateway, inFlight, answer, accepted,
                     recorded, fate, doomed>>
      /\ purge' \in [Instances -> {"idle", "fallback", "queue", "done", "dead"}]
      /\ purges' \in 0..MaxPurges
  BY BoundAssumption DEF PurgeThrows, NotPurging, flowVars, wireVars, TypeOK
<1>2. TypeOK' /\ EachInOnePlace' /\ HandAndPc' /\ NoStaleAnswer'
  BY <1>1 DEF TypeOK, EachInOnePlace, InHand, HandAndPc, NoStaleAnswer
<1>3. KnownOnce' /\ NotSentYet' /\ SentTo' /\ RecordedWasCharged' /\ LossesAreFaults'
  BY <1>1 DEF KnownOnce, NotSentYet, Unsent, SentTo, RecordedWasCharged, LossesAreFaults
<1> QED
  BY <1>2, <1>3

\* What a process loses with its end was live, and in no other's hands.
LEMMA ProcessEndsStep == ASSUME IInv, NEW i \in Instances, ProcessEnds(i) PROVE IInv'
<1> USE NoneAssumption, OtherGateway DEF IInv
<1> DEFINE lost == pending[i] \cup {payment[i]}
<1>1. /\ UNCHANGED <<currentGateway, gateway, inFlight, accepted, recorded, doomed, purges>>
      /\ fate' = [p \in Payments |-> IF p \in lost THEN "lost" ELSE fate[p]]
      /\ ~Caught /\ "database" \in Faults
  BY DEF ProcessEnds
<1>2. /\ pending' = [pending EXCEPT ![i] = {}] /\ pc' = [pc EXCEPT ![i] = "stopped"]
      /\ payment' = [payment EXCEPT ![i] = None] /\ answer' = [answer EXCEPT ![i] = "none"]
      /\ purge' = [purge EXCEPT ![i] = "dead"]
  BY DEF ProcessEnds
<1>3. \A p \in lost \ {None} : p \in Payments /\ fate[p] = "live"
  BY DEF TypeOK, EachInOnePlace
<1>4. \A p \in Payments : /\ fate'[p] = IF p \in lost THEN "lost" ELSE fate[p]
                          /\ p \in lost => p # None
  BY <1>1
<1> HIDE DEF lost
<1>5. TypeOK'
  <2>1. fate' \in [Payments -> Fates]
    BY <1>1 DEF TypeOK, Fates
  <2> QED
    BY <1>1, <1>2, <2>1 DEF TypeOK
<1>6. EachInOnePlace'
  <2>1. ASSUME NEW p \in Payments
        PROVE  fate'[p] = "live" <=> \E j \in Instances : p \in pending'[j] \/ payment'[j] = p
    <3>1. CASE p \in lost
      <4>1. \A j \in Instances : p \notin pending'[j] /\ payment'[j] # p
        BY <1>2, <3>1 DEF lost, EachInOnePlace, InHand, TypeOK
      <4> QED
        BY <1>4, <3>1, <4>1
    <3>2. CASE p \notin lost
      <4>1. fate'[p] = fate[p]
        BY <1>4, <3>2
      <4>2. p \notin pending[i] /\ payment[i] # p
        BY <3>2 DEF lost
      <4>3. \A j \in Instances : (p \in pending'[j] <=> p \in pending[j]) /\ (payment'[j] = p <=> payment[j] = p)
        BY <1>2, <4>2 DEF TypeOK
      <4> QED
        BY <4>1, <4>3 DEF EachInOnePlace
    <3> QED
      BY <3>1, <3>2
  <2>2. \A p \in Payments : fate'[p] = "recorded" <=> \E g \in Gateways : p \in recorded'[g]
    BY <1>1, <1>3, <1>4 DEF EachInOnePlace
  <2>3. \A j, k \in Instances :
          /\ j # k => pending'[j] \cap pending'[k] = {}
          /\ j # k /\ payment'[j] # None => payment'[j] # payment'[k]
          /\ payment'[j] # None => payment'[j] \notin pending'[k]
    BY <1>2 DEF EachInOnePlace, InHand, TypeOK
  <2> QED
    BY <2>1, <2>2, <2>3 DEF EachInOnePlace, InHand
<1>7. HandAndPc' /\ NoStaleAnswer'
  BY <1>2 DEF HandAndPc, NoStaleAnswer, TypeOK
<1>8. KnownOnce' /\ RecordedWasCharged'
  BY <1>1 DEF KnownOnce, RecordedWasCharged
<1>9. NotSentYet'
  <2>1. \A p \in Payments : fate'[p] = "new" => fate[p] = "new"
    BY <1>4
  <2> QED
    BY <1>1, <1>2, <2>1 DEF NotSentYet, Unsent, TypeOK
<1>10. SentTo'
  BY <1>1, <1>2 DEF SentTo, TypeOK
<1>11. LossesAreFaults'
  BY <1>1, <1>4 DEF LossesAreFaults
<1> QED
  BY <1>5, <1>6, <1>7, <1>8, <1>9, <1>10, <1>11

LEMMA GatewayAcceptsStep == ASSUME IInv, NEW g \in Gateways, NEW p \in Payments, GatewayAccepts(g, p) PROVE IInv'
<1> USE NoneAssumption, OtherGateway DEF IInv
<1>1. TypeOK'
  BY DEF TypeOK, HandAndPc, Fates, GatewayAccepts, Answered, flowVars, purgeVars
<1>2. EachInOnePlace'
  BY DEF TypeOK, HandAndPc, EachInOnePlace, InHand, GatewayAccepts, Answered, flowVars, purgeVars
<1>3. HandAndPc'
  BY DEF TypeOK, HandAndPc, GatewayAccepts, Answered, flowVars, purgeVars
<1>4. NoStaleAnswer'
  BY DEF TypeOK, NoStaleAnswer, GatewayAccepts, Answered, flowVars, purgeVars
<1>5. KnownOnce'
  BY DEF TypeOK, HandAndPc, EachInOnePlace, InHand, KnownOnce, NotSentYet, SentTo, Unsent, GatewayAccepts, Answered, flowVars, purgeVars
<1>6. NotSentYet'
  BY DEF TypeOK, HandAndPc, EachInOnePlace, InHand, KnownOnce, NotSentYet, SentTo,
              NoStaleAnswer, Unsent, GatewayAccepts, Answered, flowVars, purgeVars
<1>7. SentTo'
  BY DEF TypeOK, HandAndPc, EachInOnePlace, InHand, KnownOnce, NotSentYet, SentTo,
              NoStaleAnswer, Unsent, GatewayAccepts, Answered, flowVars, purgeVars
<1>8. RecordedWasCharged'
  BY DEF TypeOK, RecordedWasCharged, SentTo, GatewayAccepts, Answered, flowVars, purgeVars
<1>9. LossesAreFaults'
  BY DEF TypeOK, HandAndPc, LossesAreFaults, Fates, GatewayAccepts, Answered, flowVars, purgeVars
<1> QED
  BY <1>1, <1>2, <1>3, <1>4, <1>5, <1>6, <1>7, <1>8, <1>9

LEMMA GatewayRefusesStep == ASSUME IInv, NEW g \in Gateways, NEW p \in Payments, GatewayRefuses(g, p) PROVE IInv'
<1> USE NoneAssumption, OtherGateway DEF IInv
<1>1. TypeOK'
  BY DEF TypeOK, HandAndPc, Fates, GatewayRefuses, Answered, flowVars, purgeVars
<1>2. EachInOnePlace'
  BY DEF TypeOK, HandAndPc, EachInOnePlace, InHand, GatewayRefuses, Answered, flowVars, purgeVars
<1>3. HandAndPc'
  BY DEF TypeOK, HandAndPc, GatewayRefuses, Answered, flowVars, purgeVars
<1>4. NoStaleAnswer'
  BY DEF TypeOK, NoStaleAnswer, GatewayRefuses, Answered, flowVars, purgeVars
<1>5. KnownOnce'
  BY DEF TypeOK, HandAndPc, EachInOnePlace, InHand, KnownOnce, NotSentYet, SentTo, Unsent, GatewayRefuses, Answered, flowVars, purgeVars
<1>6. NotSentYet'
  <2>1. /\ UNCHANGED <<flowVars, accepted, fate>>
        /\ inFlight' = [inFlight EXCEPT ![g] = @ \ {p}]
    BY DEF GatewayRefuses
  <2>2. \A q \in Payments : Unsent(q) => Unsent(q)'
    BY <2>1 DEF Unsent, TypeOK
  <2>3. Unsent(p)'
    <3>1. p \notin accepted[g] /\ p \notin inFlight[Other(g)] /\ p \notin accepted[Other(g)]
      BY DEF KnownOnce, GatewayRefuses
    <3>2. p \notin inFlight'[g] /\ inFlight'[Other(g)] = inFlight[Other(g)]
      BY <2>1 DEF TypeOK
    <3>3. accepted' = accepted
      BY <2>1
    <3> QED
      BY <3>1, <3>2, <3>3 DEF Unsent
  <2>4. ASSUME NEW j \in Instances, pc[j] = "read", answer'[j] = "refused"
        PROVE  Unsent(payment[j])'
    <3>1. payment[j] \in Payments
      BY <2>4 DEF TypeOK, HandAndPc
    <3>2. payment[j] = p \/ answer[j] = "refused"
      BY <2>4 DEF GatewayRefuses, Answered
    <3>3. payment' = payment
      BY <2>1 DEF flowVars
    <3> QED
      BY <2>2, <2>3, <2>4, <3>1, <3>2, <3>3 DEF NotSentYet, Unsent
  <2>5. ASSUME NEW j \in Instances, pc[j] \in {"choose", "send", "retry"}
        PROVE  Unsent(payment[j])'
    <3>1. payment[j] \in Payments
      BY <2>5 DEF TypeOK, HandAndPc
    <3>2. payment' = payment
      BY <2>1 DEF flowVars
    <3> QED
      BY <2>2, <2>5, <3>1, <3>2 DEF NotSentYet, Unsent
  <2> QED
    BY <2>1, <2>2, <2>4, <2>5 DEF NotSentYet, flowVars, TypeOK
<1>7. SentTo'
  BY DEF TypeOK, HandAndPc, EachInOnePlace, InHand, KnownOnce, NotSentYet, SentTo,
              NoStaleAnswer, Unsent, GatewayRefuses, Answered, flowVars, purgeVars
<1>8. RecordedWasCharged'
  BY DEF TypeOK, RecordedWasCharged, SentTo, GatewayRefuses, Answered, flowVars, purgeVars
<1>9. LossesAreFaults'
  BY DEF TypeOK, HandAndPc, LossesAreFaults, Fates, GatewayRefuses, Answered, flowVars, purgeVars
<1> QED
  BY <1>1, <1>2, <1>3, <1>4, <1>5, <1>6, <1>7, <1>8, <1>9

LEMMA ChooserStoresStep == ASSUME IInv, NEW g \in Gateways, ChooserStores(g) PROVE IInv'
<1> USE NoneAssumption, OtherGateway DEF IInv
<1>1. TypeOK'
  BY DEF TypeOK, HandAndPc, Fates, ChooserStores, flowVars, wireVars, purgeVars
<1>2. EachInOnePlace'
  BY DEF TypeOK, HandAndPc, EachInOnePlace, InHand, ChooserStores, flowVars, wireVars, purgeVars
<1>3. HandAndPc'
  BY DEF TypeOK, HandAndPc, ChooserStores, flowVars, wireVars, purgeVars
<1>4. NoStaleAnswer'
  BY DEF TypeOK, NoStaleAnswer, ChooserStores, flowVars, wireVars, purgeVars
<1>5. KnownOnce'
  BY DEF TypeOK, HandAndPc, EachInOnePlace, InHand, KnownOnce, NotSentYet, SentTo, Unsent, ChooserStores, flowVars, wireVars, purgeVars
<1>6. NotSentYet'
  BY DEF TypeOK, HandAndPc, EachInOnePlace, InHand, KnownOnce, NotSentYet, SentTo,
              NoStaleAnswer, Unsent, ChooserStores, flowVars, wireVars, purgeVars
<1>7. SentTo'
  BY DEF TypeOK, HandAndPc, EachInOnePlace, InHand, KnownOnce, NotSentYet, SentTo,
              NoStaleAnswer, Unsent, ChooserStores, flowVars, wireVars, purgeVars
<1>8. RecordedWasCharged'
  BY DEF TypeOK, RecordedWasCharged, SentTo, ChooserStores, flowVars, wireVars, purgeVars
<1>9. LossesAreFaults'
  BY DEF TypeOK, HandAndPc, LossesAreFaults, Fates, ChooserStores, flowVars, wireVars, purgeVars
<1> QED
  BY <1>1, <1>2, <1>3, <1>4, <1>5, <1>6, <1>7, <1>8, <1>9

-----------------------------------------------------------------------------

LEMMA InitIInv == Init => IInv
<1> SUFFICES ASSUME Init PROVE IInv
  OBVIOUS
<1> USE DEF Init
<1>1. TypeOK
  BY BoundAssumption DEF TypeOK, Gateways, Fates
<1>2. EachInOnePlace /\ HandAndPc /\ NoStaleAnswer
  BY NoneAssumption DEF EachInOnePlace, InHand, HandAndPc, NoStaleAnswer
<1>3. KnownOnce /\ NotSentYet /\ SentTo
  BY OtherGateway DEF KnownOnce, NotSentYet, SentTo, Unsent
<1>4. RecordedWasCharged /\ LossesAreFaults
  BY DEF RecordedWasCharged, LossesAreFaults
<1> QED
  BY <1>1, <1>2, <1>3, <1>4 DEF IInv

LEMMA NextIInv == IInv /\ [Next]_vars => IInv'
<1> SUFFICES ASSUME IInv, [Next]_vars PROVE IInv'
  OBVIOUS
<1>1. ASSUME NEW i \in Instances, Processor(i) PROVE IInv'
  BY <1>1, DequeueStep, GetGatewayStep, SendStep, ConnectionErrorStep, ReadOkStep,
     ReadRefusalStep, RecordStep, RecordNotCommittedStep, RecordThrowsStep DEF Processor, Work, Fails
<1>2. ASSUME NEW i \in Instances, Purge(i) PROVE IInv'
  BY <1>2, PurgeDefaultStep, PurgeFallbackStep, PurgeQueueStep, PurgeThrowsStep DEF Purge
<1>3. CASE Environment
  BY <1>3, GatewayAcceptsStep, GatewayRefusesStep, ChooserStoresStep DEF Environment
<1>4. CASE UNCHANGED vars
  BY <1>4 DEF vars, flowVars, wireVars, purgeVars, IInv, TypeOK, EachInOnePlace, InHand,
              HandAndPc, NoStaleAnswer, KnownOnce, NotSentYet, Unsent, SentTo,
              RecordedWasCharged, LossesAreFaults
<1> QED
  BY <1>1, <1>2, <1>3, <1>4, PostPaymentStep, ProcessEndsStep DEF Next

\* The inductive invariant holds in every behaviour.
THEOREM Invariance == Spec => []IInv
  BY InitIInv, NextIInv, PTL DEF Spec

\* Every variable keeps its type, whatever the number of payments and instances.
THEOREM Typing == Spec => []TypeOK
<1>1. IInv => TypeOK
  BY DEF IInv
<1> QED
  BY <1>1, Invariance, PTL

\* No payment is charged by both gateways (processPayment).
THEOREM ChargedOnceTheorem == Spec => []ChargedOnce
<1>1. IInv => ChargedOnce
  <2>1. /\ "default" \in Gateways /\ "fallback" = Other("default")
    BY DEF Gateways, Other
  <2> QED
    BY <2>1 DEF IInv, TypeOK, KnownOnce, ChargedOnce
<1> QED
  BY <1>1, Invariance, PTL

\* What is in the database of a gateway was charged by that gateway.
THEOREM RecordedWasChargedTheorem == Spec => []RecordedWasCharged
<1>1. IInv => RecordedWasCharged
  BY DEF IInv
<1> QED
  BY <1>1, Invariance, PTL

\* A posted payment is in one queue, in one processor's hands, or settled.
THEOREM EachInOnePlaceTheorem == Spec => []EachInOnePlace
<1>1. IInv => EachInOnePlace
  BY DEF IInv
<1> QED
  BY <1>1, Invariance, PTL

\* Every charge is in the database, or on its way there, or its absence is
\* due to a purge or to a fault of the connection or of the database.
THEOREM ChargeAccountedForTheorem == Spec => []ChargeAccountedFor
<1>1. IInv => ChargeAccountedFor
  <2> SUFFICES ASSUME IInv, NEW g \in Gateways, NEW p \in accepted[g] \ recorded[g],
                      fate[p] \notin {"purged", "dropped", "unsaved", "lost"}
               PROVE  \E i \in Instances : /\ payment[i] = p /\ gateway[i] = g
                                           /\ pc[i] \in {"read", "record"}
    BY DEF IInv, ChargeAccountedFor, LossesAreFaults, TypeOK
  <2> USE OtherGateway DEF IInv
  <2>1. p \in Payments /\ ~Unsent(p)
    BY DEF TypeOK, Unsent
  <2>2. fate[p] # "new"
    BY <2>1 DEF NotSentYet
  <2>3. fate[p] # "recorded"
    <3> SUFFICES ASSUME NEW h \in Gateways, p \in recorded[h] PROVE FALSE
      BY <2>1 DEF EachInOnePlace
    <3>1. p \in accepted[h]
      BY DEF RecordedWasCharged
    <3> QED
      BY <2>1, <3>1 DEF KnownOnce
  <2>4. fate[p] = "live"
    BY <2>1, <2>2, <2>3 DEF TypeOK, Fates
  <2>5. PICK i \in Instances : p \in pending[i] \/ payment[i] = p
    BY <2>1, <2>4 DEF EachInOnePlace
  <2>6. payment[i] = p
    BY <2>1, <2>5 DEF NotSentYet
  <2>7. pc[i] \in {"read", "record"} /\ (pc[i] = "read" => answer[i] # "refused")
    BY <2>1, <2>6, NoneAssumption DEF NotSentYet, HandAndPc, TypeOK
  <2>8. p \in inFlight[gateway[i]] \/ p \in accepted[gateway[i]]
    BY <2>6, <2>7 DEF SentTo, TypeOK
  <2>9. gateway[i] = g
    BY <2>1, <2>8 DEF KnownOnce, TypeOK
  <2> QED
    BY <2>6, <2>7, <2>9
<1> QED
  BY <1>1, Invariance, PTL

-----------------------------------------------------------------------------
(* Purges.  What a purge has to forget, doomed[i], was recorded when it      *)
(* began, and a settled payment is never recorded again (Settles): so once a *)
(* database has been dropped nothing that was doomed comes back into it.     *)

Settled == {"recorded", "purged"}

\* What a purge in progress has done so far, and that what it has to forget is
\* in no processor's hands any more.
PurgeProgress ==
  \A i \in Instances :
    /\ \A p \in doomed[i] : fate[p] \in Settled
    /\ "commit" \notin Faults =>
         /\ doomed[i] \cap recorded["default"] = {}
         /\ purge[i] \in {"queue", "done"} => doomed[i] \cap recorded["fallback"] = {}

\* A payment that is recorded or purged stays so, and only what was in a
\* processor's hands is added to a database.
Settles ==
  \A p \in Payments :
    /\ fate[p] \in Settled => fate'[p] \in Settled
    /\ \A g \in Gateways : p \in recorded'[g] => p \in recorded[g] \/ fate[p] = "live"

LEMMA SettledStays ==
  ASSUME IInv, [Next]_vars
  PROVE  Settles
<1>1. ASSUME NEW i \in Instances, NEW p \in Payments, PostPayment(i, p) PROVE Settles
  BY <1>1 DEF PostPayment, IInv, TypeOK, Settles, Settled
<1>2. ASSUME NEW i \in Instances, pc[i] \in {"send", "read", "record"}
      PROVE  payment[i] \in Payments /\ fate[payment[i]] = "live"
  BY <1>2, NoneAssumption DEF IInv, TypeOK, HandAndPc, EachInOnePlace
<1>3. CASE UNCHANGED <<fate, recorded>>
  BY <1>3 DEF Settles
<1>4. ASSUME NEW i \in Instances, Processor(i) PROVE Settles
  <2>1. CASE Record(i)
    BY <1>2, <2>1 DEF Record, IInv, TypeOK, Settles, Settled
  <2>2. CASE Fails(i)
    BY <1>2, <2>2 DEF Fails, ConnectionError, RecordNotCommitted, RecordThrows, IInv, TypeOK, Settles, Settled
  <2>3. Work(i) => Record(i) \/ UNCHANGED <<fate, recorded>>
    BY DEF Work, Dequeue, GetGateway, Send, ReadOk, ReadRefusal
  <2> QED
    BY <1>3, <1>4, <2>1, <2>2, <2>3 DEF Processor
<1>5. ASSUME NEW g \in Gateways, DropDatabase(g) PROVE Settles
  BY <1>5, Dropping, OtherGateway DEF IInv, Settles, Settled
<1>6. ASSUME NEW i \in Instances, Purge(i) PROVE Settles
  <2>1. CASE PurgeQueue(i)
    BY <2>1 DEF PurgeQueue, Forget, Settles, Settled
  <2>2. CASE PurgeDefault(i) \/ PurgeFallback(i)
    BY <1>5, <2>2 DEF PurgeDefault, PurgeFallback, Gateways
  <2>3. CASE PurgeThrows(i)
    BY <1>3, <2>3 DEF PurgeThrows
  <2> QED
    BY <1>6, <2>1, <2>2, <2>3 DEF Purge
<1>7. Environment \/ UNCHANGED vars => UNCHANGED <<fate, recorded>>
  BY DEF Environment, GatewayAccepts, GatewayRefuses, ChooserStores, vars
<1>8. ASSUME NEW i \in Instances, ProcessEnds(i) PROVE Settles
  <2>1. \A p \in pending[i] \cup {payment[i]} : p \in Payments => fate[p] = "live"
    BY DEF IInv, TypeOK, EachInOnePlace
  <2> QED
    BY <1>8, <2>1 DEF ProcessEnds, Settles, Settled
<1> QED
  BY <1>1, <1>3, <1>4, <1>6, <1>7, <1>8 DEF Next

LEMMA PurgeProgressNext == IInv /\ PurgeProgress /\ [Next]_vars => PurgeProgress'
<1> SUFFICES ASSUME IInv, PurgeProgress, [Next]_vars, NEW i \in Instances
             PROVE  /\ \A p \in doomed'[i] : fate'[p] \in Settled
                    /\ "commit" \notin Faults =>
                         /\ doomed'[i] \cap recorded'["default"] = {}
                         /\ purge'[i] \in {"queue", "done"} => doomed'[i] \cap recorded'["fallback"] = {}
  BY DEF PurgeProgress
<1>1. \A p \in doomed[i] : p \in Payments /\ fate[p] \in Settled /\ fate[p] # "live"
  BY DEF PurgeProgress, IInv, TypeOK, Settled
<1>2. \A p \in doomed[i] :
        fate'[p] \in Settled /\ \A g \in Gateways : p \in recorded'[g] => p \in recorded[g]
  BY <1>1, SettledStays DEF Settles
<1>3. {"default", "fallback"} = Gateways
  BY DEF Gateways
<1>4. CASE PurgeDefault(i)
  <2>1. doomed'[i] = recorded["default"] \cup recorded["fallback"] /\ purge'[i] = "fallback"
    BY <1>4 DEF PurgeDefault, IInv, TypeOK
  <2>2. \A p \in doomed'[i] : p \in Payments /\ fate[p] = "recorded"
    BY <1>3, <2>1 DEF IInv, TypeOK, EachInOnePlace
  <2>3. \A p \in doomed'[i] : fate'[p] \in Settled
    BY <2>2, SettledStays DEF Settles, Settled
  <2>4. "commit" \notin Faults => recorded'["default"] = {}
    BY <1>3, <1>4 DEF PurgeDefault, DropDatabase, IInv, TypeOK
  <2> QED
    BY <2>1, <2>3, <2>4
<1>5. CASE PurgeFallback(i)
  <2>1. "commit" \notin Faults => recorded'["fallback"] = {}
    BY <1>3, <1>5 DEF PurgeFallback, DropDatabase, IInv, TypeOK
  <2> QED
    BY <1>2, <1>3, <1>5, <2>1 DEF PurgeFallback, PurgeProgress
<1>6. CASE doomed'[i] = doomed[i] /\ (purge'[i] \in {purge[i], "idle", "dead"} \/ purge[i] = "queue")
  BY <1>2, <1>3, <1>6 DEF PurgeProgress
<1>7. ASSUME NEW j \in Instances, j # i, PurgeDefault(j) \/ PurgeFallback(j)
      PROVE  doomed'[i] = doomed[i] /\ purge'[i] = purge[i]
  BY <1>7 DEF PurgeDefault, PurgeFallback, IInv, TypeOK
<1>8. ASSUME NEW j \in Instances, PurgeQueue(j) \/ PurgeThrows(j) \/ ProcessEnds(j)
      PROVE  doomed'[i] = doomed[i] /\ (purge'[i] \in {purge[i], "idle", "dead"} \/ purge[i] = "queue")
  BY <1>8 DEF PurgeQueue, PurgeThrows, ProcessEnds, IInv, TypeOK
<1>9. ASSUME NEW j \in Instances, NEW p \in Payments, PostPayment(j, p) PROVE UNCHANGED <<doomed, purge>>
  BY <1>9 DEF PostPayment, purgeVars
<1>10. ASSUME NEW j \in Instances, Processor(j) PROVE UNCHANGED <<doomed, purge>>
  BY <1>10 DEF Processor, Work, Fails, Dequeue, GetGateway, Send, ReadOk, ReadRefusal, Record,
              ConnectionError, RecordNotCommitted, RecordThrows, purgeVars
<1>11. Environment \/ UNCHANGED vars => UNCHANGED <<doomed, purge>>
  BY DEF Environment, GatewayAccepts, GatewayRefuses, ChooserStores, vars, purgeVars
<1> QED
  BY <1>4, <1>5, <1>6, <1>7, <1>8, <1>9, <1>10, <1>11 DEF Next, Purge

\* A purge that gets through both transactions without throwing, and whose
\* commits succeed, has forgotten all that was recorded before it began, whatever
\* is recorded, purged or thrown meanwhile elsewhere (PaymentService::purge).
THEOREM PurgeForgetsTheorem == Spec => []PurgeForgets
<1>1. Init => PurgeProgress
  BY DEF Init, PurgeProgress, Gateways
<1>2. IInv /\ PurgeProgress => PurgeForgets
  BY DEF PurgeProgress, PurgeForgets, Gateways
<1> QED
  BY <1>1, <1>2, PurgeProgressNext, Invariance, PTL DEF Spec

-----------------------------------------------------------------------------
(* PaymentFlow implements PaymentLedger.  Most steps leave the ledger alone. *)
(* The others map to one step of it: posting, charging by a gateway,         *)
(* recording, giving up after a fault, and the steps of a purge.  IInv gives *)
(* their guards; one fact more is needed of purged payments: no gateway has  *)
(* one of them in hand any more, hence none is charged later.                *)

PurgedIsIdle ==
  \A p \in Payments : fate[p] = "purged" => \A g \in Gateways : p \notin inFlight[g]

-----------------------------------------------------------------------------

\* A step that purges nothing and sends nothing keeps the fact.
LEMMA NothingPurged ==
  ASSUME PurgedIsIdle,
         \A p \in Payments : fate'[p] = "purged" => fate[p] = "purged",
         \A g \in Gateways : inFlight'[g] \subseteq inFlight[g]
  PROVE  PurgedIsIdle'
BY DEF PurgedIsIdle

\* Dropping a database purges what its gateway has charged, not what it has in hand.
LEMMA DropKeepsIdle ==
  ASSUME IInv, PurgedIsIdle, NEW g \in Gateways, DropDatabase(g), UNCHANGED inFlight
  PROVE  PurgedIsIdle'
<1> SUFFICES ASSUME NEW p \in Payments, fate'[p] = "purged", NEW h \in Gateways
             PROVE  p \notin inFlight[h]
  BY DEF PurgedIsIdle
<1>1. CASE fate[p] = "purged"
  BY <1>1 DEF PurgedIsIdle
<1>2. CASE fate[p] # "purged"
  <2>1. p \in recorded[g]
    BY <1>2, Dropping DEF IInv
  <2>2. p \in accepted[g]
    BY <2>1 DEF IInv, RecordedWasCharged
  <2> QED
    BY <2>2, OtherGateway DEF IInv, KnownOnce
<1> QED
  BY <1>1, <1>2

LEMMA PurgedIsIdleNext == IInv /\ PurgedIsIdle /\ [Next]_vars => PurgedIsIdle'
<1> SUFFICES ASSUME IInv, PurgedIsIdle, [Next]_vars PROVE PurgedIsIdle'
  OBVIOUS
<1> USE NothingPurged
<1>1. ASSUME NEW i \in Instances, NEW p \in Payments, PostPayment(i, p) PROVE PurgedIsIdle'
  BY <1>1 DEF PostPayment, wireVars, IInv, TypeOK
<1>2. ASSUME NEW i \in Instances, NEW p \in Payments, Dequeue(i, p) PROVE PurgedIsIdle'
  BY <1>2 DEF Dequeue, wireVars
<1>3. ASSUME NEW i \in Instances, GetGateway(i) PROVE PurgedIsIdle'
  BY <1>3 DEF GetGateway, wireVars
<1>4. ASSUME NEW i \in Instances, Send(i) PROVE PurgedIsIdle'
  <2>1. payment[i] \in Payments /\ fate[payment[i]] = "live"
    BY <1>4, NoneAssumption DEF Send, IInv, TypeOK, HandAndPc, EachInOnePlace
  <2>2. \A g \in Gateways : inFlight'[g] \subseteq inFlight[g] \cup {payment[i]}
    BY <1>4 DEF Send, IInv, TypeOK
  <2> QED
    BY <1>4, <2>1, <2>2 DEF Send, PurgedIsIdle
<1>5. ASSUME NEW i \in Instances, ConnectionError(i) PROVE PurgedIsIdle'
  BY <1>5 DEF ConnectionError, IInv, TypeOK
<1>6. ASSUME NEW i \in Instances, ReadOk(i) PROVE PurgedIsIdle'
  BY <1>6 DEF ReadOk, wireVars
<1>7. ASSUME NEW i \in Instances, ReadRefusal(i) PROVE PurgedIsIdle'
  BY <1>7 DEF ReadRefusal
<1>8. ASSUME NEW i \in Instances, Record(i) \/ RecordNotCommitted(i) \/ RecordThrows(i)
      PROVE  PurgedIsIdle'
  BY <1>8 DEF Record, RecordNotCommitted, RecordThrows, IInv, TypeOK
<1>9. ASSUME NEW i \in Instances, PurgeDefault(i) PROVE PurgedIsIdle'
  BY <1>9, DropKeepsIdle DEF PurgeDefault, wireVars, Gateways
<1>10. ASSUME NEW i \in Instances, PurgeFallback(i) PROVE PurgedIsIdle'
  BY <1>10, DropKeepsIdle DEF PurgeFallback, wireVars, Gateways
<1>11. ASSUME NEW i \in Instances, PurgeQueue(i) PROVE PurgedIsIdle'
  BY <1>11 DEF PurgeQueue, Forget, wireVars, PurgedIsIdle, IInv, NotSentYet, Unsent
<1>12. ASSUME NEW i \in Instances, PurgeThrows(i) \/ ProcessEnds(i) PROVE PurgedIsIdle'
  BY <1>12 DEF PurgeThrows, ProcessEnds, wireVars
<1>13. ASSUME NEW g \in Gateways, NEW p \in Payments, GatewayAccepts(g, p) \/ GatewayRefuses(g, p)
       PROVE  PurgedIsIdle'
  BY <1>13 DEF GatewayAccepts, GatewayRefuses, IInv, TypeOK
<1>14. ASSUME NEW g \in Gateways, ChooserStores(g) PROVE PurgedIsIdle'
  BY <1>14 DEF ChooserStores, wireVars
<1>15. CASE UNCHANGED vars
  BY <1>15 DEF vars, wireVars
<1> QED
  BY <1>1, <1>2, <1>3, <1>4, <1>5, <1>6, <1>7, <1>8, <1>9, <1>10, <1>11, <1>12, <1>13, <1>14, <1>15
     DEF Next, Processor, Work, Fails, Purge, Environment

-----------------------------------------------------------------------------
(* The steps.                                                              *)

\* A step that leaves fates and charges alone leaves every status alone.
LEMMA SameStatus ==
  ASSUME UNCHANGED <<fate, accepted>>
  PROVE  UNCHANGED LedgerStatus
BY DEF LedgerStatus

\* One payment changes its fate, and had not been purged: Ledger!Become.
LEMMA OneBecomes ==
  ASSUME NEW p \in Payments, NEW f \in {"live", "recorded", "dropped", "unsaved"},
         IInv, fate' = [fate EXCEPT ![p] = f], UNCHANGED accepted
  PROVE  Ledger!Become({p}, IF f \in {"dropped", "unsaved"} THEN "lost" ELSE f)
<1>1. /\ fate'[p] = f
      /\ \A q \in Payments : q # p => fate'[q] = fate[q]
  BY DEF IInv, TypeOK
<1>2. LedgerStatus'[p] = IF f \in {"dropped", "unsaved"} THEN "lost" ELSE f
  BY <1>1 DEF LedgerStatus
<1>3. \A q \in Payments : q # p => LedgerStatus'[q] = LedgerStatus[q]
  BY <1>1 DEF LedgerStatus
<1>4. LedgerStatus' = [q \in Payments |-> LedgerStatus'[q]]
  BY DEF LedgerStatus
<1> QED
  BY <1>2, <1>3, <1>4 DEF Ledger!Become

\* Dropping the database of g erases what it had recorded, or does nothing.
LEMMA DropErases ==
  ASSUME IInv, NEW g \in Gateways, DropDatabase(g), UNCHANGED accepted
  PROVE  Ledger!Erase(g) \/ UNCHANGED Ledger!vars
<1>1. CASE recorded' = [recorded EXCEPT ![g] = {}] /\ Forget(recorded[g])
  <2>1. fate' = [p \in Payments |-> IF p \in recorded[g] THEN "purged" ELSE fate[p]]
    BY <1>1 DEF Forget
  <2>2. \A p \in recorded[g] : p \in Payments /\ p \in accepted[g]
    BY DEF IInv, TypeOK, RecordedWasCharged
  <2>3. \A p \in recorded[g] : LedgerStatus'[p] = "erased"
    BY <2>1, <2>2 DEF LedgerStatus
  <2>4. \A p \in Payments : p \notin recorded[g] => LedgerStatus'[p] = LedgerStatus[p]
    BY <2>1 DEF LedgerStatus
  <2>5. LedgerStatus' = [p \in Payments |-> LedgerStatus'[p]]
    BY DEF LedgerStatus
  <2>6. Ledger!Become(recorded[g], "erased")
    BY <2>2, <2>3, <2>4, <2>5 DEF Ledger!Become
  <2> QED
    BY <1>1, <2>6 DEF Ledger!Erase
<1>2. CASE UNCHANGED <<recorded, fate>>
  BY <1>2, SameStatus DEF Ledger!vars
<1> QED
  BY <1>1, <1>2 DEF DropDatabase

\* Purging a queue cancels what is in it: no gateway knows of it.
LEMMA PurgeQueueCancels ==
  ASSUME IInv, NEW i \in Instances, PurgeQueue(i)
  PROVE  Ledger!Cancel(pending[i])
<1>1. \A p \in pending[i] : /\ p \in Payments /\ fate[p] = "live"
                            /\ \A g \in Gateways : p \notin accepted[g]
  BY DEF IInv, TypeOK, EachInOnePlace, NotSentYet, Unsent
<1>2. /\ fate' = [p \in Payments |-> IF p \in pending[i] THEN "purged" ELSE fate[p]]
      /\ UNCHANGED <<accepted, recorded>>
  BY DEF PurgeQueue, Forget, wireVars
<1>3. \A p \in pending[i] : LedgerStatus[p] = "live" /\ LedgerStatus'[p] = "cancelled"
  BY <1>1, <1>2 DEF LedgerStatus
<1>4. \A p \in Payments : p \notin pending[i] => LedgerStatus'[p] = LedgerStatus[p]
  BY <1>2 DEF LedgerStatus
<1>5. LedgerStatus' = [p \in Payments |-> LedgerStatus'[p]]
  BY DEF LedgerStatus
<1> QED
  BY <1>1, <1>2, <1>3, <1>4, <1>5 DEF Ledger!Cancel, Ledger!Become, Ledger!Charged

\* A gateway accepts what it has in hand, which nobody has charged, cancelled
\* or erased.
LEMMA AcceptCharges ==
  ASSUME IInv, PurgedIsIdle, NEW g \in Gateways, NEW p \in Payments, GatewayAccepts(g, p)
  PROVE  Ledger!Charge(p, g)
<1>1. /\ p \in inFlight[g]
      /\ accepted' = [accepted EXCEPT ![g] = @ \cup {p}]
      /\ UNCHANGED <<fate, recorded>>
  BY DEF GatewayAccepts
<1>2. \A h \in Gateways : p \notin accepted[h]
  BY <1>1, OtherGateway DEF IInv, KnownOnce
<1>3. fate[p] # "new" /\ fate[p] # "purged"
  BY <1>1 DEF IInv, NotSentYet, Unsent, PurgedIsIdle
<1>4. LedgerStatus[p] \notin {"new", "cancelled"}
  BY <1>3 DEF LedgerStatus, IInv, TypeOK, Fates
<1>5. \A q \in Payments : q # p => \A h \in Gateways : q \in accepted'[h] <=> q \in accepted[h]
  BY <1>1 DEF IInv, TypeOK
<1>6. \A q \in Payments : LedgerStatus'[q] = LedgerStatus[q]
  BY <1>1, <1>3, <1>5 DEF LedgerStatus
<1>7. LedgerStatus' = [q \in Payments |-> LedgerStatus'[q]] /\ LedgerStatus = [q \in Payments |-> LedgerStatus[q]]
  BY DEF LedgerStatus
<1>8. UNCHANGED LedgerStatus
  BY <1>6, <1>7
<1> QED
  BY <1>1, <1>2, <1>4, <1>8 DEF Ledger!Charge, Ledger!Charged

\* What a processor records was charged by the gateway it was sent to.
LEMMA RecordRecords ==
  ASSUME IInv, NEW i \in Instances, Record(i)
  PROVE  Ledger!Record(payment[i], gateway[i]) /\ payment[i] \in Payments /\ gateway[i] \in Gateways
<1>1. payment[i] \in Payments /\ fate[payment[i]] = "live"
  BY NoneAssumption DEF Record, IInv, TypeOK, HandAndPc, EachInOnePlace
<1>2. gateway[i] \in Gateways /\ payment[i] \in accepted[gateway[i]]
  BY DEF Record, IInv, TypeOK, SentTo
<1>3. LedgerStatus[payment[i]] = "live"
  BY <1>1 DEF LedgerStatus
<1>4. Ledger!Become({payment[i]}, "recorded")
  BY <1>1, OneBecomes DEF Record
<1> QED
  BY <1>1, <1>2, <1>3, <1>4 DEF Record, Ledger!Record

\* A payment is given up only when something failed.
LEMMA FailGivesUp ==
  ASSUME IInv, NEW i \in Instances, Fails(i)
  PROVE  Ledger!GiveUp({payment[i]}) /\ payment[i] \in Payments
<1>1. payment[i] \in Payments /\ fate[payment[i]] = "live"
  BY NoneAssumption
     DEF Fails, ConnectionError, RecordNotCommitted, RecordThrows, IInv, TypeOK, HandAndPc, EachInOnePlace
<1>2. LedgerStatus[payment[i]] = "live"
  BY <1>1 DEF LedgerStatus
<1>3. /\ Faults # {} /\ UNCHANGED <<accepted, recorded>>
      /\ \/ fate' = [fate EXCEPT ![payment[i]] = "dropped"]
         \/ fate' = [fate EXCEPT ![payment[i]] = "unsaved"]
  BY DEF Fails, ConnectionError, RecordNotCommitted, RecordThrows, wireVars
<1>4. Ledger!Become({payment[i]}, "lost")
  BY <1>1, <1>3, OneBecomes
<1> QED
  BY <1>1, <1>2, <1>3, <1>4 DEF Ledger!GiveUp

\* A process that ends gives up what it had: the payments in its queue and in
\* the hands of its processor.
LEMMA EndGivesUp ==
  ASSUME IInv, NEW i \in Instances, ProcessEnds(i)
  PROVE  Ledger!GiveUp((pending[i] \cup {payment[i]}) \ {None})
<1> DEFINE lost == (pending[i] \cup {payment[i]}) \ {None}
<1>1. \A p \in lost : p \in Payments /\ fate[p] = "live"
  BY DEF IInv, TypeOK, EachInOnePlace
<1>2. /\ Faults # {} /\ UNCHANGED <<accepted, recorded>>
      /\ \A p \in Payments : fate'[p] = IF p \in lost THEN "lost" ELSE fate[p]
  BY NoneAssumption DEF ProcessEnds
<1> HIDE DEF lost
<1>3. \A p \in lost : LedgerStatus[p] = "live" /\ LedgerStatus'[p] = "lost"
  BY <1>1, <1>2 DEF LedgerStatus
<1>4. \A p \in Payments : p \notin lost => LedgerStatus'[p] = LedgerStatus[p]
  BY <1>2 DEF LedgerStatus
<1>5. LedgerStatus' = [p \in Payments |-> LedgerStatus'[p]]
  BY DEF LedgerStatus
<1>6. Ledger!GiveUp(lost)
  BY <1>1, <1>2, <1>3, <1>4, <1>5 DEF Ledger!GiveUp, Ledger!Become
<1> QED
  BY <1>6 DEF lost

\* A payment that is posted is live in the ledger.
LEMMA PostPosts ==
  ASSUME IInv, NEW i \in Instances, NEW p \in Payments, PostPayment(i, p)
  PROVE  Ledger!Post(p)
<1>1. fate[p] = "new" /\ fate' = [fate EXCEPT ![p] = "live"] /\ UNCHANGED <<accepted, recorded>>
  BY DEF PostPayment, wireVars
<1>2. LedgerStatus[p] = "new"
  BY <1>1 DEF LedgerStatus
<1>3. Ledger!Become({p}, "live")
  BY <1>1, OneBecomes
<1> QED
  BY <1>1, <1>2, <1>3 DEF Ledger!Post

-----------------------------------------------------------------------------
(* The refinement.                                                         *)

LEMMA InitLedger == Init => PurgedIsIdle /\ Ledger!Init
BY DEF Init, PurgedIsIdle, Ledger!Init, LedgerStatus

LEMMA NextLedger == IInv /\ PurgedIsIdle /\ [Next]_vars => [Ledger!Next]_(Ledger!vars)
<1> SUFFICES ASSUME IInv, PurgedIsIdle, [Next]_vars
             PROVE  Ledger!Next \/ UNCHANGED Ledger!vars
  OBVIOUS
<1>1. ASSUME NEW i \in Instances, NEW p \in Payments, PostPayment(i, p) PROVE Ledger!Next
  BY <1>1, PostPosts DEF Ledger!Next
<1>2. ASSUME NEW i \in Instances, Record(i) PROVE Ledger!Next
  BY <1>2, RecordRecords DEF Ledger!Next
<1>3. ASSUME NEW i \in Instances, Fails(i) PROVE Ledger!Next
  <2>1. Ledger!GiveUp({payment[i]}) /\ {payment[i]} \in SUBSET Payments
    BY <1>3, FailGivesUp
  <2> QED
    BY <2>1 DEF Ledger!Next
<1>4. ASSUME NEW g \in Gateways, NEW p \in Payments, GatewayAccepts(g, p) PROVE Ledger!Next
  BY <1>4, AcceptCharges DEF Ledger!Next
<1>5. ASSUME NEW i \in Instances, PurgeDefault(i) \/ PurgeFallback(i)
      PROVE  Ledger!Next \/ UNCHANGED Ledger!vars
  <2>1. PICK g \in Gateways : DropDatabase(g)
    BY <1>5 DEF PurgeDefault, PurgeFallback, Gateways
  <2>2. UNCHANGED accepted
    BY <1>5 DEF PurgeDefault, PurgeFallback, wireVars
  <2> QED
    BY <2>1, <2>2, DropErases DEF Ledger!Next
<1>6. ASSUME NEW i \in Instances, PurgeQueue(i) PROVE Ledger!Next
  <2>1. Ledger!Cancel(pending[i]) /\ pending[i] \in SUBSET Payments
    BY <1>6, PurgeQueueCancels DEF IInv, TypeOK
  <2> QED
    BY <2>1 DEF Ledger!Next
<1>7. CASE UNCHANGED <<fate, accepted, recorded>>
  BY <1>7, SameStatus DEF Ledger!vars
<1>8. ASSUME NEW i \in Instances, Work(i) PROVE Record(i) \/ UNCHANGED <<fate, accepted, recorded>>
  BY <1>8 DEF Work, Dequeue, GetGateway, Send, ReadOk, ReadRefusal, wireVars
<1>9. ASSUME Environment
      PROVE  \/ \E g \in Gateways, p \in Payments : GatewayAccepts(g, p)
             \/ UNCHANGED <<fate, accepted, recorded>>
  BY <1>9 DEF Environment, GatewayRefuses, ChooserStores, wireVars
<1>10. CASE UNCHANGED vars
  BY <1>10, <1>7 DEF vars, wireVars
<1>11. ASSUME NEW i \in Instances, PurgeThrows(i) PROVE UNCHANGED <<fate, accepted, recorded>>
  BY <1>11 DEF PurgeThrows, wireVars
<1>12. ASSUME NEW i \in Instances, ProcessEnds(i) PROVE Ledger!Next
  <2> DEFINE lost == (pending[i] \cup {payment[i]}) \ {None}
  <2>1. Ledger!GiveUp(lost)
    BY <1>12, EndGivesUp
  <2>2. lost \in SUBSET Payments
    BY DEF IInv, TypeOK
  <2> HIDE DEF lost
  <2> QED
    BY <2>1, <2>2 DEF Ledger!Next
<1> QED
  BY <1>1, <1>2, <1>3, <1>4, <1>5, <1>6, <1>7, <1>8, <1>9, <1>10, <1>11, <1>12 DEF Next, Processor, Purge

\* A payment that a purge has removed is in no gateway's hands: it is not
\* charged after the purge (PendingPaymentsQueue::purge, PaymentRepository::purge).
THEOREM PurgedIsIdleTheorem == Spec => []PurgedIsIdle
  BY InitLedger, PurgedIsIdleNext, Invariance, PTL DEF Spec

\* PaymentFlow implements PaymentLedger: each step of the instances, the
\* gateways and the purges is one step of the ledger, or none.
THEOREM ImplementsLedgerTheorem == Spec => ImplementsLedger
  BY InitLedger, NextLedger, Invariance, PurgedIsIdleTheorem, PTL
     DEF Spec, ImplementsLedger, Ledger!Spec

=============================================================================

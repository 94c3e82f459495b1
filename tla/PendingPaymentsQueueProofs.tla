--------------------- MODULE PendingPaymentsQueueProofs ---------------------
(***************************************************************************)
(* Proofs about PendingPaymentsQueue, for any payments and any finite sets *)
(* of producer and consumer threads: its critical sections exclude each    *)
(* other, no wake-up is lost, and it implements PaymentQueue.              *)
(***************************************************************************)
EXTENDS PendingPaymentsQueue, FiniteSetTheorems, TLAPS

LEMMA NextIInv == IInv /\ [Next]_vars => IInv'
<1> SUFFICES ASSUME IInv, [Next]_vars PROVE IInv'
  OBVIOUS
<1> USE ThreadsAssumption DEF IInv, Places, NeverPopsEmpty, Locked
<1>1. ASSUME NEW t \in Producers, NEW p \in Payments, StartEnqueue(t, p) PROVE IInv'
  BY <1>1 DEF StartEnqueue, Goto
<1>2. ASSUME NEW t \in Producers, LockEnqueue(t) PROVE IInv'
  BY <1>2 DEF LockEnqueue, Lock, Goto
<1>3. ASSUME NEW t \in Producers, Push(t) PROVE IInv'
  BY <1>3 DEF Push, Unlock, Goto
<1>4. ASSUME NEW t \in Producers, Notify(t) PROVE IInv'
  <2>1. CASE Asleep = {} /\ Goto(t, "idle")
    BY <1>4, <2>1 DEF Notify, Goto
  <2>2. ASSUME NEW c \in Asleep, pc' = [pc EXCEPT ![t] = "idle", ![c] = "woken"] PROVE IInv'
    BY <1>4, <2>2 DEF Notify, Asleep
  <2> QED
    BY <1>4, <2>1, <2>2 DEF Notify
<1>5. ASSUME NEW t \in Producers, StartPurge(t) \/ LockPurge(t) PROVE IInv'
  BY <1>5 DEF StartPurge, LockPurge, Lock, Goto
<1>6. ASSUME NEW t \in Producers, Clear(t) PROVE IInv'
  BY <1>6 DEF Clear, Unlock, Goto
<1>7. ASSUME NEW c \in Consumers, Loop(c) \/ LockDequeue(c) \/ LockAgain(c) PROVE IInv'
  BY <1>7 DEF Loop, LockDequeue, LockAgain, Lock, Goto
<1>8. ASSUME NEW c \in Consumers, Test(c) PROVE IInv'
  BY <1>8 DEF Test, Unlock, Goto
<1>9. ASSUME NEW c \in Consumers, LastTest(c) PROVE IInv'
  BY <1>9 DEF LastTest, Unlock, Goto
<1>10. ASSUME NEW c \in Consumers, Pop(c) PROVE IInv'
  BY <1>10 DEF Pop, Unlock, Goto
<1>11. ASSUME NEW c \in Consumers, SpuriousWakeUp(c) \/ TimeOut(c) PROVE IInv'
  BY <1>11 DEF SpuriousWakeUp, TimeOut, Goto
<1>12. CASE Finish \/ UNCHANGED vars
  BY <1>12 DEF Finish, vars
<1> QED
  BY <1>1, <1>2, <1>3, <1>4, <1>5, <1>6, <1>7, <1>8, <1>9, <1>10, <1>11, <1>12
     DEF Next, Producer, Consumer

THEOREM Invariance == Spec => []IInv
<1>1. Init => IInv
  BY DEF Init, IInv, Places, NeverPopsEmpty, Locked
<1> QED
  BY <1>1, NextIInv, PTL DEF Spec

-----------------------------------------------------------------------------
(* Types.  That no payment is in the queue twice needs where payments are  *)
(* before they are pushed.                                                 *)

\* The producers that have a payment which is not in the queue yet.
Carrying == {t \in Producers : pc[t] \in {"enqueue", "push"}}

InQueue(p) == \E i \in 1..Len(queue) : queue[i] = p

Distinct == \A i, j \in 1..Len(queue) : queue[i] = queue[j] => i = j

\* A payment is unposted, carried by one producer, or in the queue once, or in
\* none of these places any more.
OnePlace ==
  /\ Distinct
  /\ \A i \in 1..Len(queue) : queue[i] \notin unposted
  /\ \A t \in Carrying : toPush[t] \notin unposted /\ ~InQueue(toPush[t])
  /\ \A t, u \in Carrying : toPush[t] = toPush[u] => t = u

Types ==
  /\ mutex \in Producers \cup Consumers \cup {Nobody}
  /\ queue \in Seq(Payments)
  /\ \A t \in Producers : pc[t] \in {"idle", "enqueue", "push", "notify", "purge", "clear"}
  /\ \A c \in Consumers : pc[c] \in {"loop", "dequeue", "test", "asleep", "woken", "timedOut",
                                     "lastTest", "pop", "stopped"}
  /\ unposted \subseteq Payments
  /\ delivered \in [Consumers -> Seq(Payments)]
  /\ nothing \subseteq Consumers
  /\ finish \in BOOLEAN

LEMMA NextTypes == IInv /\ Types /\ [Next]_vars => Types'
<1> SUFFICES ASSUME IInv, Types, [Next]_vars PROVE Types'
  OBVIOUS
<1> USE ThreadsAssumption DEF Types, IInv, Places
<1>1. ASSUME NEW t \in Producers, NEW p \in Payments, StartEnqueue(t, p) PROVE Types'
  BY <1>1 DEF StartEnqueue, Goto
<1>2. ASSUME NEW t \in Producers, LockEnqueue(t) \/ LockPurge(t) \/ StartPurge(t) PROVE Types'
  BY <1>2 DEF LockEnqueue, LockPurge, StartPurge, Lock, Goto
<1>3. ASSUME NEW t \in Producers, Push(t) PROVE Types'
  <2>1. queue' \in Seq(Payments)
    BY <1>3 DEF Push
  <2> QED
    BY <1>3, <2>1 DEF Push, Unlock, Goto
<1>4. ASSUME NEW t \in Producers, Notify(t) PROVE Types'
  <2>1. CASE Goto(t, "idle")
    BY <1>4, <2>1 DEF Notify, Goto
  <2>2. ASSUME NEW c \in Asleep, pc' = [pc EXCEPT ![t] = "idle", ![c] = "woken"] PROVE Types'
    BY <1>4, <2>2 DEF Notify, Asleep
  <2> QED
    BY <1>4, <2>1, <2>2 DEF Notify
<1>5. ASSUME NEW t \in Producers, Clear(t) PROVE Types'
  BY <1>5 DEF Clear, Unlock, Goto
<1>6. ASSUME NEW c \in Consumers, Loop(c) \/ LockDequeue(c) \/ LockAgain(c) PROVE Types'
  BY <1>6 DEF Loop, LockDequeue, LockAgain, Lock, Goto
<1>7. ASSUME NEW c \in Consumers, Test(c) \/ SpuriousWakeUp(c) \/ TimeOut(c) PROVE Types'
  BY <1>7 DEF Test, SpuriousWakeUp, TimeOut, Unlock, Goto
<1>8. ASSUME NEW c \in Consumers, LastTest(c) PROVE Types'
  BY <1>8 DEF LastTest, Unlock, Goto
<1>9. ASSUME NEW c \in Consumers, Pop(c) PROVE Types'
  <2>1. queue' \in Seq(Payments) /\ delivered' \in [Consumers -> Seq(Payments)]
    BY <1>9 DEF Pop
  <2> QED
    BY <1>9, <2>1 DEF Pop, Unlock, Goto
<1>10. CASE Finish \/ UNCHANGED vars
  BY <1>10 DEF Finish, vars
<1> QED
  BY <1>1, <1>2, <1>3, <1>4, <1>5, <1>6, <1>7, <1>8, <1>9, <1>10 DEF Next, Producer, Consumer

LEMMA NextOnePlace == IInv /\ Types /\ OnePlace /\ [Next]_vars => OnePlace'
<1> SUFFICES ASSUME IInv, Types, OnePlace, [Next]_vars PROVE OnePlace'
  OBVIOUS
<1> USE ThreadsAssumption DEF OnePlace, Distinct, InQueue, Carrying
<1>0. /\ pc \in [Producers \cup Consumers -> Places] /\ toPush \in [Producers -> Payments \cup {Nobody}]
      /\ queue \in Seq(Payments) /\ unposted \subseteq Payments
      /\ \A c \in Consumers : pc[c] \notin {"enqueue", "push"}
      /\ Producers \cap Consumers = {}
  BY DEF IInv, Types, Places
<1>1. ASSUME NEW t \in Producers, NEW p \in Payments, StartEnqueue(t, p) PROVE OnePlace'
  BY <1>0, <1>1 DEF StartEnqueue, Goto
<1>2. ASSUME NEW t \in Producers, LockEnqueue(t) \/ LockPurge(t) \/ StartPurge(t) PROVE OnePlace'
  BY <1>0, <1>2 DEF LockEnqueue, LockPurge, StartPurge, Lock, Goto
<1>3. ASSUME NEW t \in Producers, Push(t) PROVE OnePlace'
  <2>1. /\ toPush[t] \in Payments /\ toPush[t] \notin unposted /\ ~InQueue(toPush[t])
    BY <1>0, <1>3 DEF IInv, Push
  <2>2. /\ Len(queue') = Len(queue) + 1
        /\ \A i \in 1..Len(queue) : queue'[i] = queue[i]
        /\ queue'[Len(queue) + 1] = toPush[t]
    BY <1>0, <1>3, <2>1 DEF Push
  <2>3. Carrying' = Carrying \ {t} /\ t \in Carrying
    BY <1>0, <1>3 DEF Push, Goto
  <2>4. toPush' = toPush /\ unposted' = unposted
    BY <1>3 DEF Push
  <2> HIDE DEF Carrying
  <2>5. \A u \in Carrying' : ~InQueue(toPush[u])'
    BY <1>0, <2>2, <2>3, <2>4
  <2> QED
    BY <1>0, <2>1, <2>2, <2>3, <2>4, <2>5
<1>4. ASSUME NEW t \in Producers, Notify(t) PROVE OnePlace'
  <2>1. Carrying' = Carrying
    <3>1. CASE Goto(t, "idle")
      BY <1>0, <1>4, <3>1 DEF Notify, Goto
    <3>2. ASSUME NEW c \in Asleep, pc' = [pc EXCEPT ![t] = "idle", ![c] = "woken"]
          PROVE  Carrying' = Carrying
      BY <1>0, <1>4, <3>2 DEF Notify, Asleep
    <3> QED
      BY <1>4, <3>1, <3>2 DEF Notify
  <2> HIDE DEF Carrying
  <2> QED
    BY <1>4, <2>1 DEF Notify
<1>5. ASSUME NEW t \in Producers, Clear(t) PROVE OnePlace'
  BY <1>0, <1>5 DEF Clear, Unlock, Goto
<1>6. ASSUME NEW c \in Consumers,
             \/ Loop(c) \/ LockDequeue(c) \/ LockAgain(c) \/ Test(c) \/ LastTest(c)
             \/ SpuriousWakeUp(c) \/ TimeOut(c)
      PROVE  OnePlace'
  <2>1. Carrying' = Carrying
    BY <1>0, <1>6 DEF Loop, LockDequeue, LockAgain, Test, LastTest, SpuriousWakeUp, TimeOut, Lock, Goto
  <2> HIDE DEF Carrying
  <2> QED
    BY <1>6, <2>1 DEF Loop, LockDequeue, LockAgain, Test, LastTest, SpuriousWakeUp, TimeOut
<1>7. ASSUME NEW c \in Consumers, Pop(c) PROVE OnePlace'
  <2>1. Carrying' = Carrying
    BY <1>0, <1>7 DEF Pop, Goto
  <2>2. /\ Len(queue') = Len(queue) - 1 /\ Len(queue) \in Nat
        /\ \A i \in 1..Len(queue') : queue'[i] = queue[i + 1]
    BY <1>0, <1>7 DEF Pop
  <2>3. toPush' = toPush /\ unposted' = unposted
    BY <1>7 DEF Pop
  <2> HIDE DEF Carrying
  <2> QED
    BY <1>0, <2>1, <2>2, <2>3
<1>8. CASE Finish \/ UNCHANGED vars
  BY <1>8 DEF Finish, vars
<1> QED
  BY <1>1, <1>2, <1>3, <1>4, <1>5, <1>6, <1>7, <1>8 DEF Next, Producer, Consumer

LEMMA TypesInvariance == Spec => [](Types /\ OnePlace)
<1>1. Init => Types /\ OnePlace
  <2>1. Init => Types
    <3> SUFFICES ASSUME Init PROVE Types
      OBVIOUS
    <3>1. <<>> \in Seq(Payments)
      OBVIOUS
    <3>2. /\ \A t \in Producers : pc[t] = "idle"
          /\ \A c \in Consumers : pc[c] = "loop"
      BY ThreadsAssumption DEF Init
    <3>3. queue \in Seq(Payments) /\ delivered \in [Consumers -> Seq(Payments)]
      BY <3>1 DEF Init
    <3> QED
      BY <3>2, <3>3 DEF Init, Types
  <2>2. Init => Carrying = {}
    BY ThreadsAssumption DEF Init, Carrying
  <2>3. Init => Len(queue) = 0
    BY DEF Init
  <2> HIDE DEF Carrying
  <2> QED
    BY <2>1, <2>2, <2>3 DEF OnePlace, Distinct, InQueue
<1> QED
  BY <1>1, NextTypes, NextOnePlace, Invariance, PTL DEF Spec

\* The state of the queue is well formed; no payment is in it twice.
THEOREM Typing == Spec => []TypeOK
<1>1. IInv /\ Types /\ OnePlace => TypeOK
  <2>1. IInv /\ Types /\ OnePlace => IsInjective(queue)
    BY DEF Types, OnePlace, Distinct, IsInjective
  <2> QED
    BY <2>1 DEF IInv, Types, TypeOK
<1> QED
  BY <1>1, TypesInvariance, Invariance, PTL

-----------------------------------------------------------------------------
\* dequeue never pops an empty queue: its assertion holds.
THEOREM NeverPopsEmptyTheorem == Spec => []NeverPopsEmpty
<1>1. IInv => NeverPopsEmpty
  BY DEF IInv
<1> QED
  BY <1>1, Invariance, PTL

-----------------------------------------------------------------------------
(* Wake-ups.  Counting who is about to notify and who is about to look is an  *)
(* inductive argument of its own: each push adds a payment and a notifier,   *)
(* each notification turns the notifier into one who looks, and one who pops *)
(* takes a payment away.  It needs that there are finitely many threads.     *)

\* The producers that are about to notify, and the consumers that will look at
\* the queue before they sleep.
Notifying == {t \in Producers : pc[t] = "notify"}
Looking   == {c \in Consumers : pc[c] \notin {"asleep", "loop", "stopped"}}

\* The sizes of the two sets are numbers, now and after the step.
LEMMA Counts ==
  /\ IsFiniteSet(Notifying) /\ Cardinality(Notifying) \in Nat
  /\ IsFiniteSet(Looking) /\ Cardinality(Looking) \in Nat
  /\ IsFiniteSet(Notifying') /\ Cardinality(Notifying') \in Nat
  /\ IsFiniteSet(Looking') /\ Cardinality(Looking') \in Nat
<1>1. \A S : S \in SUBSET Producers \/ S \in SUBSET Consumers =>
               IsFiniteSet(S) /\ Cardinality(S) \in Nat
  BY FiniteAssumption, FS_Subset, FS_CardinalityType
<1>2. /\ Notifying \in SUBSET Producers /\ Notifying' \in SUBSET Producers
      /\ Looking \in SUBSET Consumers /\ Looking' \in SUBSET Consumers
  BY DEF Notifying, Looking
<1> QED
  BY <1>1, <1>2

LEMMA NextNoLostWakeUp == IInv /\ Types /\ NoLostWakeUp /\ [Next]_vars => NoLostWakeUp'
<1> SUFFICES ASSUME IInv, Types, NoLostWakeUp, [Next]_vars, Asleep' # {}
             PROVE  Len(queue') <= Cardinality(Notifying') + Cardinality(Looking')
  BY DEF NoLostWakeUp, Notifying, Looking
<1> DEFINE Goal == Len(queue') <= Cardinality(Notifying') + Cardinality(Looking')
<1>1. Asleep # {} => Len(queue) <= Cardinality(Notifying) + Cardinality(Looking)
  BY DEF NoLostWakeUp, Notifying, Looking
<1>2. Len(queue) \in Nat
  BY DEF Types
<1>3. ASSUME Len(queue') = 0 PROVE Goal
  BY <1>3, Counts
<1>4. ASSUME Asleep' \subseteq Asleep, queue' = queue, Notifying' = Notifying, Looking \subseteq Looking'
      PROVE  Goal
  <2>1. Cardinality(Looking) <= Cardinality(Looking')
    BY <1>4, Counts, FS_Subset
  <2> QED
    BY <1>1, <1>2, <1>4, <2>1, Counts
<1> USE ThreadsAssumption DEF IInv, Places
<1>5. ASSUME NEW t \in Producers, Push(t) PROVE Goal
  <2>1. Asleep' = Asleep /\ Looking' = Looking
    BY <1>5 DEF Push, Goto, Asleep, Looking
  <2>2. t \notin Notifying /\ Notifying' = Notifying \cup {t}
    BY <1>5 DEF Push, Goto, Notifying
  <2>3. Cardinality(Notifying') = Cardinality(Notifying) + 1
    BY <2>2, Counts, FS_AddElement
  <2>4. Len(queue') = Len(queue) + 1
    BY <1>5 DEF Push, Types
  <2> QED
    BY <1>1, <1>2, <2>1, <2>3, <2>4, Counts
<1>6. ASSUME NEW t \in Producers, NEW c \in Asleep, queue' = queue, pc[t] = "notify",
             pc' = [pc EXCEPT ![t] = "idle", ![c] = "woken"]
      PROVE  Goal
  <2>1. t \in Notifying /\ Notifying' = Notifying \ {t}
    BY <1>6 DEF Notifying, Asleep
  <2>2. c \notin Looking /\ Looking' = Looking \cup {c}
    BY <1>6 DEF Looking, Asleep
  <2>3. /\ Cardinality(Notifying') = Cardinality(Notifying) - 1
        /\ Cardinality(Looking') = Cardinality(Looking) + 1
    BY <2>1, <2>2, Counts, FS_AddElement, FS_RemoveElement
  <2> QED
    BY <1>1, <1>2, <1>6, <2>3, Counts
<1>7. ASSUME NEW t \in Producers, Notify(t) PROVE Goal
  <2>1. Asleep = {} /\ Goto(t, "idle") => Asleep' = {}
    BY <1>7 DEF Notify, Goto, Asleep
  <2> QED
    BY <1>6, <1>7, <2>1 DEF Notify
<1>8. ASSUME NEW c \in Consumers, Pop(c) PROVE Goal
  <2>1. Asleep' = Asleep /\ Notifying' = Notifying
    BY <1>8 DEF Pop, Goto, Asleep, Notifying
  <2>2. c \in Looking /\ Looking' = Looking \ {c}
    BY <1>8 DEF Pop, Goto, Looking
  <2>3. Cardinality(Looking') = Cardinality(Looking) - 1
    BY <2>2, Counts, FS_RemoveElement
  <2>4. Len(queue') = Len(queue) - 1
    BY <1>8 DEF Pop, Types
  <2> QED
    BY <1>1, <1>2, <2>1, <2>3, <2>4, Counts
<1>9. ASSUME NEW t \in Producers,
             \/ \E p \in Payments : StartEnqueue(t, p)
             \/ LockEnqueue(t) \/ StartPurge(t) \/ LockPurge(t)
      PROVE  Goal
  <2>1. Asleep' \subseteq Asleep /\ queue' = queue /\ Notifying' = Notifying /\ Looking \subseteq Looking'
    BY <1>9 DEF StartEnqueue, LockEnqueue, StartPurge, LockPurge, Lock, Goto, Asleep, Notifying, Looking
  <2> QED
    BY <1>4, <2>1
<1>10. ASSUME NEW t \in Producers, Clear(t) PROVE Goal
  BY <1>3, <1>10 DEF Clear
<1>11. ASSUME NEW c \in Consumers,
              \/ Loop(c) \/ LockDequeue(c) \/ LockAgain(c) \/ SpuriousWakeUp(c) \/ TimeOut(c)
              \/ Test(c) /\ queue # <<>>
              \/ LastTest(c) /\ queue # <<>>
       PROVE  Goal
  <2>1. Asleep' \subseteq Asleep /\ queue' = queue /\ Notifying' = Notifying /\ Looking \subseteq Looking'
    BY <1>11 DEF Loop, LockDequeue, LockAgain, SpuriousWakeUp, TimeOut, Test, LastTest, Lock, Goto,
                 Asleep, Notifying, Looking
  <2> QED
    BY <1>4, <2>1
<1>12. ASSUME NEW c \in Consumers, Test(c) \/ LastTest(c), queue = <<>> PROVE Goal
  BY <1>3, <1>12 DEF Test, LastTest
<1>13. CASE Finish \/ UNCHANGED vars
  BY <1>4, <1>13 DEF Finish, vars, Asleep, Notifying, Looking
<1> QED
  BY <1>5, <1>7, <1>8, <1>9, <1>10, <1>11, <1>12, <1>13 DEF Next, Producer, Consumer

\* No wake-up is lost: while a consumer sleeps, every payment in the queue has
\* a producer that will notify or a consumer that will look.
THEOREM NoLostWakeUpTheorem == Spec => []NoLostWakeUp
<1>1. Init => NoLostWakeUp
  BY ThreadsAssumption DEF Init, NoLostWakeUp, Asleep
<1> QED
  BY <1>1, NextNoLostWakeUp, Invariance, TypesInvariance, PTL DEF Spec

-----------------------------------------------------------------------------
(* Refinement.                                                             *)

\* Every step of the queue with its mutex and condition variable is a step of
\* PaymentQueue, or changes nothing that its callers see.
THEOREM Refinement == Spec => ImplementsQueue
<1>1. Init => Abstract!Init
  BY DEF Init, Abstract!Init
<1>2. IInv /\ [Next]_vars => [Abstract!Next]_Abstract!absVars
  <2> SUFFICES ASSUME IInv, Next PROVE Abstract!Next \/ UNCHANGED Abstract!absVars
    BY DEF vars, Abstract!absVars
  <2> USE DEF Abstract!Next, Abstract!absVars
  <2>1. ASSUME NEW t \in Producers, NEW p \in Payments, StartEnqueue(t, p)
        PROVE  UNCHANGED Abstract!absVars
    BY <2>1 DEF StartEnqueue
  <2>2. ASSUME NEW t \in Producers, LockEnqueue(t) \/ Notify(t) \/ StartPurge(t) \/ LockPurge(t)
        PROVE  UNCHANGED Abstract!absVars
    BY <2>2 DEF LockEnqueue, Notify, StartPurge, LockPurge
  <2>3. ASSUME NEW t \in Producers, Push(t) PROVE Abstract!Next
    BY <2>3 DEF Push, Abstract!Enqueue, IInv
  <2>4. ASSUME NEW t \in Producers, Clear(t) PROVE Abstract!Next
    BY <2>4 DEF Clear, Abstract!Purge
  <2>5. ASSUME NEW c \in Consumers, Loop(c) \/ LockDequeue(c) \/ Test(c) \/ LockAgain(c)
        PROVE  UNCHANGED Abstract!absVars
    BY <2>5 DEF Loop, LockDequeue, Test, LockAgain
  <2>6. ASSUME NEW c \in Consumers, LastTest(c)
        PROVE  Abstract!Next \/ UNCHANGED Abstract!absVars
    BY <2>6 DEF LastTest, Abstract!DequeueNothing
  <2>7. ASSUME NEW c \in Consumers, Pop(c) PROVE Abstract!Next
    BY <2>7 DEF Pop, Abstract!Dequeue
  <2>8. ASSUME NEW c \in Consumers, SpuriousWakeUp(c) \/ TimeOut(c)
        PROVE  UNCHANGED Abstract!absVars
    BY <2>8 DEF SpuriousWakeUp, TimeOut
  <2>9. CASE Finish
    BY <2>9 DEF Finish, Abstract!Finish
  <2> QED
    BY <2>1, <2>2, <2>3, <2>4, <2>5, <2>6, <2>7, <2>8, <2>9 DEF Next, Producer, Consumer
<1> QED
  BY <1>1, <1>2, Invariance, PTL DEF Spec, ImplementsQueue, Abstract!Spec

=============================================================================

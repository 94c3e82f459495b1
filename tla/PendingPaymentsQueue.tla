------------------------ MODULE PendingPaymentsQueue ------------------------
(***************************************************************************)
(* PendingPaymentsQueue step by step: a queue under a mutex and a          *)
(* condition variable.  Request handlers enqueue and purge; the consumers  *)
(* are processor threads, one in the boost, boost-ipc and drogon variants, *)
(* Config::processorWorkers of them in the haproxy variant.                *)
(*                                                                         *)
(* enqueue notifies one waiter after it has released the mutex.  dequeue   *)
(* waits with wait_for, a timeout and a predicate: a waiter that is        *)
(* notified, wakes spuriously or runs out of time takes the mutex again    *)
(* and looks at the queue once more.                                       *)
(***************************************************************************)
EXTENDS Naturals, FiniteSets, SequencesExt

CONSTANTS Payments,   \* the payments, each enqueued once
          Producers,  \* threads that run enqueue and purge
          Consumers,  \* threads that run dequeue, in PaymentProcessor::handler
          Nobody,     \* the mutex is free
          Finishes    \* may a signal ask the program to finish? (only haproxy installs it)

ASSUME ThreadsAssumption == Nobody \notin Producers \cup Consumers
                            /\ Producers \cap Consumers = {}
ASSUME FiniteAssumption == IsFiniteSet(Producers) /\ IsFiniteSet(Consumers)
ASSUME FinishesAssumption == Finishes \in BOOLEAN

VARIABLES
  mutex,      \* who holds it
  queue,
  pc,         \* pc[t]: where thread t is
  toPush,     \* toPush[t]: what producer t is enqueueing
  unposted,   \* payments no producer has taken up yet
  delivered,  \* delivered[c]: what consumer c got (history)
  nothing,    \* consumers that got std::nullopt (history)
  finish      \* SignalHandling::finish

vars == <<mutex, queue, pc, toPush, unposted, delivered, nothing, finish>>

Init ==
  /\ mutex = Nobody
  /\ queue = <<>>
  /\ pc = [t \in Producers \cup Consumers |-> IF t \in Producers THEN "idle" ELSE "loop"]
  /\ toPush = [t \in Producers |-> Nobody]
  /\ unposted = Payments
  /\ delivered = [c \in Consumers |-> <<>>]
  /\ nothing = {}
  /\ finish = FALSE

Goto(t, where) == pc' = [pc EXCEPT ![t] = where]

\* Steps that take and that release the mutex.
Lock(t, from, to) ==
  /\ pc[t] = from /\ mutex = Nobody
  /\ mutex' = t
  /\ Goto(t, to)

Unlock(t) == mutex' = Nobody

-----------------------------------------------------------------------------
(* enqueue                                                                 *)

StartEnqueue(t, p) ==
  /\ pc[t] = "idle" /\ p \in unposted
  /\ unposted' = unposted \ {p}
  /\ toPush' = [toPush EXCEPT ![t] = p]
  /\ Goto(t, "enqueue")
  /\ UNCHANGED <<mutex, queue, delivered, nothing, finish>>

LockEnqueue(t) ==
  /\ Lock(t, "enqueue", "push")
  /\ UNCHANGED <<queue, toPush, unposted, delivered, nothing, finish>>

\* Mutant: a waiter is only notified when the queue was empty.
Push_NotifyIfEmpty(t) ==
  /\ pc[t] = "push"
  /\ queue' = Append(queue, toPush[t])
  /\ Unlock(t)
  /\ Goto(t, IF queue = <<>> THEN "notify" ELSE "idle")
  /\ UNCHANGED <<toPush, unposted, delivered, nothing, finish>>

Push(t) ==
  /\ pc[t] = "push"
  /\ queue' = Append(queue, toPush[t])
  /\ Unlock(t)
  /\ Goto(t, "notify")
  /\ UNCHANGED <<toPush, unposted, delivered, nothing, finish>>

Asleep == {c \in Consumers : pc[c] = "asleep"}

\* Mutant: nobody is notified.
Notify_Nobody(t) ==
  /\ pc[t] = "notify"
  /\ Goto(t, "idle")
  /\ UNCHANGED <<mutex, queue, toPush, unposted, delivered, nothing, finish>>

\* notify_one wakes one of the waiters, if there are any.
Notify(t) ==
  /\ pc[t] = "notify"
  /\ \/ Asleep = {} /\ Goto(t, "idle")
     \/ \E c \in Asleep : pc' = [pc EXCEPT ![t] = "idle", ![c] = "woken"]
  /\ UNCHANGED <<mutex, queue, toPush, unposted, delivered, nothing, finish>>

-----------------------------------------------------------------------------
(* purge                                                                   *)

StartPurge(t) ==
  /\ pc[t] = "idle"
  /\ Goto(t, "purge")
  /\ UNCHANGED <<mutex, queue, toPush, unposted, delivered, nothing, finish>>

\* Mutant: purge does not take the mutex.
LockPurge_NoLock(t) ==
  /\ pc[t] = "purge"
  /\ Goto(t, "clear")
  /\ UNCHANGED <<mutex, queue, toPush, unposted, delivered, nothing, finish>>

LockPurge(t) ==
  /\ Lock(t, "purge", "clear")
  /\ UNCHANGED <<queue, toPush, unposted, delivered, nothing, finish>>

Clear(t) ==
  /\ pc[t] = "clear"
  /\ queue' = <<>>
  /\ Unlock(t)
  /\ Goto(t, "idle")
  /\ UNCHANGED <<toPush, unposted, delivered, nothing, finish>>

-----------------------------------------------------------------------------
(* dequeue, in the loop of PaymentProcessor::handler                       *)

\* while (!shouldFinish()): the next round, or the end of the thread.
Loop(c) ==
  /\ pc[c] = "loop"
  /\ Goto(c, IF finish THEN "stopped" ELSE "dequeue")
  /\ UNCHANGED <<mutex, queue, toPush, unposted, delivered, nothing, finish>>

LockDequeue(c) ==
  /\ Lock(c, "dequeue", "test")
  /\ UNCHANGED <<queue, toPush, unposted, delivered, nothing, finish>>

\* The predicate; if it does not hold, wait, which releases the mutex.
Test(c) ==
  /\ pc[c] = "test"
  /\ IF queue # <<>>
     THEN Goto(c, "pop") /\ UNCHANGED mutex
     ELSE Goto(c, "asleep") /\ Unlock(c)
  /\ UNCHANGED <<queue, toPush, unposted, delivered, nothing, finish>>

SpuriousWakeUp(c) ==
  /\ pc[c] = "asleep"
  /\ Goto(c, "woken")
  /\ UNCHANGED <<mutex, queue, toPush, unposted, delivered, nothing, finish>>

\* WAIT_TIME is over.
TimeOut(c) ==
  /\ pc[c] = "asleep"
  /\ Goto(c, "timedOut")
  /\ UNCHANGED <<mutex, queue, toPush, unposted, delivered, nothing, finish>>

LockAgain(c) ==
  /\ \/ Lock(c, "woken", "test")
     \/ Lock(c, "timedOut", "lastTest")
  /\ UNCHANGED <<queue, toPush, unposted, delivered, nothing, finish>>

\* Mutant: wait_for without the predicate: a timeout is a timeout.
LastTest_TimedOut(c) ==
  /\ pc[c] = "lastTest"
  /\ IF finish
     THEN /\ nothing' = nothing \cup {c}
          /\ Goto(c, "loop")
     ELSE Goto(c, "dequeue") /\ UNCHANGED nothing
  /\ Unlock(c)
  /\ UNCHANGED <<queue, toPush, unposted, delivered, finish>>

\* After a timeout the predicate decides: pop, give up, or start all over.
LastTest(c) ==
  /\ pc[c] = "lastTest"
  /\ \/ /\ queue # <<>>
        /\ Goto(c, "pop")
        /\ UNCHANGED <<mutex, nothing>>
     \/ /\ queue = <<>> /\ finish
        /\ nothing' = nothing \cup {c}
        /\ Goto(c, "loop")
        /\ Unlock(c)
     \/ /\ queue = <<>> /\ ~finish
        /\ Goto(c, "dequeue")
        /\ Unlock(c)
        /\ UNCHANGED nothing
  /\ UNCHANGED <<queue, toPush, unposted, delivered, finish>>

Pop(c) ==
  /\ pc[c] = "pop" /\ queue # <<>>
  /\ delivered' = [delivered EXCEPT ![c] = Append(@, Head(queue))]
  /\ queue' = Tail(queue)
  /\ Unlock(c)
  /\ Goto(c, "loop")
  /\ UNCHANGED <<toPush, unposted, nothing, finish>>

-----------------------------------------------------------------------------
\* SIGINT or SIGTERM (SignalHandling::handler).
Finish ==
  /\ Finishes /\ ~finish
  /\ finish' = TRUE
  /\ UNCHANGED <<mutex, queue, pc, toPush, unposted, delivered, nothing>>

Producer(t) ==
  \/ \E p \in Payments : StartEnqueue(t, p)
  \/ LockEnqueue(t) \/ Push(t) \/ Notify(t)
  \/ StartPurge(t) \/ LockPurge(t) \/ Clear(t)

\* What a consumer does by itself, without timeouts and spurious wake-ups.
Consumer(c) ==
  \/ Loop(c) \/ LockDequeue(c) \/ Test(c) \/ LockAgain(c) \/ LastTest(c) \/ Pop(c)

Next ==
  \/ \E t \in Producers : Producer(t)
  \/ \E c \in Consumers : Consumer(c) \/ SpuriousWakeUp(c) \/ TimeOut(c)
  \/ Finish

Spec == Init /\ [][Next]_vars

\* Threads go on with what they have begun, and get a mutex that is free over
\* and over.  Nothing is assumed of timeouts: wake-ups must come from notify.
Fairness ==
  /\ \A t \in Producers : SF_vars(LockEnqueue(t) \/ Push(t) \/ Notify(t) \/ LockPurge(t) \/ Clear(t))
  /\ \A c \in Consumers : SF_vars(Consumer(c))

FairSpec == Spec /\ Fairness

-----------------------------------------------------------------------------
(* Properties.                                                             *)

TypeOK ==
  /\ mutex \in Producers \cup Consumers \cup {Nobody}
  /\ queue \in Seq(Payments) /\ IsInjective(queue)
  /\ \A t \in Producers : pc[t] \in {"idle", "enqueue", "push", "notify", "purge", "clear"}
  /\ \A c \in Consumers : pc[c] \in {"loop", "dequeue", "test", "asleep", "woken", "timedOut",
                                     "lastTest", "pop", "stopped"}
  /\ toPush \in [Producers -> Payments \cup {Nobody}]
  /\ unposted \subseteq Payments
  /\ delivered \in [Consumers -> Seq(Payments)]
  /\ nothing \subseteq Consumers
  /\ finish \in BOOLEAN

\* The assertion in dequeue: after wait_for has returned true there is a
\* payment to pop, although other consumers and purges run all the time.
NeverPopsEmpty == \A c \in Consumers : pc[c] = "pop" => queue # <<>>

\* No wake-up is lost: as long as a consumer sleeps, every payment in the queue
\* has a producer that is about to notify or a consumer that is about to look.
\* Notifying after the mutex is released, and only one waiter, is enough.
NoLostWakeUp ==
  Asleep # {} =>
    Len(queue) <= Cardinality({t \in Producers : pc[t] = "notify"})
                  + Cardinality({c \in Consumers : pc[c] \notin {"asleep", "loop", "stopped"}})

\* The queue does what PaymentQueue promises.
Abstract == INSTANCE PaymentQueue WITH
              Payments <- Payments, Consumers <- Consumers, queue <- queue,
              delivered <- delivered, nothing <- nothing, finish <- finish

ImplementsQueue == Abstract!Spec

\* A payment in the queue leaves it, to a consumer or by a purge, without any
\* help from timeouts, unless the program is told to finish.
EveryPaymentLeaves ==
  \A p \in Payments : Contains(queue, p) ~> (~Contains(queue, p) \/ finish)

-----------------------------------------------------------------------------
(* The inductive invariant of PendingPaymentsQueueProofs.                  *)

Places == {"idle", "enqueue", "push", "notify", "purge", "clear", "loop", "dequeue", "test",
           "asleep", "woken", "timedOut", "lastTest", "pop", "stopped"}

\* The steps that are taken with the mutex held.
Locked == {"push", "clear", "test", "lastTest", "pop"}

\* Those in a locked section hold the mutex, hence are alone in it: nothing can
\* empty the queue between the test and the pop.
IInv ==
  /\ pc \in [Producers \cup Consumers -> Places]
  /\ \A t \in Producers \cup Consumers : pc[t] \in Locked => mutex = t
  /\ toPush \in [Producers -> Payments \cup {Nobody}]
  /\ \A t \in Producers : pc[t] \in {"enqueue", "push"} => toPush[t] \in Payments
  /\ NeverPopsEmpty

=============================================================================

---------------------------- MODULE PaymentQueue ----------------------------
(***************************************************************************)
(* What PendingPaymentsQueue promises to those who call it: a queue whose  *)
(* operations happen at one instant each.  Payments leave it in the order  *)
(* in which they came and each to one consumer, unless a purge removes     *)
(* them; a consumer is told that there is nothing only when the queue is   *)
(* empty and the program is finishing.                                     *)
(***************************************************************************)
EXTENDS Sequences

CONSTANTS Payments, Consumers

VARIABLES queue,     \* the pending payments, oldest first
          delivered, \* delivered[c]: what consumer c has been given so far
          nothing,   \* the consumers that were told there is nothing
          finish     \* SignalHandling::finish

absVars == <<queue, delivered, nothing, finish>>

Init ==
  /\ queue = <<>>
  /\ delivered = [c \in Consumers |-> <<>>]
  /\ nothing = {}
  /\ finish = FALSE

Enqueue(p) ==
  /\ queue' = Append(queue, p)
  /\ UNCHANGED <<delivered, nothing, finish>>

Dequeue(c) ==
  /\ queue # <<>>
  /\ delivered' = [delivered EXCEPT ![c] = Append(@, Head(queue))]
  /\ queue' = Tail(queue)
  /\ UNCHANGED <<nothing, finish>>

DequeueNothing(c) ==
  /\ finish /\ queue = <<>>
  /\ nothing' = nothing \cup {c}
  /\ UNCHANGED <<queue, delivered, finish>>

Purge ==
  /\ queue' = <<>>
  /\ UNCHANGED <<delivered, nothing, finish>>

Finish ==
  /\ finish' = TRUE
  /\ UNCHANGED <<queue, delivered, nothing>>

Next ==
  \/ \E p \in Payments : Enqueue(p)
  \/ \E c \in Consumers : Dequeue(c) \/ DequeueNothing(c)
  \/ Purge
  \/ Finish

Spec == Init /\ [][Next]_absVars
=============================================================================

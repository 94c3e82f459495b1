---------------------------- MODULE ProxyService ----------------------------
(***************************************************************************)
(* What a client sees of the service, whichever proxy and instances stand  *)
(* behind it: a payment is answered ok, before or after it is handed to an *)
(* instance; any other request is answered ok only when an instance has    *)
(* carried it out, and with an error at any time, even after that.  No     *)
(* request is answered twice.  Modules ReverseProxy and DrogonProxy        *)
(* implement it.                                                           *)
(***************************************************************************)
EXTENDS Sequences

CONSTANTS Sessions,  \* the requests of the clients
          Errors     \* the answers that tell of a failure

VARIABLES
  asked,  \* asked[s]: what the client of s has asked for
  got,    \* got[s]: the answers it has got
  done    \* the requests an instance has carried out

vars == <<asked, got, done>>

Init ==
  /\ asked = [s \in Sessions |-> "nothing"]
  /\ got = [s \in Sessions |-> <<>>]
  /\ done = {}

Ask(s) ==
  /\ asked[s] = "nothing"
  /\ \E k \in {"payment", "other"} : asked' = [asked EXCEPT ![s] = k]
  /\ UNCHANGED <<got, done>>

CarryOut(s) ==
  /\ asked[s] # "nothing" /\ s \notin done
  /\ done' = done \cup {s}
  /\ UNCHANGED <<asked, got>>

AnswerOk(s) ==
  /\ asked[s] = "payment" \/ s \in done
  /\ got[s] = <<>>
  /\ got' = [got EXCEPT ![s] = <<"ok">>]
  /\ UNCHANGED <<asked, done>>

AnswerError(s) ==
  /\ asked[s] = "other"
  /\ got[s] = <<>>
  /\ \E e \in Errors : got' = [got EXCEPT ![s] = <<e>>]
  /\ UNCHANGED <<asked, done>>

Next == \E s \in Sessions : Ask(s) \/ CarryOut(s) \/ AnswerOk(s) \/ AnswerError(s)

Spec == Init /\ [][Next]_vars
=============================================================================

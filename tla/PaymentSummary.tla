---------------------------- MODULE PaymentSummary ----------------------------
(***************************************************************************)
(* GET /payments-summary against the database (PaymentService and          *)
(* PaymentRepository, alike in all variants).                              *)
(*                                                                         *)
(* A summary walks a cursor over the payments of the default gateway and   *)
(* then over those of the fallback gateway, in the order of their keys,    *)
(* while processors of both instances record payments and purges drop      *)
(* whole databases.  The key of a payment is the time of its request, a    *)
(* signed number; LMDB compares its bytes, that is, as an unsigned number. *)
(*                                                                         *)
(* The totals of a summary are the number and the sum of the payments it   *)
(* counted; the model keeps the payments themselves.  LMDB is external: a  *)
(* write transaction is one step, and a read transaction sees the database *)
(* as it was when the transaction began.                                   *)
(***************************************************************************)
EXTENDS Integers

CONSTANTS Payments,    \* the payments that get recorded
          RequestedAt, \* RequestedAt[p]: the time of the request of p, its key
          Dates,       \* what clients give as from and to
          Absent,      \* no from, or no to, in the request
          Readers,     \* threads that answer summary requests
          HalfRange,   \* 2^63: a date is in -HalfRange..HalfRange - 1
          MaxWrites    \* bound on the write transactions

ASSUME HalfRangeAssumption == HalfRange \in Nat
ASSUME RequestedAtAssumption == RequestedAt \in [Payments -> 0..(HalfRange - 1)]
ASSUME DatesAssumption ==
  Absent \notin Dates /\ Dates \subseteq (-HalfRange)..(HalfRange - 1)
ASSUME MaxWritesAssumption == MaxWrites \in Nat

Gateways == {"default", "fallback"}
Ranges   == [from : Dates \cup {Absent}, to : Dates \cup {Absent}]
Ledgers  == [Gateways -> SUBSET Payments]

VARIABLES
  db,        \* db[g]: the committed payments of gateway g
  pc,        \* pc[r]: where reader r is
  range,     \* range[r]: the from and to of its request
  snapshot,  \* snapshot[r]: what its transaction sees
  gateway,   \* gateway[r]: the database it walks over
  remaining, \* remaining[r]: the entries ahead of its cursor
  counted,   \* counted[r]: what it has counted so far
  moments,   \* moments[r]: every right answer since the request came (history)
  writes     \* the write transactions so far, up to MaxWrites (history)

readVars == <<pc, range, snapshot, gateway, remaining, counted>>
vars     == <<db, readVars, moments, writes>>

Empty   == [g \in Gateways |-> {}]
NoRange == [from |-> Absent, to |-> Absent]

Init ==
  /\ db = Empty
  /\ pc = [r \in Readers |-> "idle"]
  /\ range = [r \in Readers |-> NoRange]
  /\ snapshot = [r \in Readers |-> Empty]
  /\ gateway = [r \in Readers |-> "default"]
  /\ remaining = [r \in Readers |-> {}]
  /\ counted = [r \in Readers |-> Empty]
  /\ moments = [r \in Readers |-> {}]
  /\ writes = 0

\* The payments of a ledger that a summary should count.
InRange(p, rg) ==
  /\ rg.from # Absent => rg.from <= RequestedAt[p]
  /\ rg.to # Absent => RequestedAt[p] <= rg.to

Answer(ledger, rg) == [g \in Gateways |-> {p \in ledger[g] : InRange(p, rg)}]

-----------------------------------------------------------------------------
(* The writers: PaymentRepository::postPayment and purge.                  *)

Commit(ledger) ==
  /\ writes < MaxWrites
  /\ writes' = writes + 1
  /\ db' = ledger
  /\ moments' = [r \in Readers |->
       IF pc[r] = "idle" THEN {} ELSE moments[r] \cup {Answer(ledger, range[r])}]
  /\ UNCHANGED readVars

\* To put a payment that is there already changes nothing.
PostPayment(g, p) ==
  /\ p \notin db[g]
  /\ Commit([db EXCEPT ![g] = @ \cup {p}])

\* Nor does it to drop nothing.
Purge(g) ==
  /\ db[g] # {}
  /\ Commit([db EXCEPT ![g] = {}])

-----------------------------------------------------------------------------
(* PaymentService::getPaymentsSummary in reader r.                         *)

Goto(r, where) == pc' = [pc EXCEPT ![r] = where]

Request(r, rg) ==
  /\ pc[r] = "idle"
  /\ range' = [range EXCEPT ![r] = rg]
  /\ moments' = [moments EXCEPT ![r] = {Answer(db, rg)}]
  /\ Goto(r, "begin")
  /\ UNCHANGED <<db, snapshot, gateway, remaining, counted, writes>>

BeginTransaction(r) ==
  /\ pc[r] = "begin"
  /\ snapshot' = [snapshot EXCEPT ![r] = db]
  /\ gateway' = [gateway EXCEPT ![r] = "default"]
  /\ counted' = [counted EXCEPT ![r] = Empty]
  /\ Goto(r, "position")
  /\ UNCHANGED <<db, range, remaining, moments, writes>>

\* The place of a date in the order of the keys: its bytes as an unsigned number.
Unsigned(t) == IF t >= 0 THEN t ELSE t + 2 * HalfRange

\* Mutant: the cursor belongs to a transaction of its own.
Position_NewTransaction(r) ==
  /\ pc[r] = "position"
  /\ LET from == range[r].from
     IN remaining' = [remaining EXCEPT ![r] =
          {p \in db[gateway[r]] : from = Absent \/ Unsigned(RequestedAt[p]) >= Unsigned(from)}]
  /\ Goto(r, "walk")
  /\ UNCHANGED <<db, range, snapshot, gateway, counted, moments, writes>>

\* MDB_FIRST, or MDB_SET_RANGE if there is a from.
Position(r) ==
  /\ pc[r] = "position"
  /\ LET from == range[r].from
     IN remaining' = [remaining EXCEPT ![r] =
          {p \in snapshot[r][gateway[r]] : from = Absent \/ Unsigned(RequestedAt[p]) >= Unsigned(from)}]
  /\ Goto(r, "walk")
  /\ UNCHANGED <<db, range, snapshot, gateway, counted, moments, writes>>

\* p is under the cursor: no entry ahead of it has a smaller key.
AtCursor(r, p) ==
  /\ p \in remaining[r]
  /\ \A q \in remaining[r] : Unsigned(RequestedAt[p]) <= Unsigned(RequestedAt[q])

Beyond(r, p) == range[r].to # Absent /\ RequestedAt[p] > range[r].to

Count(r, p) ==
  /\ pc[r] = "walk"
  /\ AtCursor(r, p) /\ ~Beyond(r, p)
  /\ counted' = [counted EXCEPT ![r][gateway[r]] = @ \cup {p}]
  /\ remaining' = [remaining EXCEPT ![r] = @ \ {p}]
  /\ UNCHANGED <<db, pc, range, snapshot, gateway, moments, writes>>

\* There is no entry any more, or one later than to.
AtEnd(r) == remaining[r] = {} \/ \E p \in Payments : AtCursor(r, p) /\ Beyond(r, p)

\* The next gateway, or done.
StopWalking(r) ==
  /\ pc[r] = "walk"
  /\ AtEnd(r)
  /\ remaining' = [remaining EXCEPT ![r] = {}]
  /\ gateway' = [gateway EXCEPT ![r] = "fallback"]
  /\ Goto(r, IF gateway[r] = "default" THEN "position" ELSE "done")
  /\ UNCHANGED <<db, range, snapshot, counted, moments, writes>>

\* The request ends, and with it its variables and its transaction.
Leave(r) ==
  /\ Goto(r, "idle")
  /\ range' = [range EXCEPT ![r] = NoRange]
  /\ snapshot' = [snapshot EXCEPT ![r] = Empty]
  /\ gateway' = [gateway EXCEPT ![r] = "default"]
  /\ remaining' = [remaining EXCEPT ![r] = {}]
  /\ counted' = [counted EXCEPT ![r] = Empty]
  /\ moments' = [moments EXCEPT ![r] = {}]
  /\ UNCHANGED <<db, writes>>

Reply(r) == pc[r] = "done" /\ Leave(r)

\* checkMdbError throws: there is no answer.
Fail(r) == pc[r] \in {"begin", "position", "walk"} /\ Leave(r)

-----------------------------------------------------------------------------

Reader(r) ==
  \/ \E rg \in Ranges : Request(r, rg)
  \/ BeginTransaction(r)
  \/ Position(r)
  \/ \E p \in Payments : Count(r, p)
  \/ StopWalking(r)
  \/ Reply(r)
  \/ Fail(r)

Next ==
  \/ \E g \in Gateways : (\E p \in Payments : PostPayment(g, p)) \/ Purge(g)
  \/ \E r \in Readers : Reader(r)

Spec == Init /\ [][Next]_vars

-----------------------------------------------------------------------------
(* Properties.                                                             *)

TypeOK ==
  /\ db \in Ledgers
  /\ pc \in [Readers -> {"idle", "begin", "position", "walk", "done"}]
  /\ range \in [Readers -> Ranges]
  /\ snapshot \in [Readers -> Ledgers]
  /\ gateway \in [Readers -> Gateways]
  /\ remaining \in [Readers -> SUBSET Payments]
  /\ counted \in [Readers -> Ledgers]
  /\ moments \in [Readers -> SUBSET Ledgers]
  /\ writes \in 0..MaxWrites

\* LMDB orders dates before 1970 after all the others.
Before1970(rg) == rg.from # Absent /\ rg.from < 0

\* A summary is what the two databases together held at one moment between the
\* request and the answer: it counts each payment of the range and no other,
\* and never a default gateway before and a fallback gateway after some other
\* transaction, although it walks over them one after the other.
SummaryIsOneMoment ==
  \A r \in Readers : pc[r] = "done" /\ ~Before1970(range[r]) => counted[r] \in moments[r]

-----------------------------------------------------------------------------
(* The inductive invariant of SummaryIsOneMoment.                          *)

\* The answer for now is among the moments of every request.
NowIsAMoment == \A r \in Readers : pc[r] # "idle" => Answer(db, range[r]) \in moments[r]

\* And so is that for the snapshot of the request.
SnapshotIsAMoment ==
  \A r \in Readers : pc[r] \in {"position", "walk", "done"} =>
    Answer(snapshot[r], range[r]) \in moments[r]

\* What reader r has to count of gateway g.
Wanted(r, g) == {p \in snapshot[r][g] : InRange(p, range[r])}

\* What reader r has counted of gateway g.
Progress(r, g) ==
  CASE pc[r] = "done" -> counted[r][g] = Wanted(r, g)
    [] pc[r] # "done" /\ g # gateway[r] ->
         counted[r][g] = IF g = "default" THEN Wanted(r, g) ELSE {}
    [] pc[r] = "position" /\ g = gateway[r] -> counted[r][g] = {}
    [] pc[r] = "walk" /\ g = gateway[r] ->
         /\ counted[r][g] \cup {p \in remaining[r] : InRange(p, range[r])} = Wanted(r, g)
         /\ \A p \in remaining[r] : range[r].from # Absent => range[r].from <= RequestedAt[p]

\* What is counted and what is in range ahead of the cursor make up the answer.
WalkIsOnTrack ==
  \A r \in Readers : pc[r] \in {"position", "walk", "done"} /\ ~Before1970(range[r]) =>
    \A g \in Gateways : Progress(r, g)

IInv == TypeOK /\ NowIsAMoment /\ SnapshotIsAMoment /\ WalkIsOnTrack

=============================================================================

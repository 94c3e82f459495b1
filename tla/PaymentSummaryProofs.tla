------------------------ MODULE PaymentSummaryProofs ------------------------
(***************************************************************************)
(* Proof that a summary is what the two databases together held at one     *)
(* moment, for any payments, dates, readers and number of writes.          *)
(***************************************************************************)
EXTENDS PaymentSummary, TLAPS

\* The requests of payments are not before 1970: their order is that of the keys.
LEMMA KeyOrder ==
  ASSUME NEW p \in Payments
  PROVE  RequestedAt[p] \in Nat /\ Unsigned(RequestedAt[p]) = RequestedAt[p]
BY HalfRangeAssumption, RequestedAtAssumption DEF Unsigned

LEMMA DateTyping == \A d \in Dates : d \in Int
<1> SUFFICES ASSUME NEW d \in Dates PROVE d \in Int
  OBVIOUS
<1>1. d \in (-HalfRange)..(HalfRange - 1)
  BY DatesAssumption
<1> QED
  BY <1>1, HalfRangeAssumption

LEMMA FromOrder ==
  ASSUME NEW rg \in Ranges, rg.from # Absent, ~Before1970(rg)
  PROVE  rg.from \in Nat /\ Unsigned(rg.from) = rg.from
<1>1. rg.from \in Int
  BY DateTyping DEF Ranges
<1> QED
  BY <1>1 DEF Before1970, Unsigned

LEMMA ToTyping ==
  ASSUME NEW rg \in Ranges, rg.to # Absent
  PROVE  rg.to \in Int
BY DateTyping DEF Ranges

LEMMA AnswerTyping ==
  ASSUME NEW ledger \in Ledgers, NEW rg
  PROVE  Answer(ledger, rg) \in Ledgers
BY DEF Answer, Ledgers

LEMMA InitTypeOK == Init => TypeOK
BY MaxWritesAssumption DEF Init, TypeOK, Empty, NoRange, Ledgers, Ranges, Gateways

LEMMA CommitTypeOK ==
  ASSUME TypeOK, NEW ledger \in Ledgers, Commit(ledger)
  PROVE  TypeOK'
<1>1. moments' \in [Readers -> SUBSET Ledgers]
  BY AnswerTyping DEF TypeOK, Commit
<1> QED
  BY <1>1, MaxWritesAssumption DEF TypeOK, Commit, readVars

LEMMA LeaveTypeOK ==
  ASSUME TypeOK, NEW r \in Readers, Leave(r)
  PROVE  TypeOK'
BY DEF TypeOK, Leave, Goto, Empty, NoRange, Ledgers, Ranges, Gateways

\* Every variable keeps its type.
LEMMA NextTypeOK == TypeOK /\ [Next]_vars => TypeOK'
<1> SUFFICES ASSUME TypeOK, [Next]_vars PROVE TypeOK'
  OBVIOUS
<1>1. ASSUME NEW g \in Gateways, NEW p \in Payments, PostPayment(g, p) PROVE TypeOK'
  <2>1. [db EXCEPT ![g] = @ \cup {p}] \in Ledgers
    BY DEF TypeOK, Ledgers
  <2> QED
    BY <1>1, <2>1, CommitTypeOK DEF PostPayment
<1>2. ASSUME NEW g \in Gateways, Purge(g) PROVE TypeOK'
  <2>1. [db EXCEPT ![g] = {}] \in Ledgers
    BY DEF TypeOK, Ledgers
  <2> QED
    BY <1>2, <2>1, CommitTypeOK DEF Purge
<1>3. ASSUME NEW r \in Readers, NEW rg \in Ranges, Request(r, rg) PROVE TypeOK'
  BY <1>3, AnswerTyping DEF Request, Goto, TypeOK
<1>4. ASSUME NEW r \in Readers, BeginTransaction(r) PROVE TypeOK'
  BY <1>4 DEF BeginTransaction, Goto, TypeOK, Empty, Ledgers, Gateways
<1>5. ASSUME NEW r \in Readers, Position(r) PROVE TypeOK'
  <2>1. snapshot[r][gateway[r]] \subseteq Payments
    BY DEF TypeOK, Ledgers
  <2> QED
    BY <1>5, <2>1 DEF Position, Goto, TypeOK
<1>6. ASSUME NEW r \in Readers, NEW p \in Payments, Count(r, p) PROVE TypeOK'
  <2>1. counted' \in [Readers -> Ledgers]
    BY <1>6 DEF Count, TypeOK, Ledgers
  <2> QED
    BY <1>6, <2>1 DEF Count, TypeOK
<1>7. ASSUME NEW r \in Readers, StopWalking(r) PROVE TypeOK'
  BY <1>7 DEF StopWalking, Goto, TypeOK, Gateways
<1>8. ASSUME NEW r \in Readers, Reply(r) PROVE TypeOK'
  BY <1>8, LeaveTypeOK DEF Reply
<1>9. ASSUME NEW r \in Readers, Fail(r) PROVE TypeOK'
  BY <1>9, LeaveTypeOK DEF Fail
<1>10. CASE UNCHANGED vars
  BY <1>10 DEF vars, readVars, TypeOK
<1> QED
  BY <1>1, <1>2, <1>3, <1>4, <1>5, <1>6, <1>7, <1>8, <1>9, <1>10 DEF Next, Reader

\* TypeOK: every variable keeps its type.
THEOREM Typing == Spec => []TypeOK
BY InitTypeOK, NextTypeOK, PTL DEF Spec

-----------------------------------------------------------------------------

\* The part of the invariant that is about reader r.
Sound(r) ==
  /\ pc[r] # "idle" => Answer(db, range[r]) \in moments[r]
  /\ pc[r] \in {"position", "walk", "done"} => Answer(snapshot[r], range[r]) \in moments[r]
  /\ pc[r] \in {"position", "walk", "done"} /\ ~Before1970(range[r]) =>
       \A g \in Gateways : Progress(r, g)

LEMMA SoundReaders == IInv <=> TypeOK /\ \A r \in Readers : Sound(r)
BY DEF IInv, NowIsAMoment, SnapshotIsAMoment, WalkIsOnTrack, Sound

\* A reader is not concerned by what leaves its variables alone.
LEMMA SoundUnchanged ==
  ASSUME NEW r \in Readers, Sound(r), db' = db,
         pc'[r] = pc[r], range'[r] = range[r], snapshot'[r] = snapshot[r],
         gateway'[r] = gateway[r], remaining'[r] = remaining[r],
         counted'[r] = counted[r], moments'[r] = moments[r]
  PROVE  Sound(r)'
<1>1. \A g \in Gateways : Progress(r, g) => Progress(r, g)'
  BY DEF Progress, Wanted
<1> QED
  BY <1>1 DEF Sound

LEMMA SoundCommit ==
  ASSUME TypeOK, NEW r \in Readers, Sound(r), NEW ledger, Commit(ledger)
  PROVE  Sound(r)'
<1>1. \A g \in Gateways : Progress(r, g) => Progress(r, g)'
  BY DEF Progress, Wanted, Commit, readVars
<1>2. pc[r] # "idle" => moments'[r] = moments[r] \cup {Answer(db', range[r])}
  BY DEF Commit, TypeOK
<1> QED
  BY <1>1, <1>2 DEF Sound, Commit, readVars

LEMMA SoundPosition ==
  ASSUME TypeOK, NEW r \in Readers, Sound(r), Position(r)
  PROVE  Sound(r)'
<1>1. /\ pc[r] = "position" /\ pc'[r] = "walk"
      /\ remaining'[r] = {p \in snapshot[r][gateway[r]] :
           range[r].from = Absent \/ Unsigned(RequestedAt[p]) >= Unsigned(range[r].from)}
      /\ UNCHANGED <<db, range, snapshot, gateway, counted, moments>>
  BY DEF Position, Goto, TypeOK
<1>2. ASSUME ~Before1970(range[r]), NEW g \in Gateways PROVE Progress(r, g)'
  <2>1. Progress(r, g)
    BY <1>1, <1>2 DEF Sound
  <2>2. CASE g # gateway[r]
    BY <1>1, <2>1, <2>2 DEF Progress, Wanted
  <2>3. CASE g = gateway[r]
    <3>1. counted[r][g] = {}
      BY <1>1, <2>1, <2>3 DEF Progress
    <3>2. range[r] \in Ranges /\ snapshot[r][g] \subseteq Payments
      BY DEF TypeOK, Ledgers
    <3>3. \A p \in remaining'[r] : range[r].from # Absent => range[r].from <= RequestedAt[p]
      BY <1>1, <1>2, <2>3, <3>2, KeyOrder, FromOrder
    <3>4. {p \in remaining'[r] : InRange(p, range[r])} = Wanted(r, g)
      BY <1>1, <1>2, <2>3, <3>2, KeyOrder, FromOrder DEF Wanted, InRange
    <3> QED
      BY <1>1, <2>3, <3>1, <3>3, <3>4 DEF Progress, Wanted
  <2> QED
    BY <2>2, <2>3
<1> QED
  BY <1>1, <1>2 DEF Sound

LEMMA SoundCount ==
  ASSUME TypeOK, NEW r \in Readers, Sound(r), NEW p \in Payments, Count(r, p)
  PROVE  Sound(r)'
<1>1. /\ pc[r] = "walk"
      /\ p \in remaining[r] /\ ~Beyond(r, p)
      /\ counted'[r] = [counted[r] EXCEPT ![gateway[r]] = @ \cup {p}]
      /\ remaining'[r] = remaining[r] \ {p}
      /\ UNCHANGED <<db, pc, range, snapshot, gateway, moments>>
  BY DEF Count, AtCursor, TypeOK
<1>2. gateway[r] \in Gateways /\ counted[r] \in [Gateways -> SUBSET Payments] /\ range[r] \in Ranges
  BY DEF TypeOK, Ledgers
<1>3. ASSUME ~Before1970(range[r]), NEW g \in Gateways PROVE Progress(r, g)'
  <2>1. Progress(r, g)
    BY <1>1, <1>3 DEF Sound
  <2>2. CASE g # gateway[r]
    BY <1>1, <1>2, <2>1, <2>2 DEF Progress, Wanted
  <2>3. CASE g = gateway[r]
    <3>1. /\ counted[r][g] \cup {q \in remaining[r] : InRange(q, range[r])} = Wanted(r, g)
          /\ \A q \in remaining[r] : range[r].from # Absent => range[r].from <= RequestedAt[q]
      BY <1>1, <2>1, <2>3 DEF Progress
    <3>2. InRange(p, range[r])
      BY <1>1, <1>2, <3>1, KeyOrder, ToTyping DEF InRange, Beyond
    <3>3. counted'[r][g] = counted[r][g] \cup {p}
      BY <1>1, <1>2, <2>3
    <3>4. counted'[r][g] \cup {q \in remaining'[r] : InRange(q, range[r])} = Wanted(r, g)
      BY <1>1, <3>1, <3>2, <3>3
    <3> QED
      BY <1>1, <2>3, <3>1, <3>4 DEF Progress, Wanted
  <2> QED
    BY <2>2, <2>3
<1> QED
  BY <1>1, <1>3 DEF Sound

LEMMA SoundStopWalking ==
  ASSUME TypeOK, NEW r \in Readers, Sound(r), StopWalking(r)
  PROVE  Sound(r)'
<1>1. /\ pc[r] = "walk" /\ AtEnd(r)
      /\ pc'[r] = IF gateway[r] = "default" THEN "position" ELSE "done"
      /\ gateway'[r] = "fallback"
      /\ UNCHANGED <<db, range, snapshot, counted, moments>>
  BY DEF StopWalking, Goto, TypeOK
<1>2. \A q \in remaining[r] : ~InRange(q, range[r])
  <2>1. CASE remaining[r] = {}
    BY <2>1
  <2>2. ASSUME NEW p \in Payments, AtCursor(r, p), Beyond(r, p)
        PROVE  \A q \in remaining[r] : ~InRange(q, range[r])
    <3>1. remaining[r] \subseteq Payments /\ range[r] \in Ranges
      BY DEF TypeOK
    <3> QED
      BY <2>2, <3>1, KeyOrder, ToTyping DEF AtCursor, Beyond, InRange
  <2> QED
    BY <1>1, <2>1, <2>2 DEF AtEnd
<1>3. ASSUME ~Before1970(range[r]), NEW g \in Gateways PROVE Progress(r, g)'
  <2>1. Progress(r, g)
    BY <1>1, <1>3 DEF Sound
  <2>2. g = gateway[r] => counted[r][g] = Wanted(r, g)
    BY <1>1, <1>2, <2>1 DEF Progress
  <2>3. g # gateway[r] => counted[r][g] = IF g = "default" THEN Wanted(r, g) ELSE {}
    BY <1>1, <2>1 DEF Progress
  <2>4. gateway[r] \in Gateways
    BY DEF TypeOK
  <2>5. counted'[r][g] = counted[r][g] /\ Wanted(r, g)' = Wanted(r, g)
    BY <1>1 DEF Wanted
  <2> QED
    BY <1>1, <2>2, <2>3, <2>4, <2>5 DEF Progress, Gateways
<1> QED
  BY <1>1, <1>3 DEF Sound

\* The request and the begin of the transaction put the reader on its track.
LEMMA SoundBeginning ==
  ASSUME TypeOK, NEW r \in Readers, Sound(r), BeginTransaction(r)
  PROVE  Sound(r)'
<1>1. /\ pc[r] = "begin" /\ pc'[r] = "position"
      /\ snapshot'[r] = db /\ gateway'[r] = "default" /\ counted'[r] = Empty
      /\ UNCHANGED <<db, range, moments>>
  BY DEF BeginTransaction, Goto, TypeOK
<1> QED
  BY <1>1 DEF Sound, Progress, Empty, Gateways

LEMMA InitIInv == Init => IInv
<1> SUFFICES ASSUME Init PROVE IInv
  OBVIOUS
<1>1. \A r \in Readers : pc[r] = "idle"
  BY DEF Init
<1> QED
  BY <1>1, InitTypeOK, SoundReaders DEF Sound

LEMMA NextIInv == IInv /\ [Next]_vars => IInv'
<1> SUFFICES ASSUME IInv, [Next]_vars PROVE IInv'
  OBVIOUS
<1>0. TypeOK /\ \A r \in Readers : Sound(r)
  BY SoundReaders
<1>1. TypeOK'
  BY NextTypeOK, <1>0
<1>2. ASSUME NEW r \in Readers PROVE Sound(r)'
  <2>0. Sound(r)
    BY <1>0
  <2>1. ASSUME NEW g \in Gateways, NEW p \in Payments, PostPayment(g, p) PROVE Sound(r)'
    BY <1>0, <2>0, <2>1, SoundCommit DEF PostPayment
  <2>2. ASSUME NEW g \in Gateways, Purge(g) PROVE Sound(r)'
    BY <1>0, <2>0, <2>2, SoundCommit DEF Purge
  <2>3. ASSUME NEW s \in Readers, Reader(s) PROVE Sound(r)'
    <3>1. CASE s # r
      <4>1. /\ db' = db /\ pc'[r] = pc[r] /\ range'[r] = range[r]
            /\ snapshot'[r] = snapshot[r] /\ gateway'[r] = gateway[r]
            /\ remaining'[r] = remaining[r] /\ counted'[r] = counted[r]
            /\ moments'[r] = moments[r]
        BY <1>0, <2>3, <3>1 DEF Reader, Request, BeginTransaction, Position, Count, StopWalking,
           Reply, Fail, Leave, Goto, TypeOK
      <4> QED
        BY <2>0, <4>1, SoundUnchanged
    <3>2. CASE s = r
      <4>1. ASSUME NEW rg \in Ranges, Request(r, rg) PROVE Sound(r)'
        BY <1>0, <4>1 DEF Request, Goto, TypeOK, Sound
      <4>2. ASSUME NEW p \in Payments, Count(r, p) PROVE Sound(r)'
        BY <1>0, <2>0, <4>2, SoundCount
      <4>3. ASSUME Leave(r) PROVE Sound(r)'
        BY <1>0, <4>3 DEF Leave, Goto, TypeOK, Sound
      <4> QED
        BY <1>0, <2>0, <2>3, <3>2, <4>1, <4>2, <4>3, SoundBeginning, SoundPosition, SoundStopWalking
        DEF Reader, Reply, Fail
    <3> QED
      BY <3>1, <3>2
  <2>4. CASE UNCHANGED vars
    BY <2>0, <2>4, SoundUnchanged DEF vars, readVars
  <2> QED
    BY <2>1, <2>2, <2>3, <2>4 DEF Next
<1>3. (\A r \in Readers : Sound(r))'
  BY <1>2
<1> QED
  BY <1>1, <1>3 DEF IInv, NowIsAMoment, SnapshotIsAMoment, WalkIsOnTrack, Sound

\* IInv is an invariant of the specification.
THEOREM Invariance == Spec => []IInv
BY InitIInv, NextIInv, PTL DEF Spec

\* SummaryIsOneMoment: the answer of a summary is that of its snapshot.
THEOREM SummaryIsOneMomentTheorem == Spec => []SummaryIsOneMoment
<1>1. IInv => SummaryIsOneMoment
  <2> SUFFICES ASSUME IInv, NEW r \in Readers, pc[r] = "done", ~Before1970(range[r])
               PROVE  counted[r] \in moments[r]
    BY DEF SummaryIsOneMoment
  <2>1. TypeOK /\ Sound(r)
    BY SoundReaders
  <2>2. \A g \in Gateways : counted[r][g] = Wanted(r, g)
    BY <2>1 DEF Sound, Progress
  <2>3. counted[r] = [g \in Gateways |-> Wanted(r, g)]
    BY <2>1, <2>2 DEF TypeOK, Ledgers
  <2>4. Answer(snapshot[r], range[r]) = [g \in Gateways |-> Wanted(r, g)]
    BY DEF Answer, Wanted
  <2> QED
    BY <2>1, <2>3, <2>4 DEF Sound
<1> QED
  BY <1>1, Invariance, PTL
=============================================================================

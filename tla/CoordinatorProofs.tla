------------------------- MODULE CoordinatorProofs --------------------------
(***************************************************************************)
(* Proofs about the coordinator, the process that chooses the gateway and  *)
(* makes what the others open.  Of GatewayChooser: for any number of       *)
(* instances, any response times and any number of health changes.  Of     *)
(* Startup: for any set of the variants, any number of runs of the         *)
(* coordinator and of starts of the others.                                *)
(***************************************************************************)
EXTENDS GatewayChooser, Startup, TLAPS

-----------------------------------------------------------------------------
(* The gateway chooser.                                                    *)

LEMMA OtherTyping == \A g \in Gateways : Other(g) \in Gateways
BY DEF Gateways, Other

LEMMA NewChoiceTyping == \A d, f, c : NewChoice(d, f, c) \in Gateways
BY DEF Gateways, NewChoice

\* Choosing again changes nothing.
LEMMA NewChoiceIdempotent ==
  \A d, f, c : NewChoice(d, f, NewChoice(d, f, c)) = NewChoice(d, f, c)
BY DEF NewChoice

\* Every variable keeps its type.
LEMMA NextTypeOK == TypeOK /\ [Next]_vars => TypeOK'
<1> SUFFICES ASSUME TypeOK, [Next]_vars PROVE TypeOK'
  OBVIOUS
<1> USE UnknownAssumption, BoundAssumption, OtherTyping, NewChoiceTyping DEF TypeOK
<1>1. CASE Load
  BY <1>1 DEF Load, processorVars, envVars, Gateways
<1>2. CASE PollAnswered
  BY <1>2 DEF PollAnswered, AfterPoll, processorVars, envVars, Gateways
<1>3. CASE PollFailed
  BY <1>3 DEF PollFailed, AfterPoll, processorVars, envVars, Gateways
<1>4. CASE Decide
  BY <1>4 DEF Decide, processorVars, envVars
<1>5. CASE WakeUp
  BY <1>5 DEF WakeUp, processorVars, envVars
<1>6. ASSUME NEW i \in Instances, Processor(i) PROVE TypeOK'
  BY <1>6 DEF Processor, Attempt, AttemptEnds, AttemptRefused, SwitchGateway, chooserVars, envVars
<1>7. ASSUME NEW g \in Gateways, NEW h \in Healths \cup {Unreachable}, HealthChanges(g, h)
      PROVE  TypeOK'
  BY <1>7 DEF HealthChanges, chooserVars, processorVars
<1>8. CASE UNCHANGED vars
  BY <1>8 DEF vars, chooserVars, processorVars, envVars
<1> QED
  BY <1>1, <1>2, <1>3, <1>4, <1>5, <1>6, <1>7, <1>8 DEF Next, Chooser

LEMMA NextIInv == IInv /\ [Next]_vars => IInv'
<1> SUFFICES ASSUME IInv, [Next]_vars PROVE IInv'
  OBVIOUS
<1>0. TypeOK'
  BY NextTypeOK DEF IInv
<1> USE <1>0 DEF IInv, TypeOK, ChoiceIsCurrent
<1>1. CASE Load
  BY <1>1 DEF Load, Gateways
<1>2. CASE PollAnswered
  BY <1>2 DEF PollAnswered, AfterPoll, Gateways
<1>3. CASE PollFailed
  BY <1>3 DEF PollFailed, AfterPoll, Gateways
<1>4. CASE Decide
  <2> DEFINE choice == NewChoice(health["default"], health["fallback"], currentChoice)
  <2>1. /\ currentGateway' = IF choice # currentChoice THEN choice ELSE currentGateway
        /\ UNCHANGED <<health, switched>> /\ pc' = "sleep"
    BY <1>4 DEF Decide
  <2>2. ~switched => currentGateway' = choice
    BY <1>4, <2>1 DEF Decide
  <2>3. NewChoice(health["default"], health["fallback"], choice) = choice
    BY NewChoiceIdempotent
  <2> HIDE DEF choice
  <2> QED
    BY <2>1, <2>2, <2>3 DEF Gateways
<1>5. CASE WakeUp
  BY <1>5 DEF WakeUp, Gateways
<1>6. ASSUME NEW i \in Instances, Processor(i) PROVE IInv'
  BY <1>6 DEF Processor, Attempt, AttemptEnds, AttemptRefused, SwitchGateway, chooserVars
<1>7. ASSUME NEW g \in Gateways, NEW h \in Healths \cup {Unreachable}, HealthChanges(g, h)
      PROVE  IInv'
  BY <1>7 DEF HealthChanges, chooserVars, processorVars
<1>8. CASE UNCHANGED vars
  BY <1>8 DEF vars, chooserVars, processorVars, envVars
<1> QED
  BY <1>1, <1>2, <1>3, <1>4, <1>5, <1>6, <1>7, <1>8 DEF Next, Chooser

THEOREM Invariance == Spec => []IInv
<1>1. Init => IInv
  <2> SUFFICES ASSUME Init PROVE IInv
    OBVIOUS
  <2>1. TypeOK
    <3>1. changes \in 0..MaxHealthChanges
      BY BoundAssumption DEF Init
    <3> QED
      BY <3>1 DEF Init, TypeOK, Gateways
  <2> QED
    BY <2>1 DEF Init, IInv, ChoiceIsCurrent, Gateways
<1> QED
  BY <1>1, NextIInv, PTL DEF Spec

\* Every variable keeps its type; only one of the two gateways is ever current.
THEOREM Typing == Spec => []TypeOK
<1>1. IInv => TypeOK
  BY DEF IInv
<1> QED
  BY <1>1, Invariance, PTL

\* When the chooser sleeps, the current gateway is one it would choose again,
\* or a processor has switched since it loaded the current gateway.
THEOREM ChoiceIsCurrentTheorem == Spec => []ChoiceIsCurrent
<1>1. IInv => ChoiceIsCurrent
  BY DEF IInv
<1> QED
  BY <1>1, Invariance, PTL

\* Whenever the chooser changes the current gateway it has a reason: see
\* SwitchesAreJustified.
THEOREM SwitchesAreJustifiedTheorem == Spec => SwitchesAreJustified
<1> DEFINE
     d == health["default"]
     f == health["fallback"]
     Worse == /\ d # Unknown
              /\ IF d.failing THEN ~Failing(f)
                 ELSE /\ Answering(f) /\ d.minResponseTime > 100
                      /\ d.minResponseTime > 2 * f.minResponseTime
     Justified ==
       pc = "decide" /\ pc' = "sleep" /\ currentGateway' # currentGateway =>
         (currentGateway' = "fallback" <=> Worse)
<1>1. IInv /\ [Next]_vars => [Justified]_vars
  <2> SUFFICES ASSUME IInv, [Next]_vars, pc = "decide", pc' = "sleep",
                      currentGateway' # currentGateway
               PROVE  Justified
    OBVIOUS
  <2>1. Decide \/ \E i \in Instances : Processor(i) /\ pc' = pc
    BY DEF Next, Chooser, Load, PollAnswered, PollFailed, WakeUp, HealthChanges, AfterPoll,
           Gateways, vars, chooserVars, Processor, Attempt, AttemptEnds, AttemptRefused,
           SwitchGateway, IInv, TypeOK
  <2>2. Decide
    BY <2>1
  <2>3. /\ currentGateway' = NewChoice(d, f, currentChoice)
        /\ currentGateway' # currentChoice
    BY <2>2 DEF Decide
  <2>4. currentChoice \in Gateways
    BY DEF IInv, TypeOK
  <2> QED
    BY <2>3, <2>4 DEF NewChoice, Failing, Answering, Slow, Gateways
<1> QED
  BY <1>1, Invariance, PTL DEF Spec, SwitchesAreJustified, d, f, Worse, Justified

-----------------------------------------------------------------------------
(* Startup: the inductive invariant.                                       *)

On == at[Coordinator] # "off"

\* What the coordinator has done in this run.
Creates(s)  == at[Coordinator] = s /\ step[Coordinator] \in {"created", "truncated", "constructed"}
HasBuilt(s) == at[Coordinator] \in IF s = "chooser" THEN {"database", "ipc", "serving", "stuck"}
                                                    ELSE {"serving"}
DatabaseAt(p, steps) ==
  at[p] \in {"ipc", "serving"} \/ (at[p] = "database" /\ step[p] \in steps)
HasPosted   == DatabaseAt(Coordinator, {"posted"})
HasDatabase ==
  \/ DatabaseAt(Coordinator, {"opened", "writing", "posted"})
  \/ at[Coordinator] = "stuck" /\ database = run

Sheltered(p) == nothingLeft \/ late[p]

\* Who is where.
Places ==
  /\ at[Coordinator] \in {"off", "chooser", "database", "ipc", "serving", "stuck"}
  /\ at[Coordinator] \in Segments =>
       step[Coordinator] \in {"begin", "removed", "created", "truncated", "constructed"}
  /\ at[Coordinator] = "database" =>
       step[Coordinator] \in {"begin", "told", "opened", "writing", "posted"}
  /\ On => run \in Runs
  /\ \A p \in Processes : at[p] = "ipc" => variant = "ipc"
  /\ \A p \in Others :
       /\ at[p] # "off" => On
       /\ late[p] /\ at[p] # "off" => at[Coordinator] = "serving"
       /\ at[p] \in Segments => step[p] \in {"begin", "opened", "mapped", "waiting", "forgotten"}
       /\ at[p] = "database" => step[p] \in {"begin", "told", "opened", "writing"}
  /\ at["api2"] # "resolve" /\ at["proxy"] \notin {"chooser", "database", "stuck"}
  /\ at["proxy"] = "resolve" => variant # "ipc"

\* One token is posted in each run.
Tokens ==
  /\ token <= run
  /\ On /\ ~HasPosted => token < run
  /\ On /\ ~HasPosted /\ nothingLeft => token = 0

\* A segment has the name of this run from its creation on, and is built when
\* somebody can find it ready.
Names ==
  \A s \in Segments :
    /\ name[s] <= run
    /\ nothingLeft /\ On => name[s] \in {0, run}
    /\ Creates(s) => name[s] = run
    /\ HasBuilt(s) /\ (s = "ipc" => variant = "ipc") => name[s] = run
    /\ On /\ name[s] = run => HasBuilt(s) \/ Creates(s)

Built ==
  \A s \in Segments :
    /\ \A r \in Runs : ready[s][r] > 0 => stage[s][r] = "built"
    /\ \A r \in Runs : r > run \/ (r = run /\ On /\ ~HasBuilt(s) /\ ~Creates(s)) => ready[s][r] = 0
    /\ at[Coordinator] = s =>
         /\ step[Coordinator] = "created" => stage[s][run] = "empty"
         /\ step[Coordinator] = "truncated" => stage[s][run] = "zeros"
         /\ step[Coordinator] = "constructed" => stage[s][run] = "built"

\* What a process holds of them.
HeldSegments ==
  \A p \in Others, s \in Segments :
    /\ at[p] = "off" => mapped[p][s] = 0
    /\ at[p] = s /\ step[p] # "begin" => mapped[p][s] # 0
    /\ p = "api2" /\ s = "chooser" /\ at[p] \in {"database", "ipc", "serving", "stuck"}
         => mapped[p][s] # 0
    /\ s = "ipc" /\ variant = "ipc" /\ at[p] = "serving" => mapped[p][s] # 0
    /\ variant # "haproxy" /\ mapped[p][s] # 0 /\ at[p] \in Parts \cup {"serving"} /\ at[p] # s
         => stage[s][mapped[p][s]] = "built"
    /\ mapped[p][s] # 0 /\ mapped[p][s] = run => HasBuilt(s) \/ Creates(s)
    /\ Sheltered(p) => mapped[p][s] \in {0, run}

Databases ==
  /\ HasDatabase => database = run
  /\ at[Coordinator] = "database" /\ step[Coordinator] = "told" => database = 0
  /\ nothingLeft /\ On /\ variant = "haproxy" /\ ~HasDatabase => database = 0
  /\ nothingLeft /\ variant # "haproxy" /\ DatabaseAt("api2", {"told", "opened", "writing"})
       => HasPosted

HeldDatabases ==
  /\ DatabaseAt("api2", {"opened", "writing"}) => opened["api2"] # 0
  /\ opened["proxy"] = 0 /\ (at["api2"] = "off" => opened["api2"] = 0)
  /\ Sheltered("api2") => opened["api2"] = 0 \/ (opened["api2"] = run /\ HasDatabase)

StartupIInv ==
  /\ StartupTypeOK /\ Places
  /\ Names /\ Built /\ HeldSegments
  /\ Tokens /\ Databases /\ HeldDatabases

Positions == Parts \cup {"off", "serving", "ended", "stuck"}
Steps     == {"begin", "removed", "created", "truncated", "constructed", "opened", "mapped",
              "waiting", "forgotten", "told", "writing", "posted"}

USE DEF Processes, Others, Coordinator, Segments, Runs

-----------------------------------------------------------------------------
(* Startup: types.                                                         *)

LEMMA ControlTypes ==
  ASSUME StartupTypeOK
  PROVE  /\ at \in [Processes -> Positions] /\ step \in [Processes -> Steps]
         /\ run \in Nat /\ MaxRuns \in Nat
BY BoundsAssumption DEF StartupTypeOK, Positions, Steps

LEMMA SegmentTypes ==
  ASSUME StartupTypeOK
  PROVE  /\ name \in [Segments -> 0..MaxRuns]
         /\ stage \in [Segments -> [Runs -> {"none", "empty", "zeros", "built"}]]
         /\ ready \in [Segments -> [Runs -> 0..1]]
         /\ mapped \in [Processes -> [Segments -> 0..MaxRuns]]
BY DEF StartupTypeOK

LEMMA TokenTypes ==
  ASSUME StartupTypeOK
  PROVE  token \in Nat /\ run \in Nat /\ MaxRuns \in Nat /\ token <= MaxRuns /\ run <= MaxRuns
BY BoundsAssumption DEF StartupTypeOK

LEMMA EnterTypes ==
  ASSUME StartupTypeOK, NEW p \in Processes, NEW part \in Positions, Enter(p, part)
  PROVE  at' \in [Processes -> Positions] /\ step' \in [Processes -> Steps]
BY ControlTypes DEF Enter, Steps

LEMMA AdvanceTypes ==
  ASSUME StartupTypeOK, NEW p \in Processes, at[p] \in Parts, Advance(p)
  PROVE  at' \in [Processes -> Positions] /\ step' \in [Processes -> Steps]
BY ControlTypes DEF Advance, Enter, Positions, Parts, Steps

LEMMA ThrowTypes ==
  ASSUME StartupTypeOK, NEW p \in Processes, Throw(p)
  PROVE  at' \in [Processes -> Positions] /\ step' \in [Processes -> Steps]
BY EnterTypes DEF Throw, Positions

LEMMA ThrowConnectionTypes ==
  ASSUME StartupTypeOK, NEW p \in Processes, ThrowConnection(p)
  PROVE  at' \in [Processes -> Positions] /\ step' \in [Processes -> Steps]
BY ThrowTypes, EnterTypes DEF ThrowConnection, Positions

\* The actions whose types take more than one step.

LEMMA ConstructTypes ==
  ASSUME StartupTypeOK, NEW s \in Segments, Construct(s)
  PROVE  StartupTypeOK'
<1>1. step' \in [Processes -> Steps]
  BY DEF Construct, StartupTypeOK, Steps
<1>2. stage' \in [Segments -> [Runs -> {"none", "empty", "zeros", "built"}]]
  BY DEF Construct, StartupTypeOK
<1>3. ready' \in [Segments -> [Runs -> 0..1]]
  <2>1. ready \in [Segments -> [Runs -> 0..1]] /\ 0 \in 0..1
    BY DEF StartupTypeOK
  <2> QED
    BY <2>1 DEF Construct
<1> QED
  BY <1>1, <1>2, <1>3 DEF Construct, StartupTypeOK, fileVars, heldVars, runVars, Steps

LEMMA PublishTypes ==
  ASSUME StartupTypeOK, NEW s \in Segments, Publish(s)
  PROVE  StartupTypeOK'
<1>1. at' \in [Processes -> Positions]
  BY DEF Publish, StartupTypeOK, Positions, Parts
<1>2. step' \in [Processes -> Steps]
  BY DEF Publish, StartupTypeOK, Steps
<1>3. ready' \in [Segments -> [Runs -> 0..1]]
  <2>1. ready \in [Segments -> [Runs -> 0..1]] /\ 1 \in 0..1
    BY DEF StartupTypeOK
  <2> QED
    BY <2>1 DEF Publish
<1> QED
  BY <1>1, <1>2, <1>3 DEF Publish, StartupTypeOK, fileVars, heldVars, runVars, Positions, Steps

LEMMA MapSegmentTypes ==
  ASSUME StartupTypeOK, NEW p \in Others, NEW s \in Segments, MapSegment(p, s)
  PROVE  StartupTypeOK'
<1>1. at' \in [Processes -> Positions] /\ step' \in [Processes -> Steps]
  BY ThrowTypes DEF MapSegment, Is, Go, StartupTypeOK, Positions, Steps
<1> QED
  BY <1>1 DEF MapSegment, StartupTypeOK, segmentVars, fileVars, heldVars, runVars, Positions, Steps

\* A token is taken only where there is one, from a segment that was mapped.
LEMMA FindReadyTypes ==
  ASSUME StartupTypeOK, HeldSegments, NEW p \in Others, NEW s \in Segments, FindReady(p, s)
  PROVE  StartupTypeOK'
<1>1. at' \in [Processes -> Positions] /\ step' \in [Processes -> Steps]
  BY AdvanceTypes DEF FindReady, Is, Parts
<1>2. ready' \in [Segments -> [Runs -> 0..1]]
  <2>1. CASE s = "chooser" /\ variant # "haproxy"
    <3> DEFINE r == mapped[p][s]
    <3>1. ready[s][r] > 0 /\ ready' = [ready EXCEPT ![s][r] = @ - 1]
      BY <2>1 DEF FindReady
    <3>2. r \in Runs
      BY DEF FindReady, Is, StartupTypeOK, HeldSegments
    <3> HIDE DEF r
    <3>3. ready[s][r] \in 0..1
      BY <3>2, SegmentTypes
    <3>4. ready[s][r] - 1 \in 0..1
      BY <3>1, <3>3
    <3> QED
      BY <3>1, <3>2, <3>4, SegmentTypes
  <2>2. CASE ~(s = "chooser" /\ variant # "haproxy")
    BY <2>2 DEF FindReady, StartupTypeOK
  <2> QED
    BY <2>1, <2>2
<1> QED
  BY <1>1, <1>2 DEF FindReady, StartupTypeOK, fileVars, heldVars, runVars, Positions, Steps

LEMMA PostReadyTypes ==
  ASSUME StartupTypeOK, Tokens, PostReady
  PROVE  StartupTypeOK'
<1>1. token < run
  BY DEF PostReady, Is, Tokens, On, HasPosted, DatabaseAt
<1>2. token' \in 0..MaxRuns
  BY <1>1, TokenTypes DEF PostReady
<1> QED
  BY <1>2 DEF PostReady, Go, StartupTypeOK, segmentVars, heldVars, runVars

LEMMA WaitForDatabaseTypes ==
  ASSUME StartupTypeOK, NEW p \in Processes, WaitForDatabase(p)
  PROVE  StartupTypeOK'
<1>1. token' \in 0..MaxRuns
  BY TokenTypes DEF WaitForDatabase
<1> QED
  BY <1>1 DEF WaitForDatabase, StartupTypeOK, Go, segmentVars, heldVars, runVars

LEMMA ResolveBackendsTypes ==
  ASSUME StartupTypeOK, ResolveBackends
  PROVE  StartupTypeOK'
<1>1. at' \in [Processes -> Positions] /\ step' \in [Processes -> Steps]
  BY ThrowTypes, AdvanceTypes DEF ResolveBackends, Is, Parts
<1> QED
  BY <1>1 DEF ResolveBackends, StartupTypeOK, segmentVars, fileVars, heldVars, runVars,
              Positions, Steps

LEMMA StartOtherTypes ==
  ASSUME StartupTypeOK, NEW p \in Others, StartOther(p)
  PROVE  StartupTypeOK'
<1>1. at' \in [Processes -> Positions] /\ step' \in [Processes -> Steps]
  BY EnterTypes, VariantsAssumption DEF StartOther, Positions, Parts, StartupTypeOK
<1>2. starts' \in [Others -> Nat] /\ \A q \in Others : starts'[q] <= MaxStarts[q]
  <2>1. starts[p] < MaxStarts[p] /\ starts' = [starts EXCEPT ![p] = starts[p] + 1]
    BY DEF StartOther
  <2>2. starts[p] \in Nat /\ MaxStarts[p] \in Nat
    BY BoundsAssumption DEF StartupTypeOK
  <2>3. starts[p] + 1 \in Nat /\ starts[p] + 1 <= MaxStarts[p]
    BY <2>1, <2>2
  <2>4. starts \in [Others -> Nat] /\ \A q \in Others : starts[q] <= MaxStarts[q]
    BY DEF StartupTypeOK
  <2> HIDE DEF Others
  <2> QED
    BY <2>1, <2>3, <2>4
<1>3. late' \in [Others -> BOOLEAN]
  BY DEF StartOther, StartupTypeOK
<1> QED
  BY <1>1, <1>2, <1>3 DEF StartOther, StartupTypeOK, segmentVars, fileVars, heldVars,
                          Positions, Steps

LEMMA StopOtherTypes ==
  ASSUME StartupTypeOK, NEW p \in Others, StopOther(p)
  PROVE  StartupTypeOK'
<1>1. at' \in [Processes -> Positions] /\ step' \in [Processes -> Steps]
  BY EnterTypes DEF StopOther, Positions
<1>2. mapped' \in [Processes -> [Segments -> 0..MaxRuns]] /\ opened' \in [Processes -> 0..MaxRuns \cup {Removed}]
  BY BoundsAssumption DEF StopOther, StartupTypeOK
<1> QED
  BY <1>1, <1>2 DEF StopOther, StartupTypeOK, segmentVars, fileVars, runVars, Positions, Steps

LEMMA StopAllTypes ==
  ASSUME StartupTypeOK, NEW survives \in BOOLEAN, StopAll(survives)
  PROVE  StartupTypeOK'
<1>1. at' \in [Processes -> Positions] /\ step' \in [Processes -> Steps]
  BY DEF StopAll, Positions, Steps
<1>2. /\ name' \in [Segments -> 0..MaxRuns] /\ token' \in 0..MaxRuns
      /\ mapped' \in [Processes -> [Segments -> 0..MaxRuns]]
      /\ opened' \in [Processes -> 0..MaxRuns \cup {Removed}]
  BY BoundsAssumption DEF StopAll, StartupTypeOK
<1>3. stage' \in [Segments -> [Runs -> {"none", "empty", "zeros", "built"}]]
  <2> DEFINE new(s) == [r \in Runs |-> IF r = name'[s] THEN stage[s][r] ELSE "none"]
  <2>1. \A s \in Segments : new(s) \in [Runs -> {"none", "empty", "zeros", "built"}]
    BY DEF StartupTypeOK
  <2>2. stage' = [s \in Segments |-> new(s)]
    BY DEF StopAll
  <2> HIDE DEF new
  <2> QED
    BY <2>1, <2>2
<1>4. ready' \in [Segments -> [Runs -> 0..1]]
  <2> DEFINE new(s) == [r \in Runs |-> IF r = name'[s] THEN ready[s][r] ELSE 0]
  <2>1. ASSUME NEW s \in Segments PROVE new(s) \in [Runs -> 0..1]
    <3>1. \A r \in Runs : ready[s][r] \in 0..1
      BY DEF StartupTypeOK
    <3>2. 0 \in 0..1
      OBVIOUS
    <3> QED
      BY <3>1, <3>2
  <2>2. ready' = [s \in Segments |-> new(s)]
    BY DEF StopAll
  <2> HIDE DEF new
  <2> QED
    BY <2>1, <2>2
<1> QED
  BY <1>1, <1>2, <1>3, <1>4 DEF StopAll, StartupTypeOK, runVars, Positions, Steps

-----------------------------------------------------------------------------
(* Startup: the invariants of the actions that take more than one step.    *)

LEMMA StartOtherPlaces ==
  ASSUME StartupTypeOK, Places, NEW p \in Others, StartOther(p)
  PROVE  Places'
<1> DEFINE first == CASE p = "api2"                     -> "chooser"
                      [] p = "proxy" /\ variant = "ipc"   -> "ipc"
                      [] p = "proxy" /\ variant = "boost" -> "resolve"
<1>1. at' = [at EXCEPT ![p] = first] /\ step' = [step EXCEPT ![p] = "begin"]
  BY DEF StartOther, Enter
<1>2. /\ p = "api2" => first = "chooser"
      /\ p = "proxy" => variant # "haproxy" /\ first = IF variant = "ipc" THEN "ipc" ELSE "resolve"
  BY VariantsAssumption DEF StartOther, StartupTypeOK
<1> HIDE DEF first
<1>3. at'[p] = first /\ step'[p] = "begin"
  BY <1>1, ControlTypes
<1>4. \A q \in Processes \ {p} : at'[q] = at[q] /\ step'[q] = step[q]
  BY <1>1, ControlTypes
<1>5. UNCHANGED <<variant, run>> /\ at[Coordinator] # "off"
  BY DEF StartOther
<1>6. /\ late'[p] = (at[Coordinator] = "serving")
      /\ \A q \in Others \ {p} : late'[q] = late[q]
  BY DEF StartOther, StartupTypeOK
<1>7. at'[Coordinator] = at[Coordinator] /\ step'[Coordinator] = step[Coordinator]
  BY <1>4
<1>8. \A q \in Processes : at'[q] = "ipc" => variant' = "ipc"
  BY <1>2, <1>3, <1>4, <1>5 DEF Places
<1>9. ASSUME NEW q \in Others
      PROVE  /\ at'[q] # "off" => On'
             /\ late'[q] /\ at'[q] # "off" => at'[Coordinator] = "serving"
             /\ at'[q] \in Segments => step'[q] \in {"begin", "opened", "mapped", "waiting", "forgotten"}
             /\ at'[q] = "database" => step'[q] \in {"begin", "told", "opened", "writing"}
  <2>1. CASE q = p
    BY <2>1, <1>2, <1>3, <1>5, <1>6, <1>7 DEF On
  <2>2. CASE q # p
    BY <2>2, <1>4, <1>6, <1>7 DEF Places, On
  <2> QED
    BY <2>1, <2>2
<1>10. /\ at'["api2"] # "resolve" /\ at'["proxy"] \notin {"chooser", "database", "stuck"}
       /\ at'["proxy"] = "resolve" => variant' # "ipc"
  BY <1>2, <1>3, <1>4, <1>5 DEF Places
<1> QED
  BY <1>5, <1>7, <1>8, <1>9, <1>10 DEF Places, On

\* Nobody else runs when the coordinator starts, and nobody has a segment open.
LEMMA StartCoordinatorSegments ==
  ASSUME StartupTypeOK, Places, HeldSegments, StartCoordinator
  PROVE  HeldSegments'
<1>1. \A p \in Others : at[p] = "off" /\ mapped[p] = [s \in Segments |-> 0]
  BY SegmentTypes DEF StartCoordinator, Places, On, HeldSegments
<1>2. \A p \in Others : at'[p] = "off"
  BY <1>1, ControlTypes DEF StartCoordinator, Enter
<1> QED
  BY <1>1, <1>2 DEF StartCoordinator, heldVars, HeldSegments, Parts, Sheltered

LEMMA OpenDatabaseDatabases ==
  ASSUME StartupIInv, NEW p \in Processes, OpenDatabase(p)
  PROVE  Tokens' /\ Databases' /\ HeldDatabases'
<1> USE DEF StartupIInv
<1>1. Tokens' /\ Databases'
  BY ControlTypes, TokenTypes
     DEF OpenDatabase, Is, Go, runVars, Places, On, HasPosted, HasDatabase, DatabaseAt, Tokens,
         Databases
<1>2. p # "proxy" /\ at[p] = "database"
  BY DEF OpenDatabase, Is, Places
<1>3. \A q \in Processes :
        /\ at'[q] = at[q]
        /\ step'[q] = IF q = p THEN "opened" ELSE step[q]
        /\ opened'[q] = IF q = p THEN database' ELSE opened[q]
  BY ControlTypes DEF OpenDatabase, Go, StartupTypeOK
<1>4. HeldDatabases'
  BY <1>2, <1>3
     DEF OpenDatabase, Is, runVars, Places, Databases, HeldDatabases, Sheltered, DatabaseAt,
         HasDatabase, HasPosted, On
<1> QED
  BY <1>1, <1>4

LEMMA StopOtherDatabases ==
  ASSUME StartupIInv, NEW p \in Others, StopOther(p)
  PROVE  Tokens' /\ Databases' /\ HeldDatabases'
<1> USE DEF StartupIInv
<1>1. Tokens' /\ Databases'
  BY ControlTypes, TokenTypes
     DEF StopOther, Enter, fileVars, runVars, Places, On, HasPosted, HasDatabase, DatabaseAt,
         Tokens, Databases
<1>2. opened'[p] = 0 /\ at'[p] = "off"
  BY DEF StopOther, StartupTypeOK, Enter
<1>3. \A q \in Processes \ {p} : opened'[q] = opened[q] /\ at'[q] = at[q] /\ step'[q] = step[q]
  BY ControlTypes DEF StopOther, StartupTypeOK, Enter
<1>4. HeldDatabases'
  BY <1>2, <1>3
     DEF HeldDatabases, Sheltered, DatabaseAt, HasDatabase, StopOther, fileVars, runVars
<1> QED
  BY <1>1, <1>4

-----------------------------------------------------------------------------
(* Startup: every action keeps the invariant.                              *)

LEMMA StartCoordinatorKeeps ==
  ASSUME StartupIInv, StartCoordinator
  PROVE  StartupIInv'
<1>1. HeldSegments'
  BY StartCoordinatorSegments DEF StartupIInv
<1> USE DEF StartupIInv, StartCoordinator, segmentVars, fileVars, heldVars, Enter
<1>2. StartupTypeOK'
  BY VariantsAssumption, SegmentTypes, BoundsAssumption DEF StartupTypeOK, Parts
<1>3. Places'
  BY ControlTypes DEF Places, On
<1>4. Names' /\ Built'
  BY ControlTypes, SegmentTypes DEF Names, Built, HasBuilt, Creates
<1>5. Tokens' /\ Databases' /\ HeldDatabases'
  BY TokenTypes DEF Tokens, Databases, HeldDatabases, Places, DatabaseAt, HasDatabase, On
<1> QED
  BY <1>1, <1>2, <1>3, <1>4, <1>5

LEMMA RemoveSegmentKeeps ==
  ASSUME StartupIInv, NEW s \in Segments, RemoveSegment(s)
  PROVE  StartupIInv'
<1> USE DEF StartupIInv, RemoveSegment, fileVars, heldVars, runVars, Is, Go
<1>1. StartupTypeOK'
  BY BoundsAssumption DEF StartupTypeOK
<1>2. Places'
  BY DEF Places, On
<1>3. Names' /\ Built'
  BY DEF Names, Built, Places, On, HasBuilt, Creates
<1>4. HeldSegments'
  BY DEF HeldSegments, HasBuilt, Creates, Sheltered
<1>5. Tokens' /\ Databases' /\ HeldDatabases'
  BY DEF Tokens, Databases, HeldDatabases, Sheltered, DatabaseAt, HasDatabase, HasPosted, On
<1> QED
  BY <1>1, <1>2, <1>3, <1>4, <1>5

LEMMA CreateSegmentKeeps ==
  ASSUME StartupIInv, NEW s \in Segments, CreateSegment(s)
  PROVE  StartupIInv'
<1> USE DEF StartupIInv, CreateSegment, fileVars, heldVars, runVars, Is, Go
<1>1. StartupTypeOK'
  BY DEF StartupTypeOK
<1>2. Places'
  BY DEF Places, On
<1>3. Names' /\ Built'
  BY ControlTypes, SegmentTypes DEF Names, Built, Places, On, HasBuilt, Creates
<1>4. HeldSegments'
  BY DEF HeldSegments, HasBuilt, Creates, Sheltered
<1>5. Tokens' /\ Databases' /\ HeldDatabases'
  BY DEF Tokens, Databases, HeldDatabases, Sheltered, DatabaseAt, HasDatabase, HasPosted, On
<1> QED
  BY <1>1, <1>2, <1>3, <1>4, <1>5

LEMMA TruncateKeeps ==
  ASSUME StartupIInv, NEW s \in Segments, Truncate(s)
  PROVE  StartupIInv'
<1> USE DEF StartupIInv, Truncate, fileVars, runVars, Is, Go
<1>1. StartupTypeOK'
  BY DEF StartupTypeOK
<1>2. Places'
  BY DEF Places, On
<1>3. Names' /\ Built'
  BY ControlTypes, SegmentTypes DEF Names, Built, Places, On, HasBuilt, Creates
<1>4. HeldSegments'
  BY DEF HeldSegments, Built, HasBuilt, Creates, Sheltered
<1>5. Tokens' /\ Databases' /\ HeldDatabases'
  BY DEF Tokens, Databases, HeldDatabases, Sheltered, DatabaseAt, HasDatabase, HasPosted, On
<1> QED
  BY <1>1, <1>2, <1>3, <1>4, <1>5

LEMMA ConstructKeeps ==
  ASSUME StartupIInv, NEW s \in Segments, Construct(s)
  PROVE  StartupIInv'
<1>1. StartupTypeOK'
  BY ConstructTypes DEF StartupIInv
<1> USE DEF StartupIInv, Construct, fileVars, heldVars, runVars, Is
<1>2. Places'
  BY DEF Places, On
<1>3. Names' /\ Built'
  BY SegmentTypes, TokenTypes DEF Names, Built, Places, On, HasBuilt, Creates
<1>4. HeldSegments'
  BY DEF HeldSegments, HasBuilt, Creates, Sheltered
<1>5. Tokens' /\ Databases' /\ HeldDatabases'
  BY DEF Tokens, Databases, HeldDatabases, Sheltered, DatabaseAt, HasDatabase, HasPosted, On
<1> QED
  BY <1>1, <1>2, <1>3, <1>4, <1>5

LEMMA PublishKeeps ==
  ASSUME StartupIInv, NEW s \in Segments, Publish(s)
  PROVE  StartupIInv'
<1>1. StartupTypeOK'
  BY PublishTypes DEF StartupIInv
<1> USE DEF StartupIInv, Publish, fileVars, heldVars, runVars, Is
<1>2. Places'
  BY DEF Places, On
<1>3. Names' /\ Built'
  BY ControlTypes DEF Names, Built, On, HasBuilt, Creates
<1>4. HeldSegments'
  BY ControlTypes DEF HeldSegments, HasBuilt, Creates, Sheltered
<1>5. Tokens' /\ Databases' /\ HeldDatabases'
  BY DEF Tokens, Databases, HeldDatabases, Sheltered, DatabaseAt, HasDatabase, HasPosted, On
<1> QED
  BY <1>1, <1>2, <1>3, <1>4, <1>5

LEMMA OpenSegmentKeeps ==
  ASSUME StartupIInv, NEW p \in Others, NEW s \in Segments, OpenSegment(p, s)
  PROVE  StartupIInv'
<1> USE DEF StartupIInv, OpenSegment, segmentVars, fileVars, runVars, Is, Go
<1>1. StartupTypeOK'
  BY DEF StartupTypeOK
<1>2. Places'
  BY DEF Places, On
<1>3. Names' /\ Built'
  BY DEF Names, Built, On, HasBuilt, Creates
<1>4. HeldSegments'
  BY VariantsAssumption, SegmentTypes DEF HeldSegments, Places, Names, HasBuilt, Creates,
         Sheltered
<1>5. Tokens' /\ Databases' /\ HeldDatabases'
  BY DEF Tokens, Databases, HeldDatabases, Sheltered, DatabaseAt, HasDatabase, HasPosted, On
<1> QED
  BY <1>1, <1>2, <1>3, <1>4, <1>5

LEMMA NoSegmentKeeps ==
  ASSUME StartupIInv, NEW p \in Others, NEW s \in Segments, NoSegment(p, s)
  PROVE  StartupIInv'
<1> USE DEF StartupIInv, NoSegment, segmentVars, fileVars, heldVars, runVars, Is, Throw,
             Enter, EndsByException
<1>1. StartupTypeOK'
  BY DEF StartupTypeOK
<1>2. Places'
  BY DEF Places, On
<1>3. Names' /\ Built'
  BY DEF Names, Built, On, HasBuilt, Creates
<1>4. HeldSegments'
  BY DEF HeldSegments, Parts, HasBuilt, Creates, Sheltered
<1>5. Tokens' /\ Databases' /\ HeldDatabases'
  BY DEF Tokens, Databases, HeldDatabases, Sheltered, DatabaseAt, HasDatabase, HasPosted, On
<1> QED
  BY <1>1, <1>2, <1>3, <1>4, <1>5

LEMMA MapSegmentKeeps ==
  ASSUME StartupIInv, NEW p \in Others, NEW s \in Segments, MapSegment(p, s)
  PROVE  StartupIInv'
<1>1. StartupTypeOK'
  BY MapSegmentTypes DEF StartupIInv
<1> USE DEF StartupIInv, MapSegment, segmentVars, fileVars, heldVars, runVars, Is, Go,
             Throw, Enter, EndsByException
<1>2. Places'
  BY ControlTypes DEF Places, On
<1>3. Names' /\ Built'
  BY ControlTypes DEF Names, Built, On, HasBuilt, Creates
<1>4. HeldSegments'
  BY VariantsAssumption, ControlTypes DEF HeldSegments, Parts, HasBuilt, Creates, Sheltered
<1>5. Tokens' /\ Databases' /\ HeldDatabases'
  BY ControlTypes DEF Tokens, Databases, HeldDatabases, Sheltered, DatabaseAt, HasDatabase,
         HasPosted, On
<1> QED
  BY <1>1, <1>2, <1>3, <1>4, <1>5

LEMMA FindReadyKeeps ==
  ASSUME StartupIInv, NEW p \in Others, NEW s \in Segments, FindReady(p, s)
  PROVE  StartupIInv'
<1>1. StartupTypeOK'
  BY FindReadyTypes DEF StartupIInv
<1> USE DEF StartupIInv, FindReady, fileVars, heldVars, runVars, Is, Advance, Enter
<1>2. Places'
  BY ControlTypes DEF Places, On
<1>3. Names' /\ Built'
  BY VariantsAssumption, ControlTypes DEF Names, Built, On, HasBuilt, Creates
<1>4. HeldSegments'
  BY SegmentTypes DEF HeldSegments, Built, Parts, HasBuilt, Creates, Sheltered
<1>5. Tokens' /\ Databases' /\ HeldDatabases'
  BY DEF Tokens, Databases, HeldDatabases, Sheltered, DatabaseAt, HasDatabase, HasPosted, On
<1> QED
  BY <1>1, <1>2, <1>3, <1>4, <1>5

LEMMA SleepKeeps ==
  ASSUME StartupIInv, NEW p \in Others, NEW s \in Segments, Sleep(p, s)
  PROVE  StartupIInv'
<1> USE DEF StartupIInv, Sleep, segmentVars, fileVars, heldVars, runVars, Is, Go
<1>1. StartupTypeOK'
  BY DEF StartupTypeOK
<1>2. Places'
  BY DEF Places, On
<1>3. Names' /\ Built'
  BY DEF Names, Built, On, HasBuilt, Creates
<1>4. HeldSegments'
  BY DEF HeldSegments, HasBuilt, Creates, Sheltered
<1>5. Tokens' /\ Databases' /\ HeldDatabases'
  BY DEF Tokens, Databases, HeldDatabases, Sheltered, DatabaseAt, HasDatabase, HasPosted, On
<1> QED
  BY <1>1, <1>2, <1>3, <1>4, <1>5

LEMMA RemoveDatabaseKeeps ==
  ASSUME StartupIInv, RemoveDatabase
  PROVE  StartupIInv'
<1> USE DEF StartupIInv, RemoveDatabase, segmentVars, runVars, Is, Go
<1>1. StartupTypeOK'
  BY BoundsAssumption DEF StartupTypeOK
<1>2. Places'
  BY DEF Places, On
<1>3. Names' /\ Built'
  BY DEF Names, Built, On, HasBuilt, Creates
<1>4. HeldSegments'
  BY DEF HeldSegments, HasBuilt, Creates, Sheltered
<1>5. Tokens' /\ Databases'
  BY DEF Tokens, Databases, DatabaseAt, HasDatabase, HasPosted, On
<1>6. HeldDatabases'
  <2>1. run # 0 /\ ~HasDatabase
    BY DEF Places, On, HasDatabase, DatabaseAt
  <2>2. \A p \in Processes : opened'[p] = IF opened[p] = run THEN Removed ELSE opened[p]
    OBVIOUS
  <2>3. Removed # 0
    BY DEF Removed
  <2> QED
    BY <2>1, <2>2, <2>3 DEF HeldDatabases, Sheltered, DatabaseAt
<1> QED
  BY <1>1, <1>2, <1>3, <1>4, <1>5, <1>6

LEMMA PostReadyKeeps ==
  ASSUME StartupIInv, PostReady
  PROVE  StartupIInv'
<1>1. StartupTypeOK'
  BY PostReadyTypes DEF StartupIInv
<1> USE DEF StartupIInv, PostReady, segmentVars, heldVars, runVars, Is, Go
<1>2. Places'
  BY DEF Places, On
<1>3. Names' /\ Built'
  BY DEF Names, Built, On, HasBuilt, Creates
<1>4. HeldSegments'
  BY DEF HeldSegments, HasBuilt, Creates, Sheltered
<1>5. Tokens' /\ Databases' /\ HeldDatabases'
  BY ControlTypes, TokenTypes DEF Tokens, Databases, HeldDatabases, Sheltered, DatabaseAt,
         HasDatabase, HasPosted, On
<1> QED
  BY <1>1, <1>2, <1>3, <1>4, <1>5

LEMMA WaitForDatabaseKeeps ==
  ASSUME StartupIInv, NEW p \in Processes, WaitForDatabase(p)
  PROVE  StartupIInv'
<1>1. StartupTypeOK'
  BY WaitForDatabaseTypes DEF StartupIInv
<1> USE DEF StartupIInv, WaitForDatabase, segmentVars, heldVars, runVars, Is, Go
<1>2. Places'
  BY DEF Places, On
<1>3. Names' /\ Built'
  BY DEF Names, Built, On, HasBuilt, Creates
<1>4. HeldSegments'
  BY DEF HeldSegments, HasBuilt, Creates, Sheltered
<1>5. Tokens' /\ Databases' /\ HeldDatabases'
  BY TokenTypes DEF Tokens, Databases, HeldDatabases, Places, Sheltered, DatabaseAt,
         HasDatabase, HasPosted
<1> QED
  BY <1>1, <1>2, <1>3, <1>4, <1>5

LEMMA OpenDatabaseKeeps ==
  ASSUME StartupIInv, NEW p \in Processes, OpenDatabase(p)
  PROVE  StartupIInv'
<1>1. Tokens' /\ Databases' /\ HeldDatabases'
  BY OpenDatabaseDatabases DEF StartupIInv
<1> USE DEF StartupIInv, OpenDatabase, segmentVars, runVars, Is, Go
<1>2. StartupTypeOK'
  BY DEF StartupTypeOK
<1>3. Places'
  BY DEF Places, On
<1>4. Names' /\ Built'
  BY DEF Names, Built, On, HasBuilt, Creates
<1>5. HeldSegments'
  BY DEF HeldSegments, HasBuilt, Creates, Sheltered
<1> QED
  BY <1>1, <1>2, <1>3, <1>4, <1>5

LEMMA NoDatabaseKeeps ==
  ASSUME StartupIInv, NEW p \in Processes, NoDatabase(p)
  PROVE  StartupIInv'
<1> USE DEF StartupIInv, NoDatabase, segmentVars, fileVars, heldVars, runVars, Is,
             ThrowConnection, Throw, Enter, EndsByException
<1>1. StartupTypeOK'
  BY ThrowConnectionTypes DEF StartupTypeOK, Positions, Steps
<1>2. Places'
  BY ControlTypes DEF Places, On
<1>3. Names' /\ Built'
  BY ControlTypes DEF Names, Built, On, HasBuilt, Creates
<1>4. HeldSegments'
  BY ControlTypes DEF HeldSegments, HasBuilt, Creates, Sheltered, Places, Parts
<1>5. Tokens' /\ Databases' /\ HeldDatabases'
  BY ControlTypes DEF Tokens, Databases, HeldDatabases, Sheltered, DatabaseAt, HasDatabase,
         HasPosted, On
<1> QED
  BY <1>1, <1>2, <1>3, <1>4, <1>5

\* The coordinator gets stuck in Connection() only, before its token is posted.
LEMMA ConnectionThrowsKeeps ==
  ASSUME StartupIInv, NEW p \in Processes, ConnectionThrows(p)
  PROVE  StartupIInv'
<1> USE DEF StartupIInv, ConnectionThrows, segmentVars, heldVars, runVars, Is,
             ThrowConnection, Throw, Enter, EndsByException
<1>1. StartupTypeOK'
  BY ThrowConnectionTypes DEF StartupTypeOK, Positions, Steps
<1>2. Places'
  BY ControlTypes DEF Places, On
<1>3. Names' /\ Built'
  BY ControlTypes DEF Names, Built, On, HasBuilt, Creates
<1>4. HeldSegments'
  BY ControlTypes DEF HeldSegments, HasBuilt, Creates, Sheltered, Places, Parts
<1>5. Tokens' /\ Databases' /\ HeldDatabases'
  BY ControlTypes DEF Tokens, Databases, HeldDatabases, Sheltered, DatabaseAt, HasDatabase,
         HasPosted, On, Places
<1> QED
  BY <1>1, <1>2, <1>3, <1>4, <1>5

\* Nobody has the database open that a coordinator is going to remove, or this
\* run is not one that has found nothing left.
LEMMA ConnectAgainKeeps ==
  ASSUME StartupIInv, NEW p \in Processes, ConnectAgain(p)
  PROVE  StartupIInv'
<1> USE DEF StartupIInv, ConnectAgain, segmentVars, fileVars, heldVars, Enter
<1>1. StartupTypeOK'
  BY DEF StartupTypeOK, Parts
<1>2. Places'
  BY ControlTypes DEF Places, On
<1>3. Names' /\ Built'
  BY ControlTypes DEF Names, Built, On, HasBuilt, Creates
<1>4. HeldSegments'
  <2>1. \A q \in Others : Sheltered(q)' => Sheltered(q)
    BY DEF Sheltered
  <2>2. /\ at'[p] = "database" /\ step'[p] = "begin" /\ variant = "haproxy" /\ at[p] = "stuck"
        /\ \A q \in Processes \ {p} : at'[q] = at[q] /\ step'[q] = step[q]
    BY ControlTypes
  <2>3. \A s \in Segments : HasBuilt(s) \/ Creates(s) => HasBuilt(s)' \/ Creates(s)'
    BY <2>2 DEF HasBuilt, Creates
  <2> QED
    BY <2>1, <2>2, <2>3 DEF HeldSegments, Places
<1>5. Tokens' /\ Databases' /\ HeldDatabases'
  BY ControlTypes DEF Tokens, Databases, HeldDatabases, Sheltered, DatabaseAt, HasDatabase,
         HasPosted, On, Places
<1> QED
  BY <1>1, <1>2, <1>3, <1>4, <1>5

LEMMA BeginTransactionKeeps ==
  ASSUME StartupIInv, NEW p \in Processes, BeginTransaction(p)
  PROVE  StartupIInv'
<1> USE DEF StartupIInv, BeginTransaction, segmentVars, fileVars, heldVars, runVars, Is, Go
<1>1. StartupTypeOK'
  BY DEF StartupTypeOK
<1>2. Places'
  BY DEF Places, On
<1>3. Names' /\ Built'
  BY DEF Names, Built, On, HasBuilt, Creates
<1>4. HeldSegments'
  BY DEF HeldSegments, HasBuilt, Creates, Sheltered
<1>5. Tokens' /\ Databases' /\ HeldDatabases'
  BY DEF Tokens, Databases, HeldDatabases, Sheltered, DatabaseAt, HasDatabase, HasPosted, On
<1> QED
  BY <1>1, <1>2, <1>3, <1>4, <1>5

LEMMA EndTransactionKeeps ==
  ASSUME StartupIInv, NEW p \in Processes, EndTransaction(p)
  PROVE  StartupIInv'
<1> USE DEF StartupIInv, EndTransaction, segmentVars, fileVars, heldVars, runVars, Is,
             Advance, Enter
<1>1. StartupTypeOK'
  BY DEF StartupTypeOK, Parts
<1>2. Places'
  BY ControlTypes DEF Places, On
<1>3. Names' /\ Built'
  BY DEF Names, Built, On, HasBuilt, Creates
<1>4. HeldSegments'
  BY ControlTypes DEF HeldSegments, HasBuilt, Creates, Sheltered, Places, Parts
<1>5. Tokens' /\ Databases' /\ HeldDatabases'
  BY ControlTypes DEF Tokens, Databases, HeldDatabases, Sheltered, DatabaseAt, HasDatabase,
         HasPosted, On
<1> QED
  BY <1>1, <1>2, <1>3, <1>4, <1>5

LEMMA ResolveBackendsKeeps ==
  ASSUME StartupIInv, ResolveBackends
  PROVE  StartupIInv'
<1>1. StartupTypeOK'
  BY ResolveBackendsTypes DEF StartupIInv
<1> USE DEF StartupIInv, ResolveBackends, segmentVars, fileVars, heldVars, runVars, Is,
             Advance, Throw, Enter, EndsByException
<1>2. Places'
  BY ControlTypes DEF Places, On
<1>3. Names' /\ Built'
  BY ControlTypes DEF Names, Built, On, HasBuilt, Creates
<1>4. HeldSegments'
  BY ControlTypes DEF HeldSegments, Places, HasBuilt, Creates, Sheltered, Parts
<1>5. Tokens' /\ Databases' /\ HeldDatabases'
  BY ControlTypes DEF Tokens, Databases, HeldDatabases, Sheltered, DatabaseAt, HasDatabase,
         HasPosted, On
<1> QED
  BY <1>1, <1>2, <1>3, <1>4, <1>5

LEMMA StartOtherKeeps ==
  ASSUME StartupIInv, NEW p \in Others, StartOther(p)
  PROVE  StartupIInv'
<1>1. StartupTypeOK'
  BY StartOtherTypes DEF StartupIInv
<1>2. Places'
  BY StartOtherPlaces DEF StartupIInv
<1> USE DEF StartupIInv, StartOther, segmentVars, fileVars, heldVars, Enter
<1>3. Names' /\ Built'
  BY DEF Names, Built, On, HasBuilt, Creates
<1>4. HeldSegments'
  BY ControlTypes DEF HeldSegments, HasBuilt, Creates, Sheltered
<1>5. Tokens' /\ Databases' /\ HeldDatabases'
  BY DEF Tokens, Databases, HeldDatabases, Sheltered, DatabaseAt, HasDatabase, HasPosted, On
<1> QED
  BY <1>1, <1>2, <1>3, <1>4, <1>5

LEMMA StopOtherKeeps ==
  ASSUME StartupIInv, NEW p \in Others, StopOther(p)
  PROVE  StartupIInv'
<1>1. StartupTypeOK'
  BY StopOtherTypes DEF StartupIInv
<1>2. Tokens' /\ Databases' /\ HeldDatabases'
  BY StopOtherDatabases DEF StartupIInv
<1> USE DEF StartupIInv, StopOther, segmentVars, fileVars, runVars, Enter
<1>3. Places'
  BY DEF Places, On
<1>4. Names' /\ Built'
  BY DEF Names, Built, On, HasBuilt, Creates
<1>5. HeldSegments'
  BY ControlTypes, SegmentTypes DEF HeldSegments, HasBuilt, Creates, Sheltered
<1> QED
  BY <1>1, <1>2, <1>3, <1>4, <1>5

LEMMA StopAllKeeps ==
  ASSUME StartupIInv, NEW survives \in BOOLEAN, StopAll(survives)
  PROVE  StartupIInv'
<1>1. StartupTypeOK'
  BY StopAllTypes DEF StartupIInv
<1> USE DEF StartupIInv, StopAll, runVars
<1>2. Places'
  BY DEF Places, On
<1>3. Names' /\ Built'
  BY DEF Names, Built, Places, On, HasBuilt, Creates
<1>4. HeldSegments'
  BY DEF HeldSegments
<1>5. Tokens' /\ Databases' /\ HeldDatabases'
  BY DEF Tokens, Databases, HeldDatabases, Places, DatabaseAt, HasDatabase, On
<1> QED
  BY <1>1, <1>2, <1>3, <1>4, <1>5

LEMMA StutterKeeps == StartupIInv /\ UNCHANGED startupVars => StartupIInv'
<1> SUFFICES ASSUME StartupIInv, UNCHANGED startupVars PROVE StartupIInv'
  OBVIOUS
<1> USE DEF StartupIInv, startupVars, runVars, segmentVars, fileVars, heldVars
<1>1. StartupTypeOK' /\ Places'
  BY DEF StartupTypeOK, Places, On
<1>2. Names' /\ Built'
  BY DEF Names, Built, On, HasBuilt, Creates
<1>3. HeldSegments'
  BY DEF HeldSegments, HasBuilt, Creates, Sheltered
<1>4. Tokens' /\ Databases' /\ HeldDatabases'
  BY DEF Tokens, Databases, HeldDatabases, Sheltered, DatabaseAt, HasDatabase, HasPosted, On
<1> QED
  BY <1>1, <1>2, <1>3, <1>4

LEMMA StartupNextIInv == StartupIInv /\ [StartupNext]_startupVars => StartupIInv'
<1> SUFFICES ASSUME StartupIInv, [StartupNext]_startupVars PROVE StartupIInv'
  OBVIOUS
<1>1. CASE StartCoordinator
  BY <1>1, StartCoordinatorKeeps
<1>2. ASSUME NEW s \in Segments, CreatorStep(s) PROVE StartupIInv'
  BY <1>2, RemoveSegmentKeeps, CreateSegmentKeeps, TruncateKeeps, ConstructKeeps, PublishKeeps
     DEF CreatorStep
<1>3. ASSUME NEW p \in Others, NEW s \in Segments, OpenerStep(p, s) PROVE StartupIInv'
  BY <1>3, OpenSegmentKeeps, NoSegmentKeeps, MapSegmentKeeps, FindReadyKeeps, SleepKeeps
     DEF OpenerStep
<1>4. ASSUME NEW p \in Processes, ConnectionStep(p) PROVE StartupIInv'
  BY <1>4, RemoveDatabaseKeeps, PostReadyKeeps, WaitForDatabaseKeeps, OpenDatabaseKeeps,
     NoDatabaseKeeps, BeginTransactionKeeps, EndTransactionKeeps DEF ConnectionStep
<1>5. ASSUME NEW p \in Processes, ProcessStep(p) PROVE StartupIInv'
  <2>1. \/ \E s \in Segments : CreatorStep(s)
        \/ p \in Others /\ \E s \in Segments : OpenerStep(p, s)
        \/ ConnectionStep(p)
        \/ ResolveBackends
    BY <1>5 DEF ProcessStep
  <2> QED
    BY <2>1, <1>2, <1>3, <1>4, ResolveBackendsKeeps
<1>6. ASSUME NEW p \in Others, StartOther(p) \/ StopOther(p) PROVE StartupIInv'
  BY <1>6, StartOtherKeeps, StopOtherKeeps
<1>7. ASSUME NEW survives \in BOOLEAN, StopAll(survives) PROVE StartupIInv'
  BY <1>7, StopAllKeeps
<1>8. ASSUME NEW p \in Processes, ConnectionThrows(p) \/ ConnectAgain(p) PROVE StartupIInv'
  BY <1>8, ConnectionThrowsKeeps, ConnectAgainKeeps
<1> QED
  BY <1>1, <1>5, <1>6, <1>7, <1>8, StutterKeeps DEF StartupNext

LEMMA StartupInitIInv == StartupInit => StartupIInv
<1> SUFFICES ASSUME StartupInit PROVE StartupIInv
  OBVIOUS
<1> USE DEF StartupInit
<1>1. StartupTypeOK
  <2>1. MaxRuns \in Nat /\ 0 \in 0..MaxRuns /\ 0 \in 0..1 /\ \A p \in Others : MaxStarts[p] \in Nat
    BY BoundsAssumption
  <2>2. starts \in [Others -> Nat] /\ \A p \in Others : starts[p] <= MaxStarts[p]
    BY <2>1
  <2>3. ready \in [Segments -> [Runs -> 0..1]]
    BY <2>1
  <2>4. /\ name \in [Segments -> 0..MaxRuns] /\ mapped \in [Processes -> [Segments -> 0..MaxRuns]]
        /\ opened \in [Processes -> 0..MaxRuns \cup {Removed}]
        /\ run \in 0..MaxRuns /\ token \in 0..MaxRuns /\ database \in 0..MaxRuns
    BY <2>1
  <2> QED
    BY <2>2, <2>3, <2>4 DEF StartupTypeOK
<1>2. Places /\ Tokens
  BY DEF Places, Tokens, On
<1>3. Names /\ Built
  BY DEF Names, Built, On, HasBuilt, Creates
<1>4. HeldSegments
  BY DEF HeldSegments, HasBuilt, Creates, Sheltered, Parts
<1>5. Databases /\ HeldDatabases
  BY DEF Databases, HeldDatabases, DatabaseAt, HasDatabase, On, Sheltered
<1> QED
  BY <1>1, <1>2, <1>3, <1>4, <1>5 DEF StartupIInv

LEMMA Shares == StartupIInv => SharesWithCoordinator
<1> SUFFICES ASSUME StartupIInv, NEW p \in Others, nothingLeft \/ late[p]
             PROVE  /\ at[p] = "serving" =>
                         /\ p = "api2" => mapped[p]["chooser"] = run /\ opened[p] = run
                         /\ variant = "ipc" => mapped[p]["ipc"] = run
                         /\ variant # "haproxy" =>
                              \A s \in Segments : mapped[p][s] # 0 => stage[s][mapped[p][s]] = "built"
                    /\ opened[p] \in {0, database}
                    /\ variant # "haproxy" /\ Is(p, "database", "told") => database = run
  BY DEF SharesWithCoordinator
<1> USE DEF StartupIInv
<1>1. ASSUME at[p] = "serving"
      PROVE  /\ p = "api2" => mapped[p]["chooser"] = run
             /\ variant = "ipc" => mapped[p]["ipc"] = run
             /\ variant # "haproxy" =>
                  \A s \in Segments : mapped[p][s] # 0 => stage[s][mapped[p][s]] = "built"
  BY <1>1 DEF HeldSegments, Sheltered
<1>2. p = "api2" /\ at[p] = "serving" => opened[p] = run
  BY DEF HeldDatabases, Sheltered, DatabaseAt
<1>3. opened[p] \in {0, database}
  BY DEF HeldDatabases, Databases, Sheltered
<1>4. variant # "haproxy" /\ Is(p, "database", "told") => database = run
  BY DEF Is, Places, Databases, DatabaseAt, HasDatabase, HasPosted
<1> QED
  BY <1>1, <1>2, <1>3, <1>4

THEOREM StartupInvariance == StartupSpec => []StartupIInv
BY StartupInitIInv, StartupNextIInv, PTL DEF StartupSpec

\* Every variable keeps its type: there is never more than one token in the
\* semaphore of a segment, and a token of the database for each run at most.
THEOREM StartupTyping == StartupSpec => []StartupTypeOK
<1>1. StartupIInv => StartupTypeOK
  BY DEF StartupIInv
<1> QED
  BY <1>1, StartupInvariance, PTL

\* Whoever is in service works on what this run of the coordinator made: see
\* SharesWithCoordinator.
THEOREM SharesWithCoordinatorTheorem == StartupSpec => []SharesWithCoordinator
BY Shares, StartupInvariance, PTL

=============================================================================

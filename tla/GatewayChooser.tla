--------------------------- MODULE GatewayChooser ---------------------------
(***************************************************************************)
(* The gateway chooser thread of the coordinator (GatewayChooserService)   *)
(* and the processors it races with.                                       *)
(*                                                                         *)
(* In a loop the chooser loads the current gateway from shared memory,     *)
(* polls the health of both gateways, which may take long, decides, and    *)
(* stores its choice if it differs from the gateway it LOADED.  Meanwhile  *)
(* any processor of any instance whose payment was refused stores the      *)
(* other gateway.  An answer that cannot be had leaves the last known      *)
(* health in place.                                                        *)
(***************************************************************************)
EXTENDS Naturals

CONSTANTS Instances,        \* the API processes, one processor each
          ResponseTimes,    \* the values of minResponseTime
          Unknown,          \* no answer of this gateway yet (std::nullopt)
          Unreachable,      \* the gateway answers nothing
          None,             \* no payment on its way
          MaxHealthChanges  \* how often the health of a gateway changes (bound)

ASSUME TimesAssumption == ResponseTimes \subseteq Nat
ASSUME BoundAssumption == MaxHealthChanges \in Nat

Gateways == {"default", "fallback"}

Other(g) == IF g = "default" THEN "fallback" ELSE "default"

\* GatewayHealthResponse
Healths == [failing : BOOLEAN, minResponseTime : ResponseTimes]

ASSUME UnknownAssumption ==
  /\ Unknown \notin Healths /\ Unreachable \notin Healths /\ Unknown # Unreachable
  /\ None \notin Gateways

VARIABLES
  currentGateway, \* SharedData::currentGateway
  actual,         \* actual[g]: the health gateway g really has (external)
  health,         \* health[g]: defaultHealth and fallbackHealth
  currentChoice,  \* what the chooser loaded in this iteration
  pc,             \* where the chooser is
  attempt,        \* attempt[i]: the gateway the processor of i is asking
  refused,        \* refused[i]: it was refused, and is about to switch
  switched,       \* a processor switched since the chooser loaded (history)
  changes         \* number of health changes so far (bound)

chooserVars   == <<health, currentChoice, pc>>
processorVars == <<attempt, refused>>
envVars       == <<actual, changes>>
vars          == <<currentGateway, chooserVars, processorVars, switched, envVars>>

Init ==
  /\ currentGateway = "default"
  /\ actual \in [Gateways -> Healths \cup {Unreachable}]
  /\ health = [g \in Gateways |-> Unknown]
  /\ currentChoice = "default"
  /\ pc = "load"
  /\ attempt = [i \in Instances |-> None]
  /\ refused = [i \in Instances |-> FALSE]
  /\ switched = FALSE
  /\ changes = 0

-----------------------------------------------------------------------------
(* What the chooser prefers, of the health d of the default and f of the   *)
(* fallback gateway and the current gateway c.                             *)

Answering(h) == h # Unknown /\ ~h.failing
Failing(h)   == h # Unknown /\ h.failing

\* The default gateway works, but so slowly that its higher fee is not worth it.
Slow(d, f) ==
  /\ d.minResponseTime > 100
  /\ d.minResponseTime > 2 * f.minResponseTime

\* Mutant: a fallback gateway that is known to answer is kept while it is the
\* current one, whatever becomes of the default gateway.
NewChoice_KeepsFallback(d, f, c) ==
  IF \/ Failing(d) /\ ~Failing(f)
     \/ Answering(d) /\ Answering(f) /\ Slow(d, f)
     \/ Answering(f) /\ c = "fallback"
  THEN "fallback" ELSE "default"

\* Mutant: a failing default gateway is left whatever the fallback does.
NewChoice_LeavesFailing(d, f, c) ==
  IF \/ Failing(d)
     \/ Answering(d) /\ Answering(f) /\ Slow(d, f)
     \/ d = Unknown /\ Answering(f) /\ c = "fallback"
  THEN "fallback" ELSE "default"

NewChoice(d, f, c) ==
  IF \/ Failing(d) /\ ~Failing(f)
     \/ Answering(d) /\ Answering(f) /\ Slow(d, f)
     \/ d = Unknown /\ Answering(f) /\ c = "fallback"
  THEN "fallback" ELSE "default"

-----------------------------------------------------------------------------
(* The chooser thread.                                                     *)

\* Mutant: the current gateway is loaded once, before the loop.
Load_Once ==
  /\ pc = "load"
  /\ switched' = FALSE
  /\ pc' = "default"
  /\ UNCHANGED <<currentGateway, health, currentChoice, processorVars, envVars>>

Load ==
  /\ pc = "load"
  /\ currentChoice' = currentGateway
  /\ switched' = FALSE
  /\ pc' = "default"
  /\ UNCHANGED <<currentGateway, health, processorVars, envVars>>

\* pc names the gateway to poll; the default one is polled first.
AfterPoll == IF pc = "default" THEN "fallback" ELSE "decide"

\* getGatewayHealth returns what the gateway answered.
PollAnswered ==
  /\ pc \in Gateways
  /\ actual[pc] # Unreachable
  /\ health' = [health EXCEPT ![pc] = actual[pc]]
  /\ pc' = AfterPoll
  /\ UNCHANGED <<currentGateway, currentChoice, processorVars, switched, envVars>>

\* It returns nothing (an exception, or a status other than ok): the last
\* known health stays.
PollFailed ==
  /\ pc \in Gateways
  /\ pc' = AfterPoll
  /\ UNCHANGED <<currentGateway, health, currentChoice, processorVars, switched, envVars>>

\* Decide, and store the choice if it is not the gateway that was loaded.
Decide ==
  /\ pc = "decide"
  /\ LET choice == NewChoice(health["default"], health["fallback"], currentChoice) IN
       /\ currentGateway' = IF choice # currentChoice THEN choice ELSE currentGateway
       /\ currentChoice' = choice
  /\ pc' = "sleep"
  /\ UNCHANGED <<health, processorVars, switched, envVars>>

\* After POLL_TIME the next iteration polls both gateways again.
WakeUp ==
  /\ pc = "sleep"
  /\ pc' = "load"
  /\ UNCHANGED <<currentGateway, health, currentChoice, processorVars, switched, envVars>>

-----------------------------------------------------------------------------
(* The processors (PaymentProcessor::processPayment, see PaymentFlow).     *)

Attempt(i) ==
  /\ attempt[i] = None
  /\ attempt' = [attempt EXCEPT ![i] = currentGateway]
  /\ UNCHANGED <<currentGateway, chooserVars, refused, switched, envVars>>

\* The payment is accepted, or its connection fails: no switch either way.
AttemptEnds(i) ==
  /\ attempt[i] # None /\ ~refused[i]
  /\ attempt' = [attempt EXCEPT ![i] = None]
  /\ UNCHANGED <<currentGateway, chooserVars, refused, switched, envVars>>

\* Any status other than ok is a refusal, and any gateway that answers may give
\* one: it need not be failing to find something wrong with a payment.
AttemptRefused(i) ==
  /\ attempt[i] # None /\ ~refused[i]
  /\ actual[attempt[i]] # Unreachable
  /\ refused' = [refused EXCEPT ![i] = TRUE]
  /\ UNCHANGED <<currentGateway, chooserVars, attempt, switched, envVars>>

\* switchGatewayTo the other gateway, however long ago this one was read.
SwitchGateway(i) ==
  /\ refused[i]
  /\ currentGateway' = Other(attempt[i])
  /\ attempt' = [attempt EXCEPT ![i] = None]
  /\ refused' = [refused EXCEPT ![i] = FALSE]
  /\ switched' = TRUE
  /\ UNCHANGED <<chooserVars, envVars>>

-----------------------------------------------------------------------------
\* The health of a gateway changes (external).
HealthChanges(g, h) ==
  /\ changes < MaxHealthChanges
  /\ h # actual[g]
  /\ changes' = changes + 1
  /\ actual' = [actual EXCEPT ![g] = h]
  /\ UNCHANGED <<currentGateway, chooserVars, processorVars, switched>>

Chooser == Load \/ PollAnswered \/ PollFailed \/ Decide \/ WakeUp

Processor(i) == Attempt(i) \/ AttemptEnds(i) \/ AttemptRefused(i) \/ SwitchGateway(i)

Next ==
  \/ Chooser
  \/ \E i \in Instances : Processor(i)
  \/ \E g \in Gateways, h \in Healths \cup {Unreachable} : HealthChanges(g, h)

Spec == Init /\ [][Next]_vars

\* The chooser thread runs, every request of a processor is answered, and a
\* gateway that is polled over and over answers in the end.
Fairness ==
  /\ WF_vars(Chooser)
  /\ \A g \in Gateways : SF_vars(pc = g /\ PollAnswered)
  /\ \A i \in Instances : WF_vars(AttemptEnds(i) \/ AttemptRefused(i) \/ SwitchGateway(i))

FairSpec == Spec /\ Fairness

-----------------------------------------------------------------------------
(* Properties.                                                             *)

TypeOK ==
  /\ currentGateway \in Gateways
  /\ actual \in [Gateways -> Healths \cup {Unreachable}]
  /\ health \in [Gateways -> Healths \cup {Unknown}]
  /\ currentChoice \in Gateways
  /\ pc \in Gateways \cup {"load", "decide", "sleep"}
  /\ attempt \in [Instances -> Gateways \cup {None}]
  /\ refused \in [Instances -> BOOLEAN]
  /\ switched \in BOOLEAN
  /\ changes \in 0..MaxHealthChanges
  /\ \A i \in Instances : refused[i] => attempt[i] # None

\* When the chooser goes to sleep the current gateway is one it would choose
\* again, unless a processor switched during this iteration: comparing with a
\* value loaded before the polls, it never leaves a choice unstored.
ChoiceIsCurrent ==
  pc = "sleep" /\ ~switched =>
    currentGateway = NewChoice(health["default"], health["fallback"], currentGateway)

\* The chooser itself moves off a gateway only when it has reason to: it takes
\* the fallback gateway only if it knows the default one to fail, and not the
\* other, or to need more than 100 ms and more than twice the other's time, and
\* gives it up only if neither holds.  The tree of cases in handler() comes to
\* no other conclusion.
SwitchesAreJustified ==
  [][pc = "decide" /\ pc' = "sleep" /\ currentGateway' # currentGateway =>
       LET d == health["default"]
           f == health["fallback"]
           Worse == /\ d # Unknown
                    /\ IF d.failing THEN ~Failing(f)
                       ELSE /\ Answering(f) /\ d.minResponseTime > 100
                            /\ d.minResponseTime > 2 * f.minResponseTime
       IN currentGateway' = "fallback" <=> Worse]_vars

Fails(g) == actual[g] # Unreachable /\ actual[g].failing

\* The right gateway when at least one of the two works: the fallback one only
\* if the default one fails, or both work and the default one is slow.
Usable == /\ \A g \in Gateways : actual[g] # Unreachable
          /\ \E g \in Gateways : ~Fails(g)

Best == IF \/ Fails("default")
           \/ ~Fails("fallback") /\ Slow(actual["default"], actual["fallback"])
        THEN "fallback" ELSE "default"

\* The health changes finitely often.  Whatever the gateways refuse then, the
\* current gateway is the right one again and again, unless both gateways fail
\* or one cannot be reached: a processor that switched away from it, even one
\* that acts on an old refusal or switches while the chooser polls, is
\* corrected.
ComesBack == []<>(Usable => currentGateway = Best)

\* From some time on only gateways that fail refuse payments.
OnlyFailingRefuse ==
  <>[][\A i \in Instances : AttemptRefused(i) => Fails(attempt[i])]_vars

\* If so, the current gateway becomes the right one and stays so: neither the
\* chooser, which compares with a gateway loaded before its polls, nor
\* processors that act on old refusals keep it wrong for ever.
Converges == OnlyFailingRefuse => <>[](Usable => currentGateway = Best)

-----------------------------------------------------------------------------
(* The inductive invariant of GatewayChooserProofs.                        *)

\* Until a processor switches, what the chooser loaded stays current while it
\* polls, and when it sleeps the current gateway is one it would choose again.
IInv ==
  /\ TypeOK
  /\ pc \in Gateways \cup {"decide"} /\ ~switched => currentGateway = currentChoice
  /\ ChoiceIsCurrent

=============================================================================

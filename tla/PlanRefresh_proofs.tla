-------------------------- MODULE PlanRefresh_proofs --------------------------
(***************************************************************************)
(* What the plan pages promise, for every set of checks an operator may     *)
(* add, every fault domain and any number of choices on a page.            *)
(***************************************************************************)
EXTENDS PlanRefresh, FiniteSetTheorems, SequenceTheorems, WellFoundedInduction, TLAPS

Symptoms == DOMAIN IntentOfSymptom

\* What the symptom form may send
Choices == Symptoms \union {"none"}

-----------------------------------------------------------------------------
(* The two halves of the self-serve page.                                   *)

\* At most one request is under way, and it is for the choice on display.
RefreshInv ==
  /\ requests \in Seq(Choices) /\ Len(requests) <= 1
  /\ requests # <<>> => requests[1] = checked
  /\ timers \subseteq Choices
  /\ page.mode = "self-serve" => checked \in Choices
  /\ requests # <<>> \/ timers # {} => page.mode = "self-serve"
  /\ PlanFollowsSelection

LEMMA OneRequest ==
  ASSUME NEW symptom \in Choices
  PROVE  /\ Append(<<>>, symptom) \in Seq(Choices)
         /\ Len(Append(<<>>, symptom)) = 1
         /\ Append(<<>>, symptom)[1] = symptom
         /\ Append(<<>>, symptom) # <<>>
  BY EmptySeq, AppendProperties

LEMMA NoneIsLeft ==
  ASSUME requests \in Seq(Choices), Len(requests) <= 1, NEW i \in DOMAIN requests
  PROVE  i = 1 /\ Len(requests) = 1 /\ requests # <<>> /\ Without(i) = <<>>
<1>1. i = 1 /\ Len(requests) = 1
  <2>1. Len(requests) \in Nat /\ DOMAIN requests = 1..Len(requests)
    BY LenProperties
  <2> QED
    BY <2>1
<1>2. SubSeq(requests, 1, 0) = <<>> /\ SubSeq(requests, 2, 1) = <<>>
  BY <1>1, SubSeqProperties, EmptySeq
<1>3. <<>> \o <<>> = <<>>
  BY ConcatEmptySeq, EmptySeq
<1> QED
  BY <1>1, <1>2, <1>3, EmptySeq DEF Without

LEMMA RefreshInvIsInductive ==
  ASSUME RefreshInv, [RefreshNext]_<<vars, refreshVars>>,
         page'.mode = "self-serve" => page'.symptom \in Choices
  PROVE  RefreshInv'
<1> USE DEF RefreshInv, PlanFollowsSelection
<1>1. CASE Loaded
  BY <1>1, EmptySeq DEF Loaded
<1>2. CASE RefreshSelfServePlan
  <2>1. PICK symptom \in Offered \union {checked} :
          checked' = symptom /\ requests' = Append(<<>>, symptom)
    BY <1>2 DEF RefreshSelfServePlan, Aborted
  <2>2. symptom \in Choices
    BY <1>2, <2>1 DEF RefreshSelfServePlan, Offered, Choices, Symptoms
  <2>3. requests' \in Seq(Choices) /\ Len(requests') = 1 /\ requests'[1] = symptom
        /\ requests' # <<>>
    BY <2>1, <2>2, OneRequest
  <2>4. timers' = timers /\ page' = page /\ page.mode = "self-serve"
    BY <1>2 DEF RefreshSelfServePlan
  <2> QED
    BY <2>1, <2>2, <2>3, <2>4
<1>3. CASE PlanArrives
  <2>1. PICK i \in DOMAIN requests :
          page' = Plan(requests[i], NoAnswers, {}, {}) /\ requests' = Without(i)
    BY <1>3 DEF PlanArrives
  <2>2. requests' = <<>> /\ page'.symptom = checked /\ page'.mode = "self-serve"
    BY <2>1, NoneIsLeft DEF Plan
  <2> QED
    BY <1>3, <2>2, EmptySeq DEF PlanArrives
<1>4. CASE RefreshFails
  <2>1. PICK i \in DOMAIN requests :
          timers' = timers \union {requests[i]} /\ requests' = Without(i)
    BY <1>4 DEF RefreshFails
  <2>2. requests' = <<>> /\ timers' # {} /\ timers' \subseteq Choices /\ requests # <<>>
    BY <2>1, NoneIsLeft
  <2> QED
    BY <1>4, <2>2, EmptySeq DEF RefreshFails
<1>5. CASE UNCHANGED <<vars, refreshVars>>
  BY <1>5 DEF vars, refreshVars
<1> QED
  BY <1>1, <1>2, <1>3, <1>4, <1>5 DEF RefreshNext, FallbackNavigates
-----------------------------------------------------------------------------
(* The checks of a run.                                                     *)

SixIntents == {"internet_connectivity_loss", "partial_access_or_dns",
               "vpn_or_private_resource_access", "local_performance_degradation",
               "clock_or_trust_failure", "general_triage"}

BaselineOf(intent) ==
  {Policies[intent].baseline[i] : i \in DOMAIN Policies[intent].baseline}

LEMMA SymptomsLeadToIntents ==
  ASSUME NEW symptom \in Symptoms
  PROVE  IntentOfSymptom[symptom] \in SixIntents
  BY DEF Symptoms, IntentOfSymptom, SixIntents

\* Without answers, a guided plan holds allowed checks of the baseline only.
LEMMA DefaultScopeIsBaseline ==
  ASSUME NEW intent \in SixIntents
  PROVE  /\ Scope(intent, NoAnswers) \subseteq Policies[intent].allowed
         /\ Scope(intent, NoAnswers) \subseteq BaselineOf(intent)
         /\ Scope(intent, NoAnswers) # {}
<1>1. Scope(intent, NoAnswers) = Pathways[Intents[intent].pathways[1]].domains
  BY DEF Scope, Selected, NoAnswers
<1>2. CASE intent = "internet_connectivity_loss"
  BY <1>1, <1>2 DEF Intents, Intent, Pathways, Pathway, Policies, Policy, BaselineOf
<1>3. CASE intent = "partial_access_or_dns"
  BY <1>1, <1>3 DEF Intents, Intent, Pathways, Pathway, Policies, Policy, BaselineOf
<1>4. CASE intent = "vpn_or_private_resource_access"
  BY <1>1, <1>4 DEF Intents, Intent, Pathways, Pathway, Policies, Policy, BaselineOf
<1>5. CASE intent = "local_performance_degradation"
  BY <1>1, <1>5 DEF Intents, Intent, Pathways, Pathway, Policies, Policy, BaselineOf
<1>6. CASE intent = "clock_or_trust_failure"
  BY <1>1, <1>6 DEF Intents, Intent, Pathways, Pathway, Policies, Policy, BaselineOf
<1>7. CASE intent = "general_triage"
  BY <1>1, <1>7 DEF Intents, Intent, Pathways, Pathway, Policies, Policy, BaselineOf
<1> QED
  BY <1>2, <1>3, <1>4, <1>5, <1>6, <1>7 DEF SixIntents

LEMMA LeastElement ==
  ASSUME NEW S \in SUBSET Nat, S # {}
  PROVE  \E k \in S : \A l \in S : k <= l
<1>1. PICK k \in S : \A l \in S : <<l, k>> \notin OpToRel(<, Nat)
  BY NatLessThanWellFounded, WFMin
<1>2. \A l \in S : ~(l < k)
  BY <1>1 DEF OpToRel
<1> QED
  BY <1>2

LEMMA AtLeastTwo ==
  ASSUME NEW S, IsFiniteSet(S), NEW a \in S, NEW b \in S, a # b
  PROVE  Cardinality(S) >= 2
<1>1. IsFiniteSet(S \ {a}) /\ Cardinality(S \ {a}) = Cardinality(S) - 1
  BY FS_RemoveElement
<1>2. Cardinality(S \ {a}) # 0
  <2>1. S \ {a} # {}
    OBVIOUS
  <2> QED
    BY <1>1, <2>1, FS_EmptySet
<1>3. Cardinality(S) \in Nat /\ Cardinality(S \ {a}) \in Nat
  BY <1>1, FS_CardinalityType
<1> QED
  BY <1>1, <1>2, <1>3

LEMMA AtLeastThree ==
  ASSUME NEW S, IsFiniteSet(S), NEW a \in S, NEW b \in S, NEW c \in S,
         a # b, a # c, b # c
  PROVE  Cardinality(S) >= 3
<1>1. IsFiniteSet(S \ {c}) /\ Cardinality(S \ {c}) = Cardinality(S) - 1
  BY FS_RemoveElement
<1>2. Cardinality(S \ {c}) >= 2
  BY <1>1, AtLeastTwo
<1> QED
  BY <1>1, <1>2, FS_CardinalityType

LEMMA ElementsAreFinite ==
  ASSUME NEW seq, NEW n \in Nat, DOMAIN seq = 1..n
  PROVE  IsFiniteSet({seq[i] : i \in DOMAIN seq})
<1> DEFINE T == {seq[i] : i \in DOMAIN seq}
           f == [i \in 1..n |-> seq[i]]
<1>1. f \in Surjection(1..n, T)
  BY DEF Surjection
<1>2. IsFiniteSet(1..n)
  BY FS_Interval
<1> QED
  BY <1>1, <1>2, FS_Surjection

LEMMA BaselineIsSequence ==
  ASSUME NEW intent \in SixIntents
  PROVE  /\ Len(Policies[intent].baseline) \in Nat
         /\ DOMAIN Policies[intent].baseline = 1..Len(Policies[intent].baseline)
  BY DEF SixIntents, Policies, Policy

LEMMA BaselineIsFinite ==
  ASSUME NEW intent \in SixIntents
  PROVE  IsFiniteSet(BaselineOf(intent))
  BY BaselineIsSequence, ElementsAreFinite DEF BaselineOf

\* The baseline of an intent is allowed, and it is enough.
LEMMA BaselineIsEnough ==
  ASSUME NEW intent \in SixIntents
  PROVE  /\ BaselineOf(intent) \subseteq Policies[intent].allowed
         /\ Cardinality(BaselineOf(intent)) >= Policies[intent].minimum
<1> DEFINE minimum == Policies[intent].minimum
           baseline == Policies[intent].baseline
<1>1. BaselineOf(intent) \subseteq Policies[intent].allowed
  BY DEF SixIntents, BaselineOf, Policies, Policy
<1>2. /\ minimum = 2 \/ minimum = 3
      /\ {1, 2, 3} \subseteq DOMAIN baseline
      /\ baseline[1] # baseline[2] /\ baseline[1] # baseline[3] /\ baseline[2] # baseline[3]
  BY DEF SixIntents, Policies, Policy
<1>3. {baseline[1], baseline[2], baseline[3]} \subseteq BaselineOf(intent)
  BY <1>2 DEF BaselineOf
<1>4. Cardinality(BaselineOf(intent)) >= 3
  BY <1>2, <1>3, BaselineIsFinite, AtLeastThree
<1>5. Cardinality(BaselineOf(intent)) \in Nat
  BY BaselineIsFinite, FS_CardinalityType
<1> QED
  BY <1>1, <1>2, <1>4, <1>5

\* Completing a selection keeps what the baseline has of it, adds nothing
\* from elsewhere, and reaches the minimum: the number of baseline checks to
\* take exists, because all of them are enough.
LEMMA ExpandedIsBounded ==
  ASSUME NEW intent \in SixIntents, NEW chosen
  PROVE  /\ Expanded(chosen, Policies[intent]) \subseteq Policies[intent].allowed
         /\ Cardinality(Expanded(chosen, Policies[intent])) >= Policies[intent].minimum
         /\ chosen \intersect BaselineOf(intent) \subseteq Expanded(chosen, Policies[intent])
<1> DEFINE policy   == Policies[intent]
           Kept(k)  == {policy.baseline[i] : i \in {j \in DOMAIN policy.baseline :
                                            policy.baseline[j] \in chosen \/ j <= k}}
           enough   == {k \in 0..Len(policy.baseline) : Cardinality(Kept(k)) >= policy.minimum}
           shortest == CHOOSE k \in enough : \A l \in enough : k <= l
<1>1. Kept(Len(policy.baseline)) = BaselineOf(intent)
  BY BaselineIsSequence DEF BaselineOf
<1>2. Len(policy.baseline) \in enough
  <2>1. Cardinality(Kept(Len(policy.baseline))) >= policy.minimum
    BY <1>1, BaselineIsEnough
  <2>2. Len(policy.baseline) \in 0..Len(policy.baseline)
    BY BaselineIsSequence
  <2> HIDE DEF Kept
  <2> QED
    BY <2>1, <2>2
<1>3. \E k \in enough : \A l \in enough : k <= l
  <2>1. enough \in SUBSET Nat
    BY BaselineIsSequence
  <2> HIDE DEF enough
  <2> QED
    BY <2>1, <1>2, LeastElement
<1>4. shortest \in enough
  <2> HIDE DEF enough
  <2> QED
    BY <1>3
<1>5. Expanded(chosen, policy) = Kept(shortest)
  BY DEF Expanded
<1>6. Cardinality(Kept(shortest)) >= policy.minimum
  BY <1>4
<1> HIDE DEF shortest
<1>7. Kept(shortest) \subseteq BaselineOf(intent)
  BY DEF BaselineOf
<1>8. chosen \intersect BaselineOf(intent) \subseteq Kept(shortest)
  BY DEF BaselineOf
<1> QED
  BY <1>5, <1>6, <1>7, <1>8, BaselineIsEnough

LEMMA ValidatedIsBounded ==
  ASSUME NEW intent \in SixIntents, NEW chosen
  PROVE  /\ Validated(intent, chosen).checks \subseteq Policies[intent].allowed
         /\ Cardinality(Validated(intent, chosen).checks) >= Policies[intent].minimum
<1> DEFINE policy   == Policies[intent]
           filtered == chosen \intersect policy.allowed
           Approved == /\ filtered = chosen /\ filtered \intersect policy.focus # {}
                       /\ Cardinality(filtered) >= policy.minimum
<1>1. CASE filtered # {} /\ Approved
  <2>1. Validated(intent, chosen).checks = filtered
    BY <1>1 DEF Validated
  <2> QED
    BY <1>1, <2>1
<1>2. CASE filtered # {} /\ ~Approved
  <2>1. Validated(intent, chosen).checks = Expanded(filtered, policy)
    BY <1>2 DEF Validated
  <2> QED
    BY <2>1, ExpandedIsBounded
<1>3. CASE filtered = {}
  <2>1. Validated(intent, chosen).checks = BaselineOf(intent)
    BY <1>3 DEF Validated, BaselineOf
  <2> QED
    BY <2>1, BaselineIsEnough
<1> QED
  BY <1>1, <1>2, <1>3

\* The validator drops nothing from a guided plan without answers.
LEMMA DefaultScopeSurvives ==
  ASSUME NEW intent \in SixIntents
  PROVE  Scope(intent, NoAnswers) \subseteq Validated(intent, Scope(intent, NoAnswers)).checks
<1> DEFINE policy   == Policies[intent]
           chosen   == Scope(intent, NoAnswers)
           filtered == chosen \intersect policy.allowed
           Approved == /\ filtered = chosen /\ filtered \intersect policy.focus # {}
                       /\ Cardinality(filtered) >= policy.minimum
<1>1. filtered = chosen /\ filtered # {} /\ filtered \subseteq BaselineOf(intent)
  BY DefaultScopeIsBaseline
<1>2. CASE Approved
  <2>1. Validated(intent, chosen).checks = filtered
    BY <1>1, <1>2 DEF Validated
  <2> QED
    BY <1>1, <2>1
<1>3. CASE ~Approved
  <2>1. Validated(intent, chosen).checks = Expanded(filtered, policy)
    BY <1>1, <1>3 DEF Validated
  <2>2. filtered \intersect BaselineOf(intent) \subseteq Expanded(filtered, policy)
    BY ExpandedIsBounded
  <2> QED
    BY <1>1, <2>1, <2>2
<1> QED
  BY <1>2, <1>3

\* The shapes of a plan and of a run. What a link carried is selected, and a
\* plan that carries anything has no answers.
GuidedPlan ==
  page.mode = "self-serve" =>
    /\ page.symptom \in Choices
    /\ page.symptom # "none" => page.base = Scope(IntentOfSymptom[page.symptom], page.answers)
    /\ page.carried \subseteq page.selected
    /\ page.carried = {} \/ page.answers = NoAnswers

SupportedPlan == page.mode = "support" => page.carried \subseteq page.selected

GuidedRun == run # NoRun /\ run.mode = "self-serve" => run.symptom \in Symptoms

PlanInv ==
  /\ page = Blank \/ run = NoRun
  /\ GuidedPlan /\ SupportedPlan /\ GuidedRun
  /\ EnforcedRunIsInBounds /\ AdditionsAreRun

LEMMA PlanShape ==
  ASSUME NEW symptom, NEW answers, NEW chosen, NEW carried
  PROVE  LET plan == Plan(symptom, answers, chosen, carried) IN
         /\ plan.mode = "self-serve" /\ plan.symptom = symptom /\ plan.answers = answers
         /\ plan.base = Scope(IntentOfSymptom[symptom], answers)
         /\ plan.selected = plan.base \union chosen /\ plan.carried = carried
  BY DEF Plan

LEMMA SupportPlanShape ==
  ASSUME NEW profile, NEW source, NEW chosen, NEW carried
  PROVE  LET plan == SupportPlan(profile, source, chosen, carried) IN
         /\ plan.mode = "support"
         /\ chosen \subseteq plan.selected /\ plan.carried = carried
  BY DEF SupportPlan

\* A guided plan on display and no run
LEMMA GuidedPlanKeepsInv ==
  ASSUME NEW symptom \in Symptoms, NEW answers, NEW chosen, NEW carried \in SUBSET chosen,
         carried = {} \/ answers = NoAnswers,
         page' = Plan(symptom, answers, chosen, carried), run' = NoRun
  PROVE  PlanInv'
<1>1. /\ page'.mode = "self-serve" /\ page'.symptom = symptom /\ page'.answers = answers
      /\ page'.base = Scope(IntentOfSymptom[symptom], answers)
      /\ page'.selected = page'.base \union chosen /\ page'.carried = carried
  BY PlanShape
<1>2. (GuidedPlan /\ SupportedPlan)'
  BY <1>1 DEF GuidedPlan, SupportedPlan, Choices
<1> QED
  BY <1>2 DEF PlanInv, GuidedRun, EnforcedRunIsInBounds, AdditionsAreRun, SelfServeRun

\* The page without a symptom
LEMMA NoSymptomKeepsInv ==
  ASSUME page' = NoSymptom, run' = NoRun
  PROVE  PlanInv'
<1>1. /\ page'.mode = "self-serve" /\ page'.symptom = "none" /\ page'.carried = {}
  BY DEF NoSymptom
<1>2. (GuidedPlan /\ SupportedPlan)'
  BY <1>1 DEF GuidedPlan, SupportedPlan, Choices
<1> QED
  BY <1>2 DEF PlanInv, GuidedRun, EnforcedRunIsInBounds, AdditionsAreRun, SelfServeRun

\* Nothing that is selected or added is left out of what is submitted.
LEMMA SubmittedKeepsAdditions ==
  ASSUME NEW added \in Additions
  PROVE  /\ added \intersect page.base = {}
         /\ page.selected \subseteq page.base \union added
         /\ Submitted(page.base, added) = page.base \union added
<1>1. PICK extra : added = (page.selected \union extra) \ page.base
  BY DEF Additions
<1>2. added \intersect page.base = {} /\ page.selected \subseteq page.base \union added
  BY <1>1
<1>3. Submitted(page.base, added) = page.base \union added
  BY DEF Submitted, SelectAll
<1> QED
  BY <1>2, <1>3

LEMMA SupportPlanKeepsInv ==
  ASSUME NEW profile, NEW source, NEW chosen, NEW carried \in SUBSET chosen,
         page' = SupportPlan(profile, source, chosen, carried), run' = NoRun
  PROVE  PlanInv'
<1>1. /\ page'.mode = "support"
      /\ chosen \subseteq page'.selected /\ page'.carried = carried
  BY SupportPlanShape
<1>2. (GuidedPlan /\ SupportedPlan)'
  BY <1>1 DEF GuidedPlan, SupportedPlan
<1> QED
  BY <1>2 DEF PlanInv, GuidedRun, EnforcedRunIsInBounds, AdditionsAreRun, SelfServeRun

\* What StartRun makes of a guided plan: the three properties at once.
LEMMA StartRunIsSound ==
  ASSUME PlanInv, StartRun
  PROVE  /\ PlanInv'
         /\ page.carried \subseteq run'.checks
<1> DEFINE intent  == IntentOfSymptom[page.symptom]
           pending == PendingQuestion(intent, page.answers)
<1>1. page.mode = "self-serve" /\ page.symptom # "none" /\ page' = Blank /\ GuidedPlan
  BY DEF StartRun, PlanInv
<1>2. page.symptom \in Symptoms /\ intent \in SixIntents
  BY <1>1, SymptomsLeadToIntents DEF GuidedPlan, Choices
<1>3. PICK added \in Additions,
           answer \in IF pending = "none" THEN {{}} ELSE Options[pending] :
        LET answers  == IF pending = "none" THEN page.answers
                        ELSE [q \in DOMAIN page.answers \union {pending} |->
                                IF q = pending THEN answer ELSE page.answers[q]]
            base     == Scope(intent, answers)
            selected == Submitted(base, added)
            enforce  == Enforced(base, selected, added)
            result   == IF enforce THEN Validated(intent, selected)
                        ELSE [checks |-> selected, decision |-> "not_enforced"] IN
        run' = [mode |-> "self-serve", symptom |-> page.symptom, answers |-> answers,
                asked |-> pending,
                added |-> added, shown |-> page.selected, enforced |-> enforce,
                profile |-> SuggestedProfile(intent, answers),
                checks |-> result.checks, decision |-> result.decision]
  BY DEF StartRun
<1> DEFINE answers  == IF pending = "none" THEN page.answers
                       ELSE [q \in DOMAIN page.answers \union {pending} |->
                               IF q = pending THEN answer ELSE page.answers[q]]
           base     == Scope(intent, answers)
           selected == Submitted(base, added)
           enforce  == Enforced(base, selected, added)
<1>4. /\ run'.mode = "self-serve" /\ run'.symptom = page.symptom /\ run'.asked = pending
      /\ run'.added = added /\ run'.enforced = enforce
      /\ enforce => run'.checks = Validated(intent, selected).checks
      /\ ~enforce => run'.checks = selected
  BY <1>3
<1>5. /\ added \intersect page.base = {} /\ page.selected \subseteq page.base \union added
      /\ Submitted(page.base, added) = page.base \union added
  BY SubmittedKeepsAdditions
<1>6. pending = "none" => base = page.base /\ selected = base \union added
  BY <1>1, <1>5 DEF GuidedPlan
<1> HIDE DEF answers, base, pending, enforce, intent
<1>7. pending = "none" /\ enforce => added = {}
  BY <1>5, <1>6 DEF enforce, Enforced
<1>8. EnforcedRunIsInBounds'
  <2>1. ASSUME enforce
        PROVE  /\ run'.checks \subseteq Policies[intent].allowed
               /\ Cardinality(run'.checks) >= Policies[intent].minimum
    BY <1>2, <1>4, <2>1, ValidatedIsBounded
  <2> QED
    BY <1>4, <2>1 DEF EnforcedRunIsInBounds, SelfServeRun, intent
<1>9. AdditionsAreRun'
  <2>1. pending = "none" => added \subseteq run'.checks
    BY <1>4, <1>6, <1>7
  <2> QED
    BY <1>4, <2>1 DEF AdditionsAreRun, SelfServeRun
<1>10. page.carried \subseteq run'.checks
  <2>1. CASE page.carried = {}
    BY <2>1
  <2>2. CASE page.carried # {}
    <3>1. page.answers = NoAnswers /\ page.carried \subseteq page.selected
      BY <1>1, <2>2 DEF GuidedPlan
    <3>2. pending = "none"
      BY <3>1 DEF pending, PendingQuestion, NoAnswers
    <3>3. base = Scope(intent, NoAnswers)
      BY <3>1, <3>2 DEF base, answers
    <3>4. page.carried \subseteq selected
      BY <1>5, <1>6, <3>1, <3>2
    <3>5. ASSUME enforce
          PROVE  page.carried \subseteq run'.checks
      <4>1. selected = base
        BY <1>6, <1>7, <3>2, <3>5
      <4> QED
        BY <1>2, <1>4, <3>3, <3>4, <3>5, <4>1, DefaultScopeSurvives
    <3> QED
      BY <1>4, <3>4, <3>5
  <2> QED
    BY <2>1, <2>2
<1>11. (GuidedPlan /\ SupportedPlan /\ GuidedRun)'
  BY <1>1, <1>2, <1>4 DEF GuidedPlan, SupportedPlan, GuidedRun, Blank
<1> QED
  BY <1>1, <1>8, <1>9, <1>10, <1>11 DEF PlanInv

LEMMA PlanInvIsInductive ==
  ASSUME PlanInv, RefreshInv, [RefreshNext]_<<vars, refreshVars>>
  PROVE  /\ PlanInv'
         /\ page # Blank /\ run' # NoRun => page.carried \subseteq run'.checks
<1>1. CASE ChooseAnotherPath
  <2>1. page' = Blank /\ run' = NoRun
    BY <1>1 DEF ChooseAnotherPath
  <2> QED
    BY <2>1 DEF PlanInv, GuidedPlan, SupportedPlan, GuidedRun, EnforcedRunIsInBounds,
                AdditionsAreRun, SelfServeRun, Blank
<1>2. CASE OpenPlan
  <2>1. run' = NoRun
    BY <1>2 DEF OpenPlan
  <2>2. CASE page' = NoSymptom
    BY <2>1, <2>2, NoSymptomKeepsInv
  <2>3. ASSUME NEW symptom \in Offered, NEW extra \in Extras, NEW answers,
               page' = Plan(symptom, answers, extra, {})
        PROVE  PlanInv'
    <3>1. symptom \in Symptoms
      BY DEF Offered, Symptoms
    <3> QED
      BY <2>1, <2>3, <3>1, GuidedPlanKeepsInv
  <2> QED
    BY <1>2, <2>1, <2>2, <2>3 DEF OpenPlan
<1>3. CASE OpenSupportPlan
  <2>1. PICK profile, extra : page' = SupportPlan(profile, "none", extra, {})
    BY <1>3 DEF OpenSupportPlan
  <2>2. run' = NoRun
    BY <1>3 DEF OpenSupportPlan
  <2> QED
    BY <2>1, <2>2, SupportPlanKeepsInv
<1>4. CASE StartRun
  BY <1>4, StartRunIsSound
<1>5. CASE StartSupportRun
  <2>1. PICK added \in Additions :
          run' = [mode |-> "support", added |-> added, profile |-> page.profile,
                  checks |-> Submitted(page.base, added)]
    BY <1>5 DEF StartSupportRun
  <2>2. /\ run'.mode = "support" /\ run'.added = added
        /\ run'.checks = page.base \union added
        /\ page.selected \subseteq run'.checks
    BY <2>1, SubmittedKeepsAdditions
  <2>3. page' = Blank /\ page.carried \subseteq page.selected
    BY <1>5 DEF StartSupportRun, PlanInv, SupportedPlan
  <2> QED
    BY <2>2, <2>3 DEF PlanInv, GuidedPlan, SupportedPlan, GuidedRun, EnforcedRunIsInBounds,
                      AdditionsAreRun, SelfServeRun, Blank
<1>6. CASE RunAgain
  <2>1. run' = NoRun /\ run # NoRun
    BY <1>6 DEF RunAgain
  <2>2. CASE run.mode = "self-serve"
    <3>1. page' = Plan(run.symptom, NoAnswers, run.checks, run.checks)
      BY <1>6, <2>2 DEF RunAgain, RerunChecks
    <3>2. run.symptom \in Symptoms
      BY <2>1, <2>2 DEF PlanInv, GuidedRun
    <3> QED
      BY <2>1, <3>1, <3>2, GuidedPlanKeepsInv
  <2>3. CASE run.mode # "self-serve"
    <3>1. page' = SupportPlan(run.profile, "none", run.checks, run.checks)
      BY <1>6, <2>3 DEF RunAgain, RerunChecks
    <3> QED
      BY <2>1, <3>1, SupportPlanKeepsInv
  <2> QED
    BY <2>2, <2>3
<1>7. CASE ContinueWithSupport
  <2>1. run' = NoRun
    BY <1>7 DEF ContinueWithSupport
  <2>2. CASE page' = Blank
    BY <2>1, <2>2 DEF PlanInv, GuidedPlan, SupportedPlan, GuidedRun, EnforcedRunIsInBounds,
                      AdditionsAreRun, SelfServeRun, Blank
  <2>3. ASSUME NEW profile,
               page' = SupportPlan(profile, "earlier", BridgeChecks(profile, run), run.checks)
        PROVE  PlanInv'
    <3>1. run.checks \in SUBSET BridgeChecks(profile, run)
      BY DEF BridgeChecks
    <3> QED
      BY <2>1, <2>3, <3>1, SupportPlanKeepsInv
  <2> QED
    BY <1>7, <2>1, <2>2, <2>3 DEF ContinueWithSupport
<1>8. CASE PlanArrives \/ FallbackNavigates
  <2>1. page' = NoSymptom \/ \E symptom \in Symptoms : page' = Plan(symptom, NoAnswers, {}, {})
    <3>1. CASE PlanArrives
      BY <3>1 DEF PlanArrives, RefreshInv, Choices
    <3>2. CASE FallbackNavigates
      BY <3>2 DEF FallbackNavigates, RefreshInv, Choices
    <3> QED
      BY <1>8, <3>1, <3>2
  <2>2. requests # <<>> \/ timers # {}
    BY <1>8, EmptySeq DEF PlanArrives, FallbackNavigates
  <2>3. page # Blank /\ run' = NoRun
    BY <1>8, <2>2 DEF RefreshInv, PlanInv, PlanArrives, FallbackNavigates, Blank
  <2> QED
    BY <2>1, <2>3, GuidedPlanKeepsInv, NoSymptomKeepsInv
<1>9. CASE RefreshSelfServePlan \/ RefreshFails \/ UNCHANGED <<vars, refreshVars>>
  <2>1. page' = page /\ run' = run
    BY <1>9 DEF RefreshSelfServePlan, RefreshFails, vars
  <2> QED
    BY <2>1 DEF PlanInv, GuidedPlan, SupportedPlan, GuidedRun, EnforcedRunIsInBounds,
                AdditionsAreRun, SelfServeRun
<1>10. CASE SourceIsGone
  <2>1. PICK added \in Additions :
          page' = SupportPlan(page.profile, "none", Submitted(page.base, added), page.carried)
    BY <1>10 DEF SourceIsGone
  <2>2. run' = run /\ page.mode = "support" /\ page # Blank
    BY <1>10 DEF SourceIsGone, Blank
  <2>3. run' = NoRun /\ page.carried \in SUBSET page.selected
    BY <2>2 DEF PlanInv, SupportedPlan
  <2>4. page.carried \in SUBSET Submitted(page.base, added)
    BY <2>3, SubmittedKeepsAdditions
  <2> QED
    BY <2>1, <2>3, <2>4, SupportPlanKeepsInv
<1> QED
  BY <1>1, <1>2, <1>3, <1>4, <1>5, <1>6, <1>7, <1>8, <1>9, <1>10 DEF RefreshNext, Next

LEMMA PlansKeepInv == RefreshSpec => [](PlanInv /\ RefreshInv)
<1>1. RefreshInit => PlanInv /\ RefreshInv
  BY EmptySeq DEF RefreshInit, Init, Blank, NoRun, PlanInv, RefreshInv, PlanFollowsSelection,
                  GuidedPlan, SupportedPlan, GuidedRun, EnforcedRunIsInBounds, AdditionsAreRun,
                  SelfServeRun
<1>2. PlanInv /\ RefreshInv /\ [RefreshNext]_<<vars, refreshVars>> => PlanInv' /\ RefreshInv'
  <2> SUFFICES ASSUME PlanInv, RefreshInv, [RefreshNext]_<<vars, refreshVars>>
               PROVE  PlanInv' /\ RefreshInv'
    OBVIOUS
  <2>1. PlanInv'
    BY PlanInvIsInductive
  <2>2. page'.mode = "self-serve" => page'.symptom \in Choices
    BY <2>1 DEF PlanInv, GuidedPlan
  <2> QED
    BY <2>1, <2>2, RefreshInvIsInductive
<1> QED
  BY <1>1, <1>2, PTL DEF RefreshSpec

\* The plan on the page is that of the chosen symptom whenever no answer and
\* no fallback is outstanding, however many choices were made, answered,
\* aborted or lost before. (app.js: refreshSelfServePlan)
THEOREM PlanIsThatOfTheChoice == RefreshSpec => []PlanFollowsSelection
<1>1. RefreshInv => PlanFollowsSelection
  BY DEF RefreshInv
<1> QED
  BY <1>1, PlansKeepInv, PTL

\* A run whose scope is enforced stays inside the checks of its intent and is
\* never smaller than the intent's minimum. (validator.py)
THEOREM EnforcedRunsAreInBounds == RefreshSpec => []EnforcedRunIsInBounds
<1>1. PlanInv => EnforcedRunIsInBounds
  BY DEF PlanInv
<1> QED
  BY <1>1, PlansKeepInv, PTL

\* What the operator adds to a plan is run, unless an answer given with it
\* changes the plan under the addition. (forms.py: form_state_from_request)
THEOREM AdditionsAreKept == RefreshSpec => []AdditionsAreRun
<1>1. PlanInv => AdditionsAreRun
  BY DEF PlanInv
<1> QED
  BY <1>1, PlansKeepInv, PTL

\* What a link carries from an earlier run is run again: the answers that are
\* lost on the way change no check of a plan that carries any, and the
\* validator drops none. (forms.py: rerun_url, support_bridge_url, run)
THEOREM CarriedChecksAreKept == RefreshSpec => CarriedChecksAreRun
<1>1. PlanInv /\ RefreshInv /\ [RefreshNext]_<<vars, refreshVars>> =>
        [page # Blank /\ run' # NoRun => page.carried \subseteq run'.checks]_vars
  BY PlanInvIsInductive
<1> QED
  BY <1>1, PlansKeepInv, PTL DEF RefreshSpec, CarriedChecksAreRun
-----------------------------------------------------------------------------
(* The answers of a plan.                                                   *)

\* A plan without answers, or one of a known symptom whose answers are to the
\* questions of its intent
AskedInv ==
  page.mode = "self-serve" =>
    \/ page.answers = NoAnswers
    \/ /\ page.symptom \in Symptoms
       /\ DOMAIN page.answers \subseteq QuestionsOf(IntentOfSymptom[page.symptom])

LEMMA TwoQuestions ==
  ASSUME NEW intent \in SixIntents
  PROVE  /\ QuestionsOf(intent) = {Intents[intent].questions[1], Intents[intent].questions[2]}
         /\ Intents[intent].questions[1] # Intents[intent].questions[2]
         /\ Intents[intent].pathways[1] # "none" /\ "none" \notin PathwaysOf(intent)
<1>1. CASE intent = "internet_connectivity_loss"
  BY <1>1 DEF QuestionsOf, PathwaysOf, Intents, Intent
<1>2. CASE intent = "partial_access_or_dns"
  BY <1>2 DEF QuestionsOf, PathwaysOf, Intents, Intent
<1>3. CASE intent = "vpn_or_private_resource_access"
  BY <1>3 DEF QuestionsOf, PathwaysOf, Intents, Intent
<1>4. CASE intent = "local_performance_degradation"
  BY <1>4 DEF QuestionsOf, PathwaysOf, Intents, Intent
<1>5. CASE intent = "clock_or_trust_failure"
  BY <1>5 DEF QuestionsOf, PathwaysOf, Intents, Intent
<1>6. CASE intent = "general_triage"
  BY <1>6 DEF QuestionsOf, PathwaysOf, Intents, Intent
<1> QED
  BY <1>1, <1>2, <1>3, <1>4, <1>5, <1>6 DEF SixIntents

\* An answer closes its question whatever it decides; the last one selects a
\* pathway, the default one if need be.
LEMMA AnswerCloses ==
  ASSUME NEW intent \in SixIntents, NEW context, NEW question, NEW answer,
         context = [status |-> context.status, pathway |-> context.pathway,
                    reason |-> context.reason, remaining |-> context.remaining]
  PROVE  LET next == ApplyAnswer(context, intent, question, answer) IN
         /\ next = [status |-> next.status, pathway |-> next.pathway,
                    reason |-> next.reason, remaining |-> next.remaining]
         /\ next.remaining = context.remaining \ {question}
         /\ next.remaining = {} => next.status = "ready" /\ next.pathway # "none"
<1> DEFINE best      == Best(intent, answer)
           remaining == context.remaining \ {question}
           default   == Intents[intent].pathways[1]
           next      == Decide(context, best, remaining, default)
<1>1. ApplyAnswer(context, intent, question, answer) = next
  BY DEF ApplyAnswer
<1>2. default # "none"
  BY TwoQuestions
<1>3. "none" \notin best
  BY TwoQuestions DEF Best
<1> HIDE DEF best, default
<1>4. CASE Cardinality(best) = 1
  <2>1. next = WithPathway(CHOOSE p \in best : TRUE, remaining, "pathway_selected")
    BY <1>4 DEF Decide
  <2>2. (CHOOSE p \in best : TRUE) # "none"
    <3>1. best # {}
      BY <1>4, FS_EmptySet
    <3> QED
      BY <1>3, <3>1
  <2> QED
    BY <1>1, <2>1, <2>2 DEF WithPathway
<1>5. CASE Cardinality(best) # 1 /\ remaining = {}
  <2>1. \E reason : next = WithPathway(default, remaining, reason)
    BY <1>5 DEF Decide
  <2> QED
    BY <1>1, <1>2, <2>1 DEF WithPathway
<1>6. CASE Cardinality(best) # 1 /\ remaining # {}
  <2>1. \E reason : next = Undecided(context, remaining, reason)
    BY <1>6 DEF Decide
  <2> QED
    BY <1>1, <1>6, <2>1 DEF Undecided
<1> QED
  BY <1>4, <1>5, <1>6

LEMMA AllAnsweredDecides ==
  ASSUME NEW intent \in SixIntents, NEW answers,
         QuestionsOf(intent) \subseteq DOMAIN answers
  PROVE  Context(intent, answers).status = "ready" /\ Context(intent, answers).pathway # "none"
<1> DEFINE one    == Intents[intent].questions[1]
           two    == Intents[intent].questions[2]
           begin  == Questions(intent)
           first  == ApplyAnswer(begin, intent, one, answers[one])
           second == ApplyAnswer(first, intent, two, answers[two])
<1>1. one \in DOMAIN answers /\ two \in DOMAIN answers /\ QuestionsOf(intent) = {one, two}
  BY TwoQuestions
<1>2. Context(intent, answers) = second
  BY <1>1 DEF Context
<1>3. /\ begin = [status |-> begin.status, pathway |-> begin.pathway,
                  reason |-> begin.reason, remaining |-> begin.remaining]
      /\ begin.remaining = {one, two}
  BY <1>1 DEF Questions
<1> HIDE DEF begin, one, two
<1>4. /\ first = [status |-> first.status, pathway |-> first.pathway,
                  reason |-> first.reason, remaining |-> first.remaining]
      /\ first.remaining \subseteq {two}
  BY <1>3, AnswerCloses
<1> HIDE DEF first
<1>5. second.remaining = {} /\ (second.remaining = {} =>
                                  second.status = "ready" /\ second.pathway # "none")
  BY <1>4, AnswerCloses
<1> QED
  BY <1>2, <1>5

LEMMA AskedInvIsInductive ==
  ASSUME PlanInv, RefreshInv, AskedInv, [RefreshNext]_<<vars, refreshVars>>
  PROVE  AskedInv'
<1>1. \A symptom, answers, extra, carried :
        /\ Plan(symptom, answers, extra, carried).symptom = symptom
        /\ Plan(symptom, answers, extra, carried).answers = answers
  BY DEF Plan
<1>2. \A profile, symptom, extra, carried :
        SupportPlan(profile, symptom, extra, carried).mode # "self-serve"
  BY DEF SupportPlan
<1>3. CASE ChooseAnotherPath \/ StartRun \/ StartSupportRun \/ page' = Blank
  BY <1>3 DEF ChooseAnotherPath, StartRun, StartSupportRun, Blank, AskedInv
<1>4. CASE OpenPlan
  <2>1. CASE page' = NoSymptom
    BY <2>1 DEF NoSymptom, AskedInv
  <2>2. ASSUME NEW symptom \in Offered, NEW extra \in Extras,
               NEW answers \in AnswerSets(IntentOfSymptom[symptom]),
               page' = Plan(symptom, answers, extra, {})
        PROVE  AskedInv'
    <3>1. symptom \in Symptoms
      BY DEF Offered, Symptoms
    <3>2. answers = NoAnswers \/ DOMAIN answers \subseteq QuestionsOf(IntentOfSymptom[symptom])
      BY DEF AnswerSets
    <3> QED
      BY <1>1, <2>2, <3>1, <3>2 DEF AskedInv
  <2> QED
    BY <1>4, <2>1, <2>2 DEF OpenPlan
<1>5. CASE OpenSupportPlan \/ ContinueWithSupport \/ SourceIsGone
  <2>1. CASE page'.mode # "self-serve"
    BY <2>1 DEF AskedInv
  <2>2. CASE page' = Blank
    BY <1>3, <2>2
  <2> QED
    <3>1. CASE OpenSupportPlan
      BY <1>2, <2>1, <3>1 DEF OpenSupportPlan
    <3>2. CASE ContinueWithSupport
      BY <1>2, <2>1, <2>2, <3>2 DEF ContinueWithSupport
    <3>3. CASE SourceIsGone
      BY <1>2, <2>1, <3>3 DEF SourceIsGone
    <3> QED
      BY <1>5, <3>1, <3>2, <3>3
<1>6. CASE RunAgain
  BY <1>1, <1>2, <1>6 DEF RunAgain, AskedInv
<1>7. CASE PlanArrives \/ FallbackNavigates
  BY <1>1, <1>7 DEF PlanArrives, FallbackNavigates, NoSymptom, AskedInv
<1>8. CASE RefreshSelfServePlan \/ RefreshFails \/ UNCHANGED <<vars, refreshVars>>
  BY <1>8 DEF RefreshSelfServePlan, RefreshFails, vars, AskedInv
<1> QED
  BY <1>3, <1>4, <1>5, <1>6, <1>7, <1>8 DEF RefreshNext, Next

\* Once both questions of an intent are answered a pathway is selected,
\* whichever answers were given and however little they say.
\* (clarification.py: apply_answer)
THEOREM EveryAnswerSetDecidesHolds == RefreshSpec => []EveryAnswerSetDecides
<1>1. RefreshInit => AskedInv
  BY DEF RefreshInit, Init, Blank, AskedInv
<1>2. AskedInv => EveryAnswerSetDecides
  <2> SUFFICES ASSUME AskedInv, page.mode = "self-serve", Cardinality(DOMAIN page.answers) = 2
               PROVE  LET context == Context(IntentOfSymptom[page.symptom], page.answers) IN
                      context.status = "ready" /\ context.pathway # "none"
    BY DEF EveryAnswerSetDecides
  <2> DEFINE asked  == DOMAIN page.answers
             intent == IntentOfSymptom[page.symptom]
  <2>1. asked # {}
    BY FS_EmptySet
  <2>2. intent \in SixIntents /\ asked \subseteq QuestionsOf(intent)
    BY <2>1, SymptomsLeadToIntents DEF AskedInv, NoAnswers
  <2>3. PICK one, two : QuestionsOf(intent) = {one, two}
    BY <2>2, TwoQuestions
  <2> HIDE DEF asked
  <2>4. asked # {one} /\ asked # {two}
    BY FS_Singleton DEF asked
  <2>5. QuestionsOf(intent) \subseteq asked
    BY <2>1, <2>2, <2>3, <2>4
  <2> QED
    BY <2>2, <2>5, AllAnsweredDecides DEF asked
<1>3. PlanInv /\ RefreshInv /\ AskedInv /\ [RefreshNext]_<<vars, refreshVars>> => AskedInv'
  BY AskedInvIsInductive
<1> QED
  BY <1>1, <1>2, <1>3, PlansKeepInv, PTL DEF RefreshSpec
=============================================================================

------------------------ MODULE DiagnosticsRun_proofs ------------------------
(***************************************************************************)
(* What the progress reports and the facts of a run promise, for every     *)
(* selection of domains and any number of targets and names. The inductive *)
(* invariant says how far the loop is: which domains are completed, how    *)
(* many steps each has, and what the last report and the facts say of it.  *)
(***************************************************************************)
EXTENDS DiagnosticsRun, WellFoundedInduction, TLAPS

-----------------------------------------------------------------------------
(* The ten domains and their execution order.                               *)

LEMMA DomainsAre ==
  Domain = {"host", "time", "resources", "storage", "network", "routing", "dns",
            "connectivity", "vpn", "services"}
<1>1. DOMAIN DEFAULT_CHECKS = 1..10
  BY DEF DEFAULT_CHECKS
<1>2. \A i \in 1..10 : \/ i = 1 \/ i = 2 \/ i = 3 \/ i = 4 \/ i = 5
                       \/ i = 6 \/ i = 7 \/ i = 8 \/ i = 9 \/ i = 10
  OBVIOUS
<1> QED
  BY <1>1, <1>2 DEF Domain, DEFAULT_CHECKS

LEMMA PlacesAre ==
  /\ DOMAIN REGISTERED_DOMAINS = 1..10 /\ PlanEnd = 11
  /\ REGISTERED_DOMAINS[1] = "host" /\ REGISTERED_DOMAINS[2] = "time"
  /\ REGISTERED_DOMAINS[3] = "resources" /\ REGISTERED_DOMAINS[4] = "storage"
  /\ REGISTERED_DOMAINS[5] = "network" /\ REGISTERED_DOMAINS[6] = "routing"
  /\ REGISTERED_DOMAINS[7] = "dns" /\ REGISTERED_DOMAINS[8] = "connectivity"
  /\ REGISTERED_DOMAINS[9] = "services" /\ REGISTERED_DOMAINS[10] = "vpn"
BY DEF REGISTERED_DOMAINS, PlanEnd

\* Every domain has exactly one place.
LEMMA OnePlaceEach ==
  /\ \A i \in 1..10 : REGISTERED_DOMAINS[i] \in Domain
  /\ \A i, j \in 1..10 : REGISTERED_DOMAINS[i] = REGISTERED_DOMAINS[j] => i = j
  /\ \A d \in Domain : \E i \in 1..10 : REGISTERED_DOMAINS[i] = d
<1>1. \A i \in 1..10 : \/ i = 1 \/ i = 2 \/ i = 3 \/ i = 4 \/ i = 5
                       \/ i = 6 \/ i = 7 \/ i = 8 \/ i = 9 \/ i = 10
  OBVIOUS
<1>2. \A i \in 1..10 : REGISTERED_DOMAINS[i] \in Domain
  BY <1>1, PlacesAre, DomainsAre
<1>3. \A i, j \in 1..10 : REGISTERED_DOMAINS[i] = REGISTERED_DOMAINS[j] => i = j
  BY <1>1, PlacesAre
<1>4. \A d \in Domain : \E i \in 1..10 : REGISTERED_DOMAINS[i] = d
  BY PlacesAre, DomainsAre
<1> QED
  BY <1>2, <1>3, <1>4

LEMMA NoDomainIsNone == NoDomain \notin Domain
BY DomainsAre DEF NoDomain

LEMMA LeastPlace ==
  ASSUME NEW S \in SUBSET Nat, S # {}
  PROVE  Min(S) \in S /\ \A i \in S : Min(S) <= i
<1>1. PICK m \in S : \A i \in S : <<i, m>> \notin OpToRel(<, Nat)
  BY NatLessThanWellFounded, WFMin
<1>2. \A i \in S : ~(i < m)
  BY <1>1 DEF OpToRel
<1>3. m \in S /\ \A i \in S : m <= i
  BY <1>2
<1> QED
  BY <1>3 DEF Min

LEMMA StepCountsAre ==
  ASSUME options \in Options, NEW d \in Domain
  PROVE  /\ StepCount(d) \in Nat /\ Callbacks(d) \in Nat
         /\ Callbacks(d) <= StepCount(d)
<1>1. options.targets \in Nat /\ options.hosts \in Nat
      /\ options.ping \in BOOLEAN /\ options.trace \in BOOLEAN /\ options.skew \in BOOLEAN
  BY BoundsAssumption DEF Options
<1>2. CASE d \in {"host", "routing", "vpn", "storage", "network", "resources"}
  BY <1>2 DEF StepCount, Callbacks
<1>3. CASE d \in {"dns", "services"}
  BY <1>1, <1>3 DEF StepCount, Callbacks
<1>4. CASE d = "time"
  BY <1>1, <1>4 DEF StepCount, Callbacks, Flag
<1>5. CASE d = "connectivity"
  <2>1. StepCount(d) = options.targets + Flag(options.ping, options.targets)
                         + Flag(options.trace, options.targets)
    BY <1>5 DEF StepCount
  <2>2. Callbacks(d) = options.targets * (1 + Flag(options.ping, 1) + Flag(options.trace, 1))
    BY <1>5 DEF Callbacks
  <2>3. CASE options.ping /\ options.trace
    BY <1>1, <2>1, <2>2, <2>3 DEF Flag
  <2>4. CASE options.ping /\ ~options.trace
    BY <1>1, <2>1, <2>2, <2>4 DEF Flag
  <2>5. CASE ~options.ping /\ options.trace
    BY <1>1, <2>1, <2>2, <2>5 DEF Flag
  <2>6. CASE ~options.ping /\ ~options.trace
    BY <1>1, <2>1, <2>2, <2>6 DEF Flag
  <2> QED
    BY <1>1, <2>3, <2>4, <2>5, <2>6
<1> QED
  BY <1>2, <1>3, <1>4, <1>5, DomainsAre

LEMMA SumIsMonotone ==
  ASSUME NEW f \in [Domain -> Nat], NEW g \in [Domain -> Nat],
         \A d \in Domain : f[d] <= g[d]
  PROVE  Sum(f) \in Nat /\ Sum(f) <= Sum(g)
BY DomainsAre DEF Sum

-----------------------------------------------------------------------------
(* The loop over the plan.                                                  *)

NextPlace(i) == Min({j \in Plan : j > i} \cup {PlanEnd})

\* The domains of the plan before a place
Before(i) == {REGISTERED_DOMAINS[j] : j \in {k \in Plan : k < i}}

\* The domain at a place of the plan, and no domain at its end
DomainAt(i) == IF i = PlanEnd THEN NoDomain ELSE REGISTERED_DOMAINS[i]

LEMMA PlanIs ==
  /\ Plan \subseteq 1..10 /\ Plan \in SUBSET Nat
  /\ 1 \in Plan /\ PlanEnd \notin Plan
  /\ \A i \in Plan : i < PlanEnd
BY PlacesAre DEF Plan, Selected

\* After a domain comes the next place of the plan, with nothing between.
LEMMA NextPlaceFollows ==
  ASSUME NEW i \in Plan
  PROVE  /\ NextPlace(i) \in Plan \cup {PlanEnd} /\ i < NextPlace(i)
         /\ \A j \in Plan : j < NextPlace(i) <=> j < i \/ j = i
         /\ Before(NextPlace(i)) = Before(i) \cup {REGISTERED_DOMAINS[i]}
<1> DEFINE S == {j \in Plan : j > i} \cup {PlanEnd}
<1>1. S \in SUBSET Nat /\ S # {}
  <2>1. \A j \in S : j \in Nat
    BY PlanIs, PlacesAre
  <2> QED
    BY <2>1
<1>2. NextPlace(i) \in S /\ \A j \in S : NextPlace(i) <= j
  BY <1>1, LeastPlace DEF NextPlace
<1>3. NextPlace(i) \in Nat /\ i \in Nat /\ i < NextPlace(i)
  BY <1>1, <1>2, PlanIs
<1>4. ASSUME NEW j \in Plan PROVE j < NextPlace(i) <=> j < i \/ j = i
  <2>1. j \in Nat
    BY PlanIs
  <2>2. CASE j > i
    <3>1. NextPlace(i) <= j
      BY <1>2, <2>2
    <3> QED
      BY <1>3, <2>1, <2>2, <3>1
  <2> QED
    BY <1>3, <2>1, <2>2
<1>5. {k \in Plan : k < NextPlace(i)} = {k \in Plan : k < i} \cup {i}
  BY <1>4
<1> QED
  BY <1>2, <1>3, <1>4, <1>5 DEF Before

\* The first domain of the plan that is not completed is the one whose turn
\* it is.
LEMMA NextIsDomainAt ==
  ASSUME NEW i \in Plan \cup {PlanEnd}
  PROVE  NextSelectedDomain(Before(i)) = DomainAt(i)
<1> DEFINE open == {j \in Plan : REGISTERED_DOMAINS[j] \notin Before(i)}
<1>1. open = {j \in Plan : ~(j < i)}
  <2>1. \A j \in Plan : REGISTERED_DOMAINS[j] \in Before(i) <=> j < i
    BY OnePlaceEach, PlanIs DEF Before
  <2> QED
    BY <2>1
<1>2. CASE i = PlanEnd
  <2>1. open = {}
    BY <1>1, <1>2, PlanIs
  <2> QED
    BY <1>2, <2>1 DEF NextSelectedDomain, FirstOf, DomainAt
<1>3. CASE i \in Plan
  <2>1. open \in SUBSET Nat /\ i \in open /\ open # {}
    <3>1. open \subseteq Plan
      OBVIOUS
    <3>2. i \in Nat /\ ~(i < i)
      BY <1>3, PlanIs
    <3> HIDE DEF open
    <3>3. i \in open
      BY <1>1, <1>3, <3>2
    <3> QED
      BY <3>1, <3>3, PlanIs
  <2>2. Min(open) \in open /\ \A j \in open : Min(open) <= j
    BY <2>1, LeastPlace
  <2>3. Min(open) = i
    BY <1>1, <2>1, <2>2
  <2> QED
    BY <1>3, <2>1, <2>3, PlanIs DEF NextSelectedDomain, FirstOf, DomainAt
<1> QED
  BY <1>2, <1>3

-----------------------------------------------------------------------------
(* The invariant.                                                           *)

\* The loop: where it is, what is completed, and the steps of every domain.
LoopInv ==
  /\ options \in Options
  /\ position \in Plan \cup {PlanEnd}
  /\ reported \in Nat
  /\ position \in Plan => reported <= Callbacks(REGISTERED_DOMAINS[position])
  /\ position = PlanEnd => reported = 0
  /\ completed = Before(position)
  /\ steps = [d \in Domain |-> IF d \in completed THEN StepCount(d)
                               ELSE IF d = DomainAt(position) THEN reported ELSE 0]
  /\ outcome \in {"running", "returned", "raised"}
  /\ outcome = "returned" => position = PlanEnd

\* What a report that says where the loop is looks like
ReportNow(active) ==
  [active |-> active, count |-> Sum(steps), steps |-> steps,
   records |-> Records(completed, active)]

\* The last report says where the loop is, from the host domain's end on.
ReportInv ==
  emitted = IF "host" \in completed THEN ReportNow(DomainAt(position)) ELSE NothingEmitted

\* The facts are those of the completed domains, and the VPN domain was given
\* those of the two domains before it.
FactsInv ==
  /\ network = [interfaces |-> "network" \in completed, routes |-> "routing" \in completed]
  /\ vpnInput = IF "vpn" \in completed THEN network ELSE Nothing

RunInv == LoopInv /\ ReportInv /\ FactsInv

-----------------------------------------------------------------------------
(* It is inductive: one lemma per half of the two steps that move the loop. *)

LEMMA InitEstablishes ==
  ASSUME Init
  PROVE  RunInv
<1> USE DEF Init
<1>1. position \in Plan /\ DomainAt(position) = "host" /\ Before(position) = {}
  <2>1. \A k \in Plan : ~(k < 1)
    BY PlanIs
  <2> QED
    BY <2>1, PlanIs, PlacesAre DEF Before, DomainAt
<1>2. Callbacks("host") = 0 /\ REGISTERED_DOMAINS[position] = "host" /\ position # PlanEnd
  BY PlacesAre DEF Callbacks
<1>3. LoopInv
  BY <1>1, <1>2 DEF LoopInv
<1>4. ReportInv
  BY DEF ReportInv
<1>5. FactsInv
  <2>1. ("network" \in completed) = FALSE /\ ("routing" \in completed) = FALSE
        /\ ("vpn" \in completed) = FALSE
    OBVIOUS
  <2> QED
    BY <2>1 DEF FactsInv, Nothing
<1> QED
  BY <1>3, <1>4, <1>5 DEF RunInv

\* The domain whose turn it is
LEMMA RunningIs ==
  ASSUME LoopInv, NEW d \in Domain, Running(d)
  PROVE  /\ position \in Plan /\ position # PlanEnd /\ position \in 1..10
         /\ d = REGISTERED_DOMAINS[position] /\ d = DomainAt(position)
         /\ d \notin completed /\ reported <= Callbacks(d) /\ steps[d] = reported
         /\ NextSelectedDomain(completed) = d
<1>1. position \in Plan /\ position # PlanEnd /\ position \in 1..10
      /\ d = REGISTERED_DOMAINS[position]
  BY PlanIs DEF Running
<1>2. d = DomainAt(position)
  BY <1>1 DEF DomainAt
<1>3. d \notin completed
  <2>1. \A j \in Plan : REGISTERED_DOMAINS[j] = d => j = position
    BY <1>1, OnePlaceEach, PlanIs
  <2> QED
    BY <1>1, <2>1 DEF LoopInv, Before
<1>4. NextSelectedDomain(completed) = d
  BY <1>1, <1>2, NextIsDomainAt DEF LoopInv
<1> QED
  BY <1>1, <1>2, <1>3, <1>4 DEF LoopInv

LEMMA ProgressPreserves ==
  ASSUME RunInv, NEW d \in Domain, RecordDomainProgress(d)
  PROVE  RunInv'
<1> USE DEF RunInv, RecordDomainProgress
<1>1. /\ position \in Plan /\ position # PlanEnd
      /\ d = REGISTERED_DOMAINS[position] /\ d = DomainAt(position) /\ d \notin completed
      /\ reported < Callbacks(d) /\ Callbacks(d) \in Nat
  BY RunningIs, StepCountsAre DEF LoopInv
<1>2. UNCHANGED <<Plan, PlanEnd, DomainAt(position), Before(position)>>
  BY DEF Plan, PlanEnd, Selected, DomainAt, Before
<1>3. \A e \in Domain : StepCount(e)' = StepCount(e) /\ Callbacks(e)' = Callbacks(e)
  BY DEF StepCount, Callbacks
<1>4. LoopInv'
  <2>1. reported' \in Nat /\ reported' <= Callbacks(d)'
    BY <1>1, <1>3 DEF LoopInv
  <2>2. steps' = [e \in Domain |-> IF e \in completed' THEN StepCount(e)'
                                  ELSE IF e = DomainAt(position)' THEN reported' ELSE 0]
    BY <1>1, <1>2, <1>3 DEF LoopInv
  <2> QED
    BY <1>1, <1>2, <2>1, <2>2 DEF LoopInv
<1>5. ReportInv'
  <2>1. Records(completed, d)' = Records(completed, d)
    BY DEF Records, Selected
  <2> QED
    BY <1>1, <1>2, <2>1 DEF ReportInv, ReportNow, EmitProgress
<1>6. FactsInv'
  BY DEF FactsInv
<1> QED
  BY <1>4, <1>5, <1>6

LEMMA CompletePreserves ==
  ASSUME RunInv, NEW d \in Domain, CompleteDomain(d)
  PROVE  RunInv'
<1> USE DEF RunInv, CompleteDomain
<1>1. /\ position \in Plan /\ position # PlanEnd /\ position \in 1..10
      /\ d = REGISTERED_DOMAINS[position] /\ d = DomainAt(position) /\ d \notin completed
  BY RunningIs
<1>2. \A i : /\ Plan' = Plan /\ PlanEnd' = PlanEnd
             /\ (DomainAt(i))' = DomainAt(i) /\ (Before(i))' = Before(i)
  BY DEF Plan, PlanEnd, Selected, DomainAt, Before
<1>3. \A e \in Domain : StepCount(e)' = StepCount(e) /\ Callbacks(e)' = Callbacks(e)
  BY DEF StepCount, Callbacks
<1>4. /\ position' = NextPlace(position) /\ position' \in Plan \cup {PlanEnd}
      /\ completed' = Before(position')
  BY <1>1, NextPlaceFollows DEF NextPlace, LoopInv
<1>5. NextSelectedDomain(completed') = DomainAt(position')
  BY <1>4, NextIsDomainAt
<1>6. LoopInv'
  <2>1. \A i \in Plan : Callbacks(REGISTERED_DOMAINS[i]) \in Nat
    BY OnePlaceEach, PlanIs, StepCountsAre DEF LoopInv
  <2>2. steps' = [e \in Domain |-> IF e \in completed' THEN StepCount(e)
                                  ELSE IF e = DomainAt(position') THEN 0 ELSE 0]
    BY <1>1 DEF LoopInv
  <2> QED
    BY <1>2, <1>3, <1>4, <2>1, <2>2, OnePlaceEach, PlanIs DEF LoopInv, Running
<1>7. ReportInv'
  <2>1. (Records(completed', DomainAt(position')))
          = Records(completed, DomainAt(position))'
    BY <1>2 DEF Records, Selected
  <2> QED
    BY <1>2, <1>5, <2>1 DEF ReportInv, ReportNow, EmitProgress
<1>8. FactsInv'
  <2>1. completed' = completed \cup {d}
    OBVIOUS
  <2>2. ASSUME NEW e \in completed
        PROVE  \E j \in 1..10 : REGISTERED_DOMAINS[j] = e /\ j < position
    BY PlanIs DEF LoopInv, Before
  <2>3. CASE d = "network"
    <3>1. position = 5
      <4>1. 5 \in 1..10 /\ REGISTERED_DOMAINS[5] = REGISTERED_DOMAINS[position]
        BY <1>1, <2>3, PlacesAre
      <4> QED
        BY <1>1, <4>1, OnePlaceEach
    <3>2. "routing" \notin completed /\ "vpn" \notin completed
      BY <2>2, <3>1, OnePlaceEach, PlacesAre
    <3>3. network' = [interfaces |-> TRUE, routes |-> FALSE] /\ vpnInput' = vpnInput
      BY <2>3 DEF SetFacts
    <3>4. ("network" \in completed') = TRUE /\ ("routing" \in completed') = FALSE
          /\ "vpn" \notin completed'
      BY <2>1, <2>3, <3>2
    <3> QED
      BY <3>2, <3>3, <3>4 DEF FactsInv
  <2>4. CASE d = "routing"
    <3>1. position = 6
      <4>1. 6 \in 1..10 /\ REGISTERED_DOMAINS[6] = REGISTERED_DOMAINS[position]
        BY <1>1, <2>4, PlacesAre
      <4> QED
        BY <1>1, <4>1, OnePlaceEach
    <3>2. "vpn" \notin completed
      BY <2>2, <3>1, OnePlaceEach, PlacesAre
    <3>3. network' = [network EXCEPT !.routes = TRUE] /\ vpnInput' = vpnInput
      BY <2>4 DEF SetFacts
    <3>4. network' = [interfaces |-> "network" \in completed, routes |-> TRUE]
      BY <3>3, Zenon DEF FactsInv
    <3>5. ("network" \in completed') = ("network" \in completed)
          /\ ("routing" \in completed') = TRUE /\ "vpn" \notin completed'
      BY <2>1, <2>4, <3>2
    <3> QED
      BY <3>2, <3>3, <3>4, <3>5 DEF FactsInv
  <2>5. CASE d \notin {"network", "routing"}
    BY <2>1, <2>5 DEF FactsInv, SetFacts
  <2> QED
    BY <2>3, <2>4, <2>5
<1> QED
  BY <1>6, <1>7, <1>8

LEMMA EndPreserves ==
  ASSUME RunInv, Raise \/ Return \/ UNCHANGED vars
  PROVE  RunInv'
<1>1. /\ UNCHANGED <<options, position, reported, completed, steps, network, vpnInput, emitted>>
      /\ outcome' \in {"running", "returned", "raised"}
      /\ outcome' = "returned" => position = PlanEnd
  BY DEF Raise, Return, vars, RunInv, LoopInv
<1>2. LoopInv'
  <2>1. UNCHANGED <<Plan, PlanEnd, DomainAt(position), Before(position)>>
    BY <1>1 DEF Plan, PlanEnd, Selected, DomainAt, Before
  <2>2. \A e \in Domain : StepCount(e)' = StepCount(e)
    BY <1>1 DEF StepCount
  <2>3. Callbacks(REGISTERED_DOMAINS[position])' = Callbacks(REGISTERED_DOMAINS[position])
    BY <1>1 DEF Callbacks
  <2> QED
    BY <1>1, <2>1, <2>2, <2>3 DEF RunInv, LoopInv
<1>3. ReportInv'
  BY <1>1 DEF RunInv, ReportInv, ReportNow, Records, Selected, DomainAt, PlanEnd
<1>4. FactsInv'
  BY <1>1 DEF RunInv, FactsInv
<1> QED
  BY <1>2, <1>3, <1>4 DEF RunInv

\* The invariant holds of every run.
THEOREM RunInvHolds == Spec => []RunInv
<1>1. Init => RunInv
  BY InitEstablishes
<1>2. RunInv /\ [Next]_vars => RunInv'
  BY ProgressPreserves, CompletePreserves, EndPreserves DEF Next
<1> QED
  BY <1>1, <1>2, PTL DEF Spec

-----------------------------------------------------------------------------
(* What follows from it.                                                    *)

\* No domain has more steps than were planned for it, and only a domain of
\* the plan has any.
LEMMA StepsWithinPlan ==
  ASSUME LoopInv
  PROVE  /\ steps \in [Domain -> Nat]
         /\ \A d \in Domain : steps[d] <= StepCount(d)
         /\ \A d \in Domain : ~Selected(d) => steps[d] = 0
<1>1. ASSUME NEW d \in Domain
      PROVE  /\ steps[d] \in Nat /\ steps[d] <= StepCount(d)
             /\ ~Selected(d) => steps[d] = 0
  <2>1. StepCount(d) \in Nat /\ Callbacks(d) \in Nat /\ Callbacks(d) <= StepCount(d)
    BY StepCountsAre DEF LoopInv
  <2>2. CASE d \in completed
    <3>1. Selected(d)
      BY <2>2 DEF LoopInv, Before, Plan
    <3> QED
      BY <2>1, <2>2, <3>1 DEF LoopInv
  <2>3. CASE d \notin completed /\ d = DomainAt(position)
    <3>1. position \in Plan /\ REGISTERED_DOMAINS[position] = d
      BY <2>3, NoDomainIsNone DEF LoopInv, DomainAt
    <3>2. Selected(d)
      BY <3>1 DEF Plan
    <3>3. steps[d] = reported /\ reported \in Nat /\ reported <= Callbacks(d)
      BY <2>3, <3>1 DEF LoopInv
    <3> QED
      BY <2>1, <3>2, <3>3
  <2>4. CASE d \notin completed /\ d # DomainAt(position)
    <3>1. steps[d] = 0
      BY <2>4 DEF LoopInv
    <3> QED
      BY <2>1, <3>1
  <2> QED
    BY <2>2, <2>3, <2>4
<1>2. steps \in [Domain -> Nat]
  BY <1>1 DEF LoopInv
<1> QED
  BY <1>1, <1>2

\* The total that the context computes over the plan and the one complete()
\* computes over DEFAULT_CHECKS are the same sum.
LEMMA TotalsAgree ==
  /\ TotalSteps = PlannedExecutionStepCount
  /\ TotalSteps = Sum([d \in Domain |-> IF Selected(d) THEN StepCount(d) ELSE 0])
<1>1. ASSUME NEW d \in Domain
      PROVE  (\E i \in Plan : REGISTERED_DOMAINS[i] = d) <=> Selected(d)
  BY OnePlaceEach, PlacesAre DEF Plan
<1>2. [d \in Domain |-> Flag(\E i \in Plan : REGISTERED_DOMAINS[i] = d, StepCount(d))]
        = [d \in Domain |-> IF Selected(d) THEN StepCount(d) ELSE 0]
  BY <1>1 DEF Flag
<1>3. [d \in Domain |-> Flag(Selected(d), StepCount(d))]
        = [d \in Domain |-> IF Selected(d) THEN StepCount(d) ELSE 0]
  BY DEF Flag
<1> QED
  BY <1>2, <1>3 DEF TotalSteps, PlannedExecutionStepCount

LEMMA SumWithinTotal ==
  ASSUME LoopInv
  PROVE  Sum(steps) \in Nat /\ TotalSteps \in Nat /\ Sum(steps) <= TotalSteps
<1> DEFINE planned == [d \in Domain |-> IF Selected(d) THEN StepCount(d) ELSE 0]
<1>1. planned \in [Domain -> Nat]
  BY StepCountsAre DEF LoopInv
<1>2. \A d \in Domain : steps[d] <= planned[d]
  BY StepsWithinPlan
<1> HIDE DEF planned
<1>3. Sum(steps) \in Nat /\ Sum(steps) <= Sum(planned)
  BY <1>1, <1>2, StepsWithinPlan, SumIsMonotone
<1>4. Sum(planned) \in Nat
  BY <1>1, SumIsMonotone, DomainsAre DEF Sum
<1>5. TotalSteps = Sum(planned)
  BY TotalsAgree DEF planned
<1> QED
  BY <1>3, <1>4, <1>5

\* When the plan is executed, exactly the selected domains are completed.
LEMMA AllCompleted ==
  ASSUME LoopInv, position = PlanEnd
  PROVE  \A d \in Domain : d \in completed <=> Selected(d)
<1>1. \A d \in Domain : d \in completed <=> \E i \in Plan : REGISTERED_DOMAINS[i] = d
  BY PlanIs DEF LoopInv, Before
<1> QED
  BY <1>1, OnePlaceEach, PlacesAre DEF Plan

LEMMA ActiveIs ==
  ASSUME LoopInv
  PROVE  /\ DomainAt(position) \in Domain \cup {NoDomain}
         /\ NextSelectedDomain(completed) = DomainAt(position)
         /\ \A d \in Domain : Records(completed, DomainAt(position))[d] = "running"
                              <=> DomainAt(position) = d
<1>1. DomainAt(position) \in Domain \cup {NoDomain}
  BY OnePlaceEach, PlanIs DEF LoopInv, DomainAt
<1>2. NextSelectedDomain(completed) = DomainAt(position)
  BY NextIsDomainAt DEF LoopInv
<1>3. ASSUME NEW d \in Domain, DomainAt(position) = d
      PROVE  d \notin completed /\ Selected(d)
  <2>1. position \in Plan /\ REGISTERED_DOMAINS[position] = d
    BY <1>3, NoDomainIsNone DEF LoopInv, DomainAt
  <2>2. \A j \in Plan : REGISTERED_DOMAINS[j] = d => j = position
    BY <2>1, OnePlaceEach, PlanIs
  <2> QED
    BY <2>1, <2>2, PlanIs DEF LoopInv, Before, Plan
<1> QED
  BY <1>1, <1>2, <1>3 DEF Records

\* The loop is at a domain of the plan or at its end, its collector never
\* reports more than was planned, and the report and the facts are well formed.
THEOREM TypeOKHolds == Spec => []TypeOK
<1>1. RunInv => TypeOK
  <2> SUFFICES ASSUME RunInv PROVE TypeOK
    OBVIOUS
  <2> USE DEF RunInv
  <2>1. reported \in 0..(IF position = PlanEnd THEN 0
                         ELSE StepCount(REGISTERED_DOMAINS[position]))
    BY StepCountsAre, OnePlaceEach, PlanIs DEF LoopInv
  <2>2. completed \subseteq Domain
    BY OnePlaceEach, PlanIs DEF LoopInv, Before
  <2>3. network \in [interfaces: BOOLEAN, routes: BOOLEAN]
    BY DEF FactsInv
  <2>4. vpnInput \in [interfaces: BOOLEAN, routes: BOOLEAN]
    BY <2>3 DEF FactsInv, Nothing
  <2>5. emitted.active \in Domain \cup {NoDomain}
    BY ActiveIs DEF ReportInv, ReportNow, NothingEmitted
  <2> QED
    BY <2>1, <2>2, <2>3, <2>4, <2>5, StepsWithinPlan DEF LoopInv, TypeOK
<1> QED
  BY <1>1, RunInvHolds, PTL

\* No report of any run claims more than the plan has, and the last one of a
\* run that returns has the total of the finished page: run_context.py and
\* execution.py count the same steps.
THEOREM ReportsWithinPlanHolds == Spec => []ReportsWithinPlan
<1>1. RunInv => ReportsWithinPlan
  <2> SUFFICES ASSUME RunInv PROVE ReportsWithinPlan
    OBVIOUS
  <2> USE DEF RunInv
  <2>1. CASE "host" \notin completed
    <3>1. emitted = NothingEmitted /\ outcome # "returned"
      BY <2>1, AllCompleted, DomainsAre DEF LoopInv, ReportInv, Selected
    <3>2. emitted.count = 0 /\ \A d \in Domain : emitted.steps[d] = 0
      BY <3>1 DEF NothingEmitted
    <3>3. \A d \in Domain : StepCount(d) \in Nat
      BY StepCountsAre DEF LoopInv
    <3> QED
      BY <3>1, <3>2, <3>3, SumWithinTotal DEF ReportsWithinPlan
  <2>2. CASE "host" \in completed
    <3>1. /\ emitted.count = Sum(steps) /\ emitted.steps = steps
          /\ emitted.active = DomainAt(position)
          /\ emitted.records = Records(completed, DomainAt(position))
      BY <2>2 DEF ReportInv, ReportNow
    <3>2. ASSUME outcome = "returned"
          PROVE  /\ emitted.active = NoDomain
                 /\ emitted.count = PlannedExecutionStepCount
                 /\ \A d \in Domain :
                      emitted.records[d] = IF Selected(d) THEN "collected" ELSE "optional"
      <4>1. position = PlanEnd /\ \A d \in Domain : d \in completed <=> Selected(d)
        BY <3>2, AllCompleted DEF LoopInv
      <4>2. steps = [d \in Domain |-> IF Selected(d) THEN StepCount(d) ELSE 0]
        BY <4>1, NoDomainIsNone DEF LoopInv, DomainAt
      <4> QED
        BY <3>1, <4>1, <4>2, TotalsAgree DEF Records, DomainAt
    <3> QED
      BY <3>1, <3>2, StepsWithinPlan, SumWithinTotal DEF ReportsWithinPlan
  <2> QED
    BY <2>1, <2>2
<1> QED
  BY <1>1, RunInvHolds, PTL

\* Every report names the first unfinished domain of the plan as the active
\* one, and shows that one and no other as running.
THEOREM ActiveIsFirstOpenHolds == Spec => []ActiveIsFirstOpen
<1>1. RunInv => ActiveIsFirstOpen
  <2> SUFFICES ASSUME RunInv PROVE ActiveIsFirstOpen
    OBVIOUS
  <2>1. CASE "host" \notin completed
    <3>1. emitted = NothingEmitted
      BY <2>1 DEF RunInv, ReportInv
    <3> QED
      BY <2>1, <3>1, NoDomainIsNone DEF ActiveIsFirstOpen, NothingEmitted
  <2>2. CASE "host" \in completed
    <3>1. /\ emitted.active = DomainAt(position)
          /\ emitted.records = Records(completed, DomainAt(position))
      BY <2>2 DEF RunInv, ReportInv, ReportNow
    <3> QED
      BY <3>1, ActiveIs DEF RunInv, ActiveIsFirstOpen
  <2> QED
    BY <2>1, <2>2
<1> QED
  BY <1>1, RunInvHolds, PTL

\* What the network and the routing domain found is still there when a run
\* returns, and the VPN record passes exactly when both were there for it.
THEOREM FactsSurviveHolds == Spec => []FactsSurvive
<1>1. RunInv => FactsSurvive
  <2> SUFFICES ASSUME RunInv, outcome = "returned"
               PROVE  /\ "network" \in options.selected => network.interfaces
                      /\ "routing" \in options.selected => network.routes
                      /\ "vpn" \in options.selected =>
                           (VpnStatus = "passed" <=> vpnInput.interfaces /\ vpnInput.routes)
    BY DEF FactsSurvive
  <2>1. \A d \in {"network", "routing", "vpn"} : d \in completed <=> d \in options.selected
    BY AllCompleted, DomainsAre DEF RunInv, LoopInv, Selected
  <2>2. /\ network.interfaces = ("network" \in completed)
        /\ network.routes = ("routing" \in completed)
    BY DEF RunInv, FactsInv
  <2>3. ASSUME "vpn" \in options.selected
        PROVE  VpnStatus = "passed" <=> vpnInput.interfaces /\ vpnInput.routes
    <3>1. vpnInput = network
      BY <2>1, <2>3 DEF RunInv, FactsInv
    <3> QED
      BY <2>1, <2>2, <3>1 DEF VpnStatus
  <2> QED
    BY <2>1, <2>2, <2>3
<1> QED
  BY <1>1, RunInvHolds, PTL

\* The count of a report is never below the one before it, over any step of
\* any run: the assumption RunSessions makes of its executor.
THEOREM CountNeverDecreasesHolds == Spec => CountNeverDecreases
<1>1. ASSUME RunInv, RunInv', TypeOK, TypeOK', [Next]_vars
      PROVE  emitted'.count >= emitted.count
  <2>1. UNCHANGED options /\ completed \subseteq completed'
    BY <1>1 DEF Next, RecordDomainProgress, CompleteDomain, Raise, Return, vars
  <2>2. \A d \in Domain : steps[d] <= steps'[d]
    <3>1. ASSUME NEW d \in Domain, RecordDomainProgress(d)
          PROVE  steps' = [steps EXCEPT ![d] = steps[d] + 1]
      BY <1>1, <3>1, RunningIs DEF RunInv, RecordDomainProgress
    <3>2. ASSUME NEW d \in Domain, CompleteDomain(d)
          PROVE  steps' = [steps EXCEPT ![d] = StepCount(d)]
      BY <3>2 DEF CompleteDomain
    <3>3. CASE Raise \/ Return \/ UNCHANGED vars
      BY <1>1, <3>3, StepsWithinPlan DEF RunInv, Raise, Return, vars
    <3>4. steps \in [Domain -> Nat] /\ \A d \in Domain : steps[d] <= StepCount(d)
                                                        /\ StepCount(d) \in Nat
      BY <1>1, StepsWithinPlan, StepCountsAre DEF RunInv, LoopInv
    <3> QED
      BY <1>1, <3>1, <3>2, <3>3, <3>4 DEF Next
  <2>3. steps \in [Domain -> Nat] /\ steps' \in [Domain -> Nat]
    BY <1>1 DEF TypeOK
  <2>4. Sum(steps) \in Nat /\ Sum(steps') \in Nat /\ Sum(steps) <= Sum(steps')
    BY <2>2, <2>3, SumIsMonotone
  <2>5. CASE "host" \in completed
    BY <1>1, <2>1, <2>4, <2>5 DEF RunInv, ReportInv, ReportNow
  <2>6. CASE "host" \notin completed
    <3>1. emitted.count = 0
      BY <1>1, <2>6 DEF RunInv, ReportInv, NothingEmitted
    <3>2. emitted'.count = 0 \/ emitted'.count = Sum(steps')
      BY <1>1 DEF RunInv, ReportInv, ReportNow, NothingEmitted
    <3> QED
      BY <2>4, <3>1, <3>2
  <2> QED
    BY <2>5, <2>6
<1> QED
  BY <1>1, RunInvHolds, TypeOKHolds, PTL DEF Spec, CountNeverDecreases
=============================================================================

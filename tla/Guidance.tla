------------------------------- MODULE Guidance -------------------------------
(***************************************************************************)
(* The guided summary of a run (explanations.py): the findings, sorted,    *)
(* are filtered by the intent that the intake resolved, and the first      *)
(* three that remain are explained.                                        *)
(***************************************************************************)
EXTENDS FindingsRun

CONSTANT Intents(_)   \* intents the intake resolves for such checks; "none": no intake

VARIABLES intent, guide

gvars == <<intent, guide>>

NoGuide == [explained |-> <<>>, steps |-> {}, note |-> "none"]

GInit == Init /\ intent \in Intents(selected) /\ guide = NoGuide

Heuristic == {"mixed-external-tcp-results", "dns-partial-resolution", "partial-trace",
              "mixed-service-results", "vpn-signal-private-resource-failure",
              "host-pressure-with-connectivity-degradation"}

\* Findings that FINDING_GUIDANCE has no safe next actions for
Unguided == {"partial-trace"}

\* Findings with a single line of evidence: there is one per failing device.
Thin(f) ==
  f.id = "storage-device-health-failure" /\ Cardinality(DevicesThat(facts.devices, "failing")) = 1

\* _INTENT_DIRECT_FAULT_DOMAINS
DirectAreas ==
  [internet_connectivity_loss     |-> {"local_network", "dns", "internet_edge"},
   partial_access_or_dns          |-> {"dns", "internet_edge", "upstream_network"},
   vpn_or_private_resource_access |-> {"vpn", "upstream_network", "dns"},
   local_performance_degradation  |-> {"local_host"},
   clock_or_trust_failure         |-> {"local_host", "dns"}]

\* _INTENT_ADJACENT_FAULT_DOMAINS; no rule uses "unknown".
AdjacentAreas ==
  [internet_connectivity_loss     |-> {"vpn", "upstream_network", "unknown"},
   partial_access_or_dns          |-> {"local_network", "vpn", "unknown"},
   vpn_or_private_resource_access |-> {"local_network", "internet_edge", "unknown"},
   local_performance_degradation  |-> {"local_network", "unknown"},
   clock_or_trust_failure         |-> {"internet_edge", "unknown"}]

\* _finding_scope_relevance
Relevance(f) ==
  CASE intent \notin DOMAIN DirectAreas \/ f.area \in DirectAreas[intent] -> "direct"
    [] intent \in DOMAIN DirectAreas /\ f.area \in AdjacentAreas[intent] \ DirectAreas[intent]
         -> "adjacent"
    [] OTHER -> "inconsistent"

\* Whether a capacity group is under such pressure
\* (_storage_finding_is_guidance_safe)
GroupAt(level) == \E i \in DOMAIN facts.volumes : facts.volumes[i].level = level

\* _storage_issue_present: a volume or a device under any pressure
StorageIssue == GroupAt("critical") \/ GroupAt("low")
                  \/ \E i \in DOMAIN facts.devices : facts.devices[i] \in {"degraded", "failing"}

\* _finding_is_guidance_safe
Safe(f) ==
  /\ f.id = "critical-disk-space-exhaustion" => GroupAt("critical")
  /\ f.id = "low-disk-space-operational-risk" => GroupAt("low")
  /\ f.id = "no-significant-storage-pressure" => ~StorageIssue
  /\ f.id = "vpn-signal-private-resource-failure" => \E s \in facts.signals : Meaningful(s)

\* _is_critical_well_supported
WellSupported(f) ==
  f.severity = "high" /\ f.confidence >= 85 /\ ~Thin(f) /\ f.id \notin Heuristic

\* Mutant: only what is directly in the scope is kept.
KeptDirect(f) == Safe(f) /\ (Relevance(f) # "direct" => WellSupported(f))

Kept(f) == Safe(f) /\ (Relevance(f) = "inconsistent" => WellSupported(f))

\* The order of _finalize_findings, whose sort is stable, on places in the list
Before(i, j) == \/ Rank(findings[i]) > Rank(findings[j])
                \/ (Rank(findings[i]) = Rank(findings[j]) /\ i < j)

First(places) == CHOOSE i \in places : \A j \in places \ {i} : Before(i, j)

FirstThree(places) ==
  LET one   == First(places)
      two   == First(places \ {one})
      three == First(places \ {one, two}) IN
  IF places = {} THEN <<>>
  ELSE IF places = {one} THEN <<one>>
  ELSE IF places = {one, two} THEN <<one, two>>
  ELSE <<one, two, three>>

\* guidance_safe_findings
KeptPlaces == {i \in DOMAIN findings : Kept(findings[i])}

\* Mutant: the first three findings, of which those that may be explained.
ExplainedOfThree ==
  LET three == FirstThree(DOMAIN findings) IN
  FirstThree({three[k] : k \in DOMAIN three} \intersect KeptPlaces)

\* The places of the findings that the summary explains
Explained == FirstThree(KeptPlaces)

\* enrich_findings, then build_guided_experience, for a run without a profile
Explain ==
  /\ findings # <<>> /\ guide = NoGuide
  /\ LET explained == [k \in DOMAIN Explained |-> findings[Explained[k]]] IN
     guide' = [explained |-> explained,
               steps     |-> {explained[k].id : k \in DOMAIN explained} \ Unguided,
               note      |-> IF KeptPlaces = {} THEN "withheld"
                             ELSE IF KeptPlaces # DOMAIN findings THEN "out of scope"
                             ELSE "none"]
  /\ UNCHANGED <<vars, intent>>

Guided == guide # NoGuide /\ UNCHANGED <<vars, gvars>>

GNext == (Next /\ UNCHANGED gvars) \/ Explain \/ Guided

GSpec == GInit /\ [][GNext]_<<vars, gvars>>
-----------------------------------------------------------------------------
ExplainedIds == {guide.explained[i].id : i \in DOMAIN guide.explained}

\* When the fault domain of the result is in the scope of the intake, the
\* summary begins with a finding about it: what the result page names first
\* and what the guidance explains first do not diverge.
\* (findings.py: _finalize_findings, explanations.py: build_guided_experience)
FaultDomainIsExplained ==
  (/\ guide # NoGuide
   /\ intent \notin DOMAIN DirectAreas
        \/ FaultDomain \in DirectAreas[intent] \union AdjacentAreas[intent])
  => guide.explained # <<>> /\ guide.explained[1].area = FaultDomain

\* A problem in the scope that the operator chose is always explained, unless
\* three findings of at least its severity are; problems outside the scope
\* displace it only when they are as severe.
\* (finding-rules.md: "Scope-awareness only affects guided narrative
\* prioritization.")
ScopedProblemIsExplained ==
  guide # NoGuide =>
    \A i \in DOMAIN findings :
      LET f == findings[i] IN
      (Relevance(f) = "direct" /\ f.severity # "info" /\ f.id \notin ExplainedIds) =>
        /\ Len(guide.explained) = 3
        /\ \A k \in 1..3 : Severity(guide.explained[k]) >= Severity(f)

=============================================================================

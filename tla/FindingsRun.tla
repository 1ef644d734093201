----------------------------- MODULE FindingsRun -----------------------------
(***************************************************************************)
(* A run from its selected checks to its findings: each selected domain    *)
(* fills in its facts, the others keep the defaults of the run context,    *)
(* and the rules are evaluated (findings.py, run_context.py).              *)
(***************************************************************************)
EXTENDS HostFindings

CONSTANTS
  Selections,   \* sets of checks an operator or a profile selects
  Categories(_),      \* issue categories of such a selection
  Links(_),           \* what the collectors may report when the given
  RouteTables(_),     \* ... checks are selected: interfaces, routes,
  Lookups(_),         \* ... name lookups,
  TcpOutcomes(_),     \* ... TCP checks,
  ServiceOutcomes(_), \* ... service checks,
  Clocks(_),          \* ... the clock,
  Loads(_), Memories(_), \* ... resources,
  Disks(_)            \* ... volumes and devices

\* What the collectors can say of the clock, of the capacity groups under
\* pressure and the devices, of the interfaces (usable: with an address that is
\* not link-local) and of the routes
Clock == [check : {"none", "not_run", "checked", "failed"}, skew : Nat,
          zone : {"consistent", "inconsistent", "unknown"}]

Storage == [volumes : Seq([level : {"critical", "low"}, operational : BOOLEAN]),
            devices : Seq({"ok", "degraded", "failing", "unknown"})]

Inventory ==
  {l \in [listed : SUBSET Interfaces, up : SUBSET Interfaces, addressed : SUBSET Interfaces,
          usable : SUBSET Interfaces] :
     l.up \subseteq l.listed /\ l.addressed \subseteq l.listed /\ l.usable \subseteq l.addressed}

RouteTable == [route : BOOLEAN, interface : Interfaces \union {"none"}, observations : Nat,
               owners : SUBSET Interfaces]

ASSUME CollectorsAssumption ==
  \A checks \in Selections :
    /\ Clocks(checks) \subseteq Clock /\ Disks(checks) \subseteq Storage
    /\ Links(checks) \subseteq Inventory /\ RouteTables(checks) \subseteq RouteTable

VARIABLES
  selected,   \* the checks of the run
  category,   \* the issue category of the intake
  mac,        \* whether the endpoint is a Mac
  todo,       \* selected domains that are still to be collected
  facts,      \* CollectedFacts, as far as the rules read them
  findings    \* the findings, in the order of the rules; empty before the evaluation

vars == <<selected, category, mac, todo, facts, findings>>

\* The places of the domains in REGISTERED_DOMAINS, without host, which no
\* rule reads
Order == [time |-> 1, resources |-> 2, storage |-> 3, network |-> 4, routing |-> 5, dns |-> 6,
          connectivity |-> 7, services |-> 8, vpn |-> 9]

\* The facts of a fresh DiagnosticsRunContext
DefaultFacts ==
  [time |-> [check |-> "none", skew |-> 0, zone |-> "unknown"],
   cpu |-> [load1 |-> Unknown, load5 |-> Unknown],
   memory |-> [available |-> Unknown, swap |-> Unknown, commit |-> Unknown],
   vectors |-> FALSE, battery |-> "none",
   volumes |-> <<>>, devices |-> <<>>,
   network |-> [listed |-> {}, up |-> {}, addressed |-> {}, usable |-> {}],
   routing |-> [route |-> FALSE, interface |-> "none", observations |-> 0, owners |-> {}],
   dns |-> <<>>, tcp |-> <<>>, trace |-> 0, signals |-> {}, services |-> <<>>]

Init ==
  /\ selected \in Selections
  /\ category \in Categories(selected)
  /\ mac \in BOOLEAN /\ (mac => "vpn" \in selected)
  /\ todo = DOMAIN Order \intersect selected
  /\ facts = DefaultFacts
  /\ findings = <<>>

\* The next turn of the loop over the execution plan is that of d.
Collect(d) ==
  /\ d \in todo /\ \A e \in todo : Order[d] <= Order[e]
  /\ todo' = todo \ {d}
  /\ UNCHANGED <<selected, category, mac, findings>>

CollectTime ==
  Collect("time") /\ \E c \in Clocks(selected) : facts' = [facts EXCEPT !.time = c]

CollectResources ==
  /\ Collect("resources")
  /\ \E load \in Loads(selected), memory \in Memories(selected),
         vectors \in BOOLEAN, battery \in {"good", "degraded"} :
       facts' = [facts EXCEPT !.cpu = load, !.memory = memory, !.vectors = vectors,
                              !.battery = battery]

CollectStorage ==
  /\ Collect("storage")
  /\ \E d \in Disks(selected) : facts' = [facts EXCEPT !.volumes = d.volumes, !.devices = d.devices]

CollectNetwork ==
  Collect("network") /\ \E l \in Links(selected) : facts' = [facts EXCEPT !.network = l]

CollectRouting ==
  Collect("routing") /\ \E r \in RouteTables(selected) : facts' = [facts EXCEPT !.routing = r]

ResolveNames ==
  Collect("dns") /\ \E l \in Lookups(selected) : facts' = [facts EXCEPT !.dns = l]

\* trace: the targets whose trace is partial
CheckConnectivity ==
  /\ Collect("connectivity")
  /\ \E t \in TcpOutcomes(selected) : \E trace \in 0..Cardinality(DOMAIN t) :
       facts' = [facts EXCEPT !.tcp = t, !.trace = trace]

DetectVpn == Collect("vpn") /\ facts' = [facts EXCEPT !.signals = VpnSignals(facts, mac)]

CheckServices ==
  Collect("services") /\ \E s \in ServiceOutcomes(selected) : facts' = [facts EXCEPT !.services = s]

Rules(enabled, rules) == IF enabled THEN rules ELSE <<>>

\* evaluate_selected_findings, before the baseline
Gated ==
  Rules({"network", "routing", "connectivity"} \intersect selected # {}, NetworkPath(facts))
  \o Rules({"dns", "connectivity"} \subseteq selected, DnsPath(facts))
  \o Rules("time" \in selected, TimeState(facts))
  \o Rules({"resources", "storage"} \intersect selected # {},
           HostPressure(facts, selected, category) \o StorageAndHardware(facts, category))
  \o Rules("connectivity" \in selected, TraceResults(facts))
  \o Rules("services" \in selected, ServicePath(facts))
  \o Rules({"vpn", "services"} \subseteq selected, VpnPath(facts))

HealthyBaseline == Finding("healthy-baseline", "info", "healthy", 80)

\* ... and _finalize_findings; the order of the list is that of Rank.
Evaluate ==
  /\ todo = {} /\ findings = <<>>
  /\ findings' = IF Gated = <<>> THEN <<HealthyBaseline>> ELSE Gated
  /\ UNCHANGED <<selected, category, mac, todo, facts>>

Evaluated == findings # <<>> /\ UNCHANGED vars

Next ==
  \/ CollectTime \/ CollectResources \/ CollectStorage \/ CollectNetwork \/ CollectRouting
  \/ ResolveNames \/ CheckConnectivity \/ DetectVpn \/ CheckServices
  \/ Evaluate \/ Evaluated

Spec == Init /\ [][Next]_vars
-----------------------------------------------------------------------------
Severity(f) ==
  CASE f.severity = "high" -> 3 [] f.severity = "medium" -> 2
    [] f.severity = "low" -> 1 [] f.severity = "info" -> 0

\* Mutant: the most certain finding comes first.
RankByConfidence(f) == f.confidence

Rank(f) == 100 * Severity(f) + f.confidence

\* probable_fault_domain: that of the first finding of the highest rank
FaultDomain ==
  LET best == {i \in DOMAIN findings :
                 \A j \in DOMAIN findings : Rank(findings[j]) <= Rank(findings[i])} IN
  findings[CHOOSE i \in best : \A j \in best : i <= j].area

Found == {findings[i].id : i \in DOMAIN findings}
-----------------------------------------------------------------------------
\* Findings that say that some public target was reached, or that none was
Reached == {"mixed-external-tcp-results", "dns-failure-raw-ip-success",
            "internet-ok-selected-service-failure", "mixed-service-results",
            "network-explanation-not-supported"}

Unreached == {"no-default-route-no-internet", "default-route-present-but-inconsistent",
              "route-and-dns-ok-external-tcp-failure"}

\* What the findings say of the endpoint: each statement with the findings
\* that make it and those that deny it. The baseline, which denies everything,
\* is only given alone.
Statements ==
  { \* a public target is reached
    [made |-> Reached, denied |-> Unreached],
    \* nothing is wrong with the network
    [made |-> {"network-explanation-not-supported"},
     denied |-> Unreached \union (Reached \ {"network-explanation-not-supported"})
                \union {"dns-partial-resolution", "partial-trace",
                        "active-interface-no-local-address",
                        "vpn-signal-private-resource-failure",
                        "host-pressure-with-connectivity-degradation"}],
    \* there is a default route, and it is in order
    [made |-> {"default-route-present-but-inconsistent",
               "route-and-dns-ok-external-tcp-failure"},
     denied |-> {"no-default-route-no-internet"}],
    [made |-> {"route-and-dns-ok-external-tcp-failure"},
     denied |-> {"default-route-present-but-inconsistent"}],
    \* names are resolved, or some of them
    [made |-> {"route-and-dns-ok-external-tcp-failure"},
     denied |-> {"dns-failure-raw-ip-success", "dns-partial-resolution"}],
    [made |-> {"dns-partial-resolution"}, denied |-> {"dns-failure-raw-ip-success"}],
    \* a public service answers
    [made |-> {"mixed-service-results"}, denied |-> {"internet-ok-selected-service-failure"}],
    \* the endpoint has an address
    [made |-> Reached \union {"route-and-dns-ok-external-tcp-failure"},
     denied |-> {"active-interface-no-local-address"}],
    \* the clock was compared with a reference, is right, is far off
    [made |-> {"system-clock-materially-inaccurate",
               "local-time-may-impact-secure-service-access", "no-significant-time-issue"},
     denied |-> {"insufficient-clock-drift-evidence"}],
    [made |-> {"no-significant-time-issue"},
     denied |-> {"system-clock-materially-inaccurate", "timezone-configuration-inconsistent",
                 "local-time-may-impact-secure-service-access"}],
    [made |-> {"system-clock-materially-inaccurate"},
     denied |-> {"local-time-may-impact-secure-service-access"}],
    \* the host is at ease, or under a pressure without a dominant source
    [made |-> {"no-significant-host-pressure"},
     denied |-> {"high-memory-pressure", "sustained-cpu-saturation",
                 "device-slow-local-host-pressure", "local-resource-pressure-no-dominant-source",
                 "host-pressure-with-connectivity-degradation"}],
    [made |-> {"local-resource-pressure-no-dominant-source"},
     denied |-> {"high-memory-pressure", "sustained-cpu-saturation",
                 "device-slow-local-host-pressure",
                 "host-pressure-with-connectivity-degradation"}],
    \* volumes and devices are in order
    [made |-> {"no-significant-storage-pressure"},
     denied |-> {"critical-disk-space-exhaustion", "low-disk-space-operational-risk",
                 "storage-device-health-failure", "storage-device-health-warning"}] }

\* The opposite findings that the rules do give together:
Conceded(pair) ==
  \* a private target that is reached counts as the internet (internet_reachable),
  \/ /\ "internet-ok-selected-service-failure" \in pair
     /\ pair \intersect {"default-route-present-but-inconsistent",
                         "route-and-dns-ok-external-tcp-failure"} # {}
     /\ PublicSucceeded(facts.tcp) = {} /\ Succeeded(facts.tcp) \intersect Private # {}
  \* "DNS works" needs one lookup that succeeded, whatever became of the others,
  \/ pair = {"route-and-dns-ok-external-tcp-failure", "dns-partial-resolution"}
  \* the services are other targets than those of the TCP checks,
  \/ /\ "mixed-service-results" \in pair /\ pair \intersect Unreached # {}
     /\ PublicSucceeded(facts.services) # {} /\ PublicSucceeded(facts.tcp) = {}
  \* the rule about the interfaces does not ask what was reached,
  \/ "active-interface-no-local-address" \in pair /\ pair \intersect Reached # {}
  \* and the one about slowness asks only for TCP checks, lookups and the route.
  \/ /\ "network-explanation-not-supported" \in pair
     /\ pair \intersect {"internet-ok-selected-service-failure", "mixed-service-results",
                         "vpn-signal-private-resource-failure", "partial-trace"} # {}

\* The rules are evaluated independently, and still what one finding says of
\* the endpoint no other denies, but for the five kinds of pairs that Conceded
\* names. (findings_network.py, findings_services.py, findings_resources.py,
\* findings_time.py, findings_common.py: network_explanation_not_supported)
NoContradiction ==
  \A s \in Statements :
    \A a \in s.made \intersect Found, b \in s.denied \intersect Found : Conceded({a, b})

\* The fault domain is "healthy" only when every finding is informational: no
\* certain all-clear outranks a problem. (findings.py: _finalize_findings)
HealthyOnlyWhenClean ==
  findings # <<>> /\ FaultDomain = "healthy" =>
    \A i \in DOMAIN findings : findings[i].severity = "info"

Mixed(checks) == PublicFailed(checks) # {} /\ PublicSucceeded(checks) # {}

\* A volume is under pressure or a device is not well.
StorageTrouble ==
  \/ facts.volumes # <<>>
  \/ \E i \in DOMAIN facts.devices : facts.devices[i] \in {"degraded", "failing"}

\* An endpoint that reaches some public targets and not others, or that has a
\* volume under pressure or a device that is not well, is never reported as
\* healthy, whatever else was found; and a saturated processor is never
\* called insignificant. (finding-rules.md: "CPU pressure now prefers
\* logical-core saturation evidence over generic utilization alone."
\* findings_resources.py: evaluate_hardware_health, storage_space_findings)
TroubleIsNotHealthy ==
  findings # <<>> =>
    /\ Mixed(facts.tcp) \/ Mixed(facts.services) \/ StorageTrouble => FaultDomain # "healthy"
    /\ CpuSaturation(facts.cpu) \in {"high", "elevated"}
       => "no-significant-host-pressure" \notin Found

\* An endpoint where every lookup and every TCP check of the run failed is not
\* healthy. (finding-rules.md: the engine reasons about "DNS failures and
\* partial failures" and "generic connectivity failures")
OutageIsFound ==
  (/\ findings # <<>> /\ {"dns", "connectivity", "routing", "network"} \subseteq selected
   /\ \A i \in DOMAIN facts.dns : facts.dns[i] = "failed"
   /\ Succeeded(facts.tcp) = {})
  => FaultDomain # "healthy"
=============================================================================

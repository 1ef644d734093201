--------------------------- MODULE NetworkFindings ---------------------------
(***************************************************************************)
(* The deterministic rules about network, DNS, trace, service and VPN      *)
(* facts (findings_network.py, findings_services.py, collectors/vpn.py) as *)
(* operators on the facts of a run. Confidences are in percent.            *)
(***************************************************************************)
EXTENDS Naturals, Sequences, FiniteSets

CONSTANTS
  Interfaces,   \* non-loopback interfaces of the endpoint
  Tunnels,      \* those whose name looks like a tunnel (VPN_NAME_TOKENS)
  Hinted,       \* ... of these, those whose type is inferred to be a tunnel,
  Utuns,        \* ... and those named utun...
  Numeric,      \* TCP targets given by address
  Private       \* TCP and service targets on private or loopback addresses

ASSUME InterfacesAssumption == Tunnels \subseteq Interfaces /\ Hinted \union Utuns \subseteq Tunnels

Finding(id, severity, area, confidence) ==
  [id |-> id, severity |-> severity, area |-> area, confidence |-> confidence]

If(condition, finding) == IF condition THEN <<finding>> ELSE <<>>

Failed(checks)    == {t \in DOMAIN checks : ~checks[t]}
Succeeded(checks) == {t \in DOMAIN checks : checks[t]}

\* internet_reachable: any TCP check succeeded (collectors/connectivity.py)
Reachable(tcp) == Succeeded(tcp) # {}

\* route_inconsistency_evidence, its number of lines: the observations of the
\* route table, a default interface that is not known or not up, and one
\* without an address. A route is suspect only where something was observed.
Inconsistencies(f) ==
  LET iface == f.routing.interface IN
  IF ~f.routing.route THEN 0
  ELSE f.routing.observations
     + (IF iface \notin f.network.up THEN 1 ELSE 0)
     + (IF iface \in f.network.listed /\ iface \notin f.network.addressed THEN 1 ELSE 0)

PublicFailed(checks)    == Failed(checks) \ Private
PublicSucceeded(checks) == Succeeded(checks) \ Private

\* The rules of evaluate_network_path
ActiveInterfaceRule(f) ==
  If(f.network.up # {} /\ f.network.addressed = {},
     Finding("active-interface-no-local-address", IF f.routing.route THEN "medium" ELSE "high",
             "local_network", IF f.routing.route THEN 78 ELSE 90))

\* Mutant: without the condition on the internet.
NoDefaultRouteRuleEager(f) ==
  If(~f.routing.route /\ PublicFailed(f.tcp) # {},
     Finding("no-default-route-no-internet", "high", "local_network", 95))

NoDefaultRouteRule(f) ==
  If(~f.routing.route /\ ~Reachable(f.tcp) /\ PublicFailed(f.tcp) # {},
     Finding("no-default-route-no-internet", "high", "local_network", 95))

InconsistentRouteRule(f) ==
  If(/\ f.routing.route /\ Inconsistencies(f) > 0
     /\ PublicFailed(f.tcp) # {} /\ PublicSucceeded(f.tcp) = {},
     Finding("default-route-present-but-inconsistent",
             IF Reachable(f.tcp) THEN "medium" ELSE "high",
             "local_network", IF Inconsistencies(f) >= 2 THEN 90 ELSE 81))

ExternalTcpRule(f) ==
  If(/\ f.routing.route /\ Inconsistencies(f) = 0
     /\ \E i \in DOMAIN f.dns : f.dns[i] = "ok"
     /\ Cardinality(PublicFailed(f.tcp)) >= 2 /\ PublicSucceeded(f.tcp) = {},
     Finding("route-and-dns-ok-external-tcp-failure", "medium", "internet_edge", 86))

MixedTcpRule(f) ==
  If(PublicSucceeded(f.tcp) # {} /\ PublicFailed(f.tcp) # {},
     Finding("mixed-external-tcp-results", "low", "internet_edge", 64))

\* evaluate_network_path
NetworkPath(f) ==
  ActiveInterfaceRule(f) \o NoDefaultRouteRule(f) \o InconsistentRouteRule(f)
    \o ExternalTcpRule(f) \o MixedTcpRule(f)

\* The rules of evaluate_dns_path: a lookup that timed out is neither.
LookupsWith(f, answer) == {i \in DOMAIN f.dns : f.dns[i] = answer}

DnsFailureRule(f) ==
  If(/\ LookupsWith(f, "failed") # {} /\ LookupsWith(f, "failed") = DOMAIN f.dns
     /\ PublicSucceeded(f.tcp) \intersect Numeric # {},
     Finding("dns-failure-raw-ip-success", "high", "dns", 92))

PartialResolutionRule(f) ==
  If(LookupsWith(f, "ok") # {} /\ LookupsWith(f, "failed") # {},
     Finding("dns-partial-resolution", "low", "dns", 58))

\* evaluate_dns_path
DnsPath(f) == DnsFailureRule(f) \o PartialResolutionRule(f)

\* evaluate_trace_results: one finding per partial trace
TraceResults(f) ==
  [i \in 1..f.trace |-> Finding("partial-trace", "low", "upstream_network", 60)]

\* The rules of evaluate_service_path
ServiceFailureRule(f) ==
  If(/\ Reachable(f.tcp)
     /\ PublicFailed(f.services) # {} /\ PublicSucceeded(f.services) = {},
     Finding("internet-ok-selected-service-failure", "medium", "upstream_network", 79))

MixedServicesRule(f) ==
  If(PublicSucceeded(f.services) # {} /\ PublicFailed(f.services) # {},
     Finding("mixed-service-results", "low", "upstream_network", 61))

\* evaluate_service_path
ServicePath(f) == ServiceFailureRule(f) \o MixedServicesRule(f)

Signal(iface, kind, confidence) == [interface |-> iface, kind |-> kind, confidence |-> confidence]

\* _build_vpn_signal: none for an idle utun interface of macOS
VpnSignalsOf(f, iface, mac) ==
  LET address == iface \in f.network.usable
      utun    == mac /\ iface \in Utuns IN
  CASE f.routing.interface = iface ->
         {Signal(iface, "default-route-tunnel-heuristic", IF address THEN 93 ELSE 84)}
    [] f.routing.interface # iface /\ address /\ iface \in f.routing.owners ->
         {Signal(iface, "route-owned-tunnel-heuristic", IF iface \in Hinted THEN 79 ELSE 72)}
    [] f.routing.interface # iface /\ address /\ iface \notin f.routing.owners ->
         {IF utun THEN Signal(iface, "tunnel-interface-present", 45)
          ELSE Signal(iface, "interface-name-and-address-heuristic",
                      IF iface \in Hinted THEN 82 ELSE 74)}
    [] f.routing.interface # iface /\ ~address ->
         IF utun THEN {} ELSE {Signal(iface, "interface-name-heuristic", 55)}

\* collect_vpn_state
VpnSignals(f, mac) ==
  UNION {VpnSignalsOf(f, iface, mac) : iface \in Tunnels \intersect f.network.up}

\* _vpn_signal_is_meaningful
Meaningful(signal) ==
  signal.kind \in {"default-route-tunnel-heuristic", "route-owned-tunnel-heuristic",
                   "interface-name-and-address-heuristic"}

\* evaluate_vpn_path
VpnPath(f) ==
  LET signals == {s \in f.signals : Meaningful(s)}
      best    == CHOOSE s \in signals : \A t \in signals : t.confidence <= s.confidence
      routed  == \E s \in signals : s.interface = f.routing.interface IN
  IF signals = {} \/ Failed(f.services) \intersect Private = {} THEN <<>>
  ELSE <<Finding("vpn-signal-private-resource-failure", "medium", "vpn",
                 IF routed /\ best.confidence < 82 THEN 82 ELSE best.confidence)>>

\* network_explanation_not_supported
NetworkNotToBlame(f, enabled) ==
  /\ "connectivity" \in enabled
  /\ DOMAIN f.tcp \ Private # {}
  /\ PublicFailed(f.tcp) = {}
  /\ "dns" \in enabled => \A i \in DOMAIN f.dns : f.dns[i] = "ok"
  /\ "routing" \in enabled => f.routing.route
  /\ Reachable(f.tcp)
=============================================================================

---------------------------- MODULE NetworkDomains ----------------------------
(***************************************************************************)
(* The network side of a run: what the collectors of one domain gather,    *)
(* check by check, and the execution record the result shows for it.       *)
(***************************************************************************)
EXTENDS CollectorState, SequencesExt

DnsAnswer   == {"resolved", "no-addresses-returned", "error", "hostname-resolution-timeout"}
PingAnswer  == {"answered", "failed", "ping-command-unavailable"}
TraceAnswer == {"reached", "stopped", "silent", "trace-command-unavailable"}

\* A command and the data its parser finds in the output; without exit code
\* zero nothing is parsed.
CommandResult == {r \in [succeeded : BOOLEAN, data : BOOLEAN] : r.data => r.succeeded}

\* read_interfaces, read_routes and read_arp_neighbors on Linux: a second
\* command when the first does not succeed
WithFallback(first, second) == IF first.succeeded THEN first ELSE second

\* Mutant: one code for every command.
GenericCommandCode(result, unavailable) ==
  IF known /\ result.succeeded THEN {} ELSE {"command-failed"}

\* The warnings of a command-backed collection
CommandCodes(result, unavailable) ==
  CASE ~known -> {"unsupported-platform"}
    [] known /\ ~result.succeeded -> {unavailable}
    [] OTHER -> {}

\* collect_network_state up to progress_callback(1)
CollectInterfaces ==
  /\ Collecting("network") /\ steps = 0
  /\ \E first, second \in CommandResult :
       LET result == WithFallback(first, second) IN
       /\ facts' = [facts EXCEPT !.interfaces = known /\ result.data]
       /\ codes' = CommandCodes(result, "interface-command-failed")
  /\ steps' = 1
  /\ UNCHANGED outcome /\ Unchanged

\* _collect_arp_neighbors; an unknown platform is not mentioned again
CollectArpNeighbors ==
  /\ Collecting("network") /\ steps = 1
  /\ \E first, second \in CommandResult :
       codes' = codes \union (IF known THEN CommandCodes(WithFallback(first, second),
                                                         "arp-command-failed") ELSE {})
  /\ steps' = 2 /\ outcome' = "done"
  /\ UNCHANGED facts /\ Unchanged

\* collect_route_summary; parsers may skip malformed lines with a warning
CollectRouteSummary ==
  /\ Collecting("routing")
  /\ \E first, second \in CommandResult, malformed \in BOOLEAN :
       LET result == WithFallback(first, second) IN
       /\ malformed => known /\ result.succeeded
       /\ facts' = [facts EXCEPT !.routes = known /\ result.data]
       /\ codes' = CommandCodes(result, "route-command-failed")
                     \union (IF malformed THEN {"route-data-warning"} ELSE {})
  /\ outcome' = "done"
  /\ UNCHANGED steps /\ Unchanged

\* collect_dns_state: the resolver inventory comes first, its warning last.
ReadResolvers ==
  /\ Collecting("dns") /\ steps = 0
  /\ \E found \in BOOLEAN : facts' = [facts EXCEPT !.resolvers = known /\ found]
  /\ steps' = 1
  /\ UNCHANGED <<outcome, codes>> /\ Unchanged

ResolveHostname ==
  /\ Collecting("dns") /\ steps \in 1..Len(options.hosts)
  /\ \E answer \in DnsAnswer :
       /\ facts' = [facts EXCEPT !.dns = Append(@, [target |-> options.hosts[steps],
                                                    answer |-> answer])]
       /\ codes' = codes \union ({answer} \intersect {"hostname-resolution-timeout"})
                     \union (IF steps = Len(options.hosts) /\ ~facts.resolvers
                             THEN {"resolver-unavailable"} ELSE {})
  /\ steps' = steps + 1
  /\ DoneIf(steps = Len(options.hosts))
  /\ Unchanged

N == Len(options.targets)

Flag(b, n) == IF b THEN n ELSE 0

\* collect_connectivity_state: all TCP checks, then all pings, then all
\* traces; PingsEnd is where the traces begin.
PingsEnd == N + Flag(options.ping, N)
ConnectivitySteps == PingsEnd + Flag(options.trace, N)

Advance == steps' = steps + 1 /\ DoneIf(steps + 1 = ConnectivitySteps)

CheckTcpTarget ==
  /\ Collecting("connectivity") /\ steps < N
  /\ \E success \in BOOLEAN :
       facts' = [facts EXCEPT !.tcp = Append(@, [target |-> options.targets[steps + 1],
                                                 success |-> success])]
  /\ Advance
  /\ UNCHANGED codes /\ Unchanged

CheckPingTarget ==
  /\ Collecting("connectivity") /\ options.ping /\ steps \in N..(PingsEnd - 1)
  /\ \E answer \in PingAnswer :
       /\ facts' = [facts EXCEPT !.ping =
                      Append(@, [host |-> options.targets[steps - N + 1].host,
                                 answer |-> answer])]
       /\ codes' = codes \union (IF answer = "ping-command-unavailable"
                                 THEN {"ping-unavailable"} ELSE {})
  /\ Advance
  /\ Unchanged

\* The address of the target is looked up first, in bounded time; without it
\* a hop can only match by the name that was asked for.
CheckTraceTarget ==
  /\ Collecting("connectivity") /\ options.trace /\ steps >= PingsEnd
  /\ \E answer \in TraceAnswer, lookup \in {"address", "none", "timeout"} :
       /\ facts' = [facts EXCEPT !.trace =
                      Append(@, [host |-> options.targets[steps - PingsEnd + 1].host,
                                 answer |-> answer, lookup |-> lookup])]
       /\ codes' = codes
            \union (IF lookup = "timeout" THEN {"trace-target-resolution-timeout"} ELSE {})
            \union (IF answer = "trace-command-unavailable" THEN {"trace-unavailable"} ELSE {})
  /\ Advance
  /\ Unchanged

\* collect_service_state: its own TCP check of every configured target
CheckService ==
  /\ Collecting("services")
  /\ \E success \in BOOLEAN :
       facts' = [facts EXCEPT !.services = Append(@, [target |-> options.targets[steps + 1],
                                                      success |-> success])]
  /\ steps' = steps + 1 /\ DoneIf(steps + 1 = N)
  /\ UNCHANGED codes /\ Unchanged

\* collect_vpn_state reads what the network and routing domains left; the
\* signals do not change its record.
CollectVpnState ==
  /\ Collecting("vpn")
  /\ outcome' = "done"
  /\ UNCHANGED <<steps, facts, codes>> /\ Unchanged

NetworkNext ==
  /\ \/ CollectInterfaces \/ CollectArpNeighbors \/ CollectRouteSummary
     \/ ReadResolvers \/ ResolveHostname
     \/ CheckTcpTarget \/ CheckPingTarget \/ CheckTraceTarget
     \/ CheckService \/ CollectVpnState
  /\ UNCHANGED diskVars
-----------------------------------------------------------------------------
\* The probes of a record, by kind and target

InterfaceCodes == codes \intersect {"interface-command-failed"}

\* _network_execution: each probe sees the warnings of its own command only.
NetworkProbes ==
  <<Probe("interface-inventory", "", StatusFromCollection(facts.interfaces, InterfaceCodes)),
    Probe("arp-neighbor-cache", "", IF "arp-command-failed" \in codes THEN "partial"
                                    ELSE "passed")>>

RouteStatus == StatusFromCollection(facts.routes, codes)

\* _routing_execution
RoutingProbes ==
  <<Probe("route-inventory", "",
          IF "route-data-warning" \in codes /\ RouteStatus = "passed" THEN "partial"
          ELSE RouteStatus)>>

\* _dns_probe: a lookup that timed out is no verdict on the name.
DnsStatus(answer) ==
  CASE answer = "hostname-resolution-timeout" -> "partial"
    [] answer = "resolved" -> "passed"
    [] OTHER -> "failed"

\* _dns_execution
DnsProbes ==
  <<Probe("resolver-inventory", "", IF facts.resolvers THEN "passed" ELSE "partial")>>
    \o [i \in DOMAIN facts.dns |-> Probe("dns", facts.dns[i].target, DnsStatus(facts.dns[i].answer))]

\* _ping_probe
PingStatus(answer) ==
  IF answer = "ping-command-unavailable" THEN "unsupported" ELSE Outcome(answer = "answered")

\* _trace_probe
TraceStatus(answer) ==
  CASE answer = "trace-command-unavailable" -> "unsupported"
    [] answer = "stopped" -> "partial"
    [] OTHER -> Outcome(answer = "reached")

\* Mutant: the results kept in a dictionary by host, where the last one stays.
LastFor(results, host) == results[SelectLastInSeq(results, LAMBDA r : r.host = host)]

\* next(item for item in results if item.target == host): the first one
FirstFor(results, host) == results[SelectInSeq(results, LAMBDA r : r.host = host)]

PingProbe(target) ==
  Probe("ping", target, IF options.ping THEN PingStatus(FirstFor(facts.ping, target.host).answer)
                        ELSE "skipped")

TraceProbe(target) ==
  Probe("trace", target, IF options.trace THEN TraceStatus(FirstFor(facts.trace, target.host).answer)
                         ELSE "skipped")

TcpProbe(check) == Probe("tcp", check.target, Outcome(check.success))

\* _connectivity_execution: the TCP probes, then ping and trace target by target
ConnectivityProbes ==
  [k \in 1..3 * N |->
     LET target == options.targets[(k - N + 1) \div 2]
     IN IF k <= N THEN TcpProbe(facts.tcp[k])
        ELSE IF (k - N) % 2 = 1 THEN PingProbe(target) ELSE TraceProbe(target)]

\* _services_execution
ServiceProbes ==
  [i \in DOMAIN facts.services |->
     Probe("service", facts.services[i].target, Outcome(facts.services[i].success))]

\* _vpn_execution
VpnProbes ==
  <<Probe("vpn-heuristics", "",
          IF options.selected = {"network", "routing"} THEN "passed" ELSE "partial")>>

\* The probes of the domain's execution record
NetworkSideProbes ==
  CASE domain = "network" -> NetworkProbes
    [] domain = "routing" -> RoutingProbes
    [] domain = "dns" -> DnsProbes
    [] domain = "connectivity" -> ConnectivityProbes
    [] domain = "services" -> ServiceProbes
    [] domain = "vpn" -> VpnProbes

\* _connectivity_execution: a trace whose target could not be looked up
NetworkSideStatus ==
  LET status == Aggregate(StatusesOf(NetworkSideProbes)) IN
  IF domain = "connectivity" /\ "trace-target-resolution-timeout" \in codes
       /\ status # "unsupported"
  THEN "partial"
  ELSE status
-----------------------------------------------------------------------------
\* planned_step_labels: what the progress page announces, step by step
\* Mutant: the labels follow the order of the probes in the record.
LabelsTargetByTarget ==
  FlattenSeq([i \in 1..N |->
    <<<<"tcp", options.targets[i].host>>>>
      \o (IF options.ping THEN <<<<"ping", options.targets[i].host>>>> ELSE <<>>)
      \o (IF options.trace THEN <<<<"trace", options.targets[i].host>>>> ELSE <<>>)])

ConnectivityLabels ==
  LET kind(k) == [i \in 1..N |-> <<k, options.targets[i].host>>]
  IN kind("tcp") \o (IF options.ping THEN kind("ping") ELSE <<>>)
                 \o (IF options.trace THEN kind("trace") ELSE <<>>)

NetworkStepLabels ==
  CASE domain = "network" -> <<<<"interfaces", "">>, <<"neighbors", "">>>>
    [] domain = "routing" -> <<<<"routes", "">>>>
    [] domain = "dns" -> <<<<"resolvers", "">>>>
                           \o [i \in DOMAIN options.hosts |-> <<"resolve", options.hosts[i]>>]
    [] domain = "connectivity" -> ConnectivityLabels
    [] domain = "services" -> [i \in 1..N |-> <<"service", options.targets[i].host>>]
    [] domain = "vpn" -> <<<<"vpn", "">>>>

\* next_execution_step_label
NextStepLabel(count) == NetworkStepLabels[count + 1]
-----------------------------------------------------------------------------
\* What collecting a network domain may leave behind
NetworkFactsOK ==
  /\ {facts.interfaces, facts.routes, facts.resolvers} \subseteq BOOLEAN
  /\ facts.dns \in Seq([target : STRING, answer : DnsAnswer])
  /\ facts.tcp \in Seq([target : [host : STRING, port : Nat], success : BOOLEAN])
  /\ facts.ping \in Seq([host : STRING, answer : PingAnswer])
  /\ facts.trace \in Seq([host : STRING, answer : TraceAnswer,
                          lookup : {"address", "none", "timeout"}])
  /\ facts.services \in Seq([target : [host : STRING, port : Nat], success : BOOLEAN])

NetworkCodes ==
  {"unsupported-platform", "interface-command-failed", "arp-command-failed",
   "route-command-failed", "route-data-warning", "hostname-resolution-timeout",
   "resolver-unavailable", "ping-unavailable", "trace-unavailable",
   "trace-target-resolution-timeout"}

\* The place of the first target on the host of the i-th: the record finds the
\* ping and the trace of a target again by its host.
FirstOnHost(i) ==
  CHOOSE j \in 1..N :
    /\ options.targets[j].host = options.targets[i].host
    /\ \A k \in 1..(j - 1) : options.targets[k].host # options.targets[i].host

\* Whether everything the record of the domain looks at worked: of the targets
\* on one host only the first one's ping and trace are looked at.
NetworkWorked ==
  CASE domain = "network" -> facts.interfaces /\ codes = {}
    [] domain = "routing" -> facts.routes /\ codes = {}
    [] domain = "dns" -> facts.resolvers /\ \A i \in DOMAIN facts.dns :
                                              facts.dns[i].answer = "resolved"
    [] domain = "connectivity" ->
         /\ \A i \in DOMAIN facts.tcp : facts.tcp[i].success
         /\ \A i \in DOMAIN facts.ping : facts.ping[FirstOnHost(i)].answer = "answered"
         /\ \A i \in DOMAIN facts.trace : /\ facts.trace[FirstOnHost(i)].answer = "reached"
                                          /\ facts.trace[i].lookup # "timeout"
    [] domain = "services" -> \A i \in DOMAIN facts.services : facts.services[i].success
    [] domain = "vpn" -> options.selected = {"network", "routing"}

\* Whether anything it looks at did
SomeNetworkWorked ==
  CASE domain = "network" -> facts.interfaces \/ "arp-command-failed" \notin codes
    [] domain = "routing" -> facts.routes
    [] domain = "dns" -> facts.resolvers \/ \E i \in DOMAIN facts.dns :
                                              facts.dns[i].answer = "resolved"
    [] domain = "connectivity" ->
         \/ \E i \in DOMAIN facts.tcp : facts.tcp[i].success
         \/ \E i \in DOMAIN facts.ping : facts.ping[FirstOnHost(i)].answer = "answered"
         \/ \E i \in DOMAIN facts.trace :
              facts.trace[FirstOnHost(i)].answer \in {"reached", "stopped"}
    [] domain = "services" -> \E i \in DOMAIN facts.services : facts.services[i].success
    [] domain = "vpn" -> TRUE
=============================================================================

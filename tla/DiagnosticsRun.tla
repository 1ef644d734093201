---------------------------- MODULE DiagnosticsRun ----------------------------
(***************************************************************************)
(* One diagnostics run: the execution plan (domain_registry.py), the loop  *)
(* over it (runner.py) and the mutable run context whose progress          *)
(* callbacks feed the web interface (run_context.py). A collector is its   *)
(* progress callbacks and the facts it sets.                               *)
(***************************************************************************)
EXTENDS Naturals, Sequences, FiniteSetsExt

CONSTANTS MaxTargets, MaxHosts   \* bounds on the configured TCP targets and DNS hosts

ASSUME BoundsAssumption == MaxTargets \in Nat \ {0} /\ MaxHosts \in Nat \ {0}

VARIABLES
  options,     \* DiagnosticsRunOptions
  position,    \* index in REGISTERED_DOMAINS of the domain that runs
  reported,    \* progress callbacks its collector has made
  completed,   \* completed_domains
  steps,       \* completed_steps_by_domain, 0 for a missing key
  network,     \* which parts of context.network hold collected facts
  vpnInput,    \* what collect_vpn_state was given
  emitted,     \* arguments of the last progress callback
  outcome      \* "running", "returned" or "raised"

vars == <<options, position, reported, completed, steps, network, vpnInput, emitted, outcome>>

\* The report order of the domains: execution records and planned counts.
DEFAULT_CHECKS == <<"host", "time", "resources", "storage", "network", "routing", "dns",
                    "connectivity", "vpn", "services">>

\* Mutant: routing runs before network.
RoutingEarly == <<"host", "time", "resources", "storage", "routing", "network", "dns",
                  "connectivity", "services", "vpn">>

\* The execution order of the domains.
REGISTERED_DOMAINS == <<"host", "time", "resources", "storage", "network", "routing", "dns",
                        "connectivity", "services", "vpn">>

Domain == {DEFAULT_CHECKS[i] : i \in DOMAIN DEFAULT_CHECKS}
NoDomain == "none"

\* build_run_options never leaves checks, targets or dns_hosts empty.
Options == [selected: SUBSET Domain \ {{}}, targets: 1..MaxTargets, hosts: 1..MaxHosts,
            ping: BOOLEAN, trace: BOOLEAN, skew: BOOLEAN]

Selected(d) == d = "host" \/ d \in options.selected

Flag(b, n) == IF b THEN n ELSE 0

\* The number of planned_step_labels of a domain
StepCount(d) ==
  CASE d \in {"host", "routing", "vpn"} -> 1
    [] d \in {"storage", "network"}     -> 2
    [] d = "resources"    -> 3
    [] d = "time"         -> 1 + Flag(options.skew, 1)
    [] d = "dns"          -> 1 + options.hosts
    [] d = "services"     -> options.targets
    [] d = "connectivity" ->
         options.targets + Flag(options.ping, options.targets)
                         + Flag(options.trace, options.targets)

\* Mutant: a collector reports one more step than was planned for it.
ReportsOneMore(d) == IF d \in {"host", "routing", "vpn"} THEN 0 ELSE StepCount(d) + 1

\* The number of progress callbacks a collector makes; host, routing and
\* vpn are given none.
Callbacks(d) ==
  CASE d \in {"host", "routing", "vpn"} -> 0
    [] d \in {"storage", "network"}     -> 2
    [] d = "resources"    -> 3
    [] d = "time"         -> IF options.skew THEN 2 ELSE 1
    [] d = "dns"          -> 1 + options.hosts
    [] d = "services"     -> options.targets
    [] d = "connectivity" -> options.targets * (1 + Flag(options.ping, 1) + Flag(options.trace, 1))

\* build_execution_plan: the places of the selected domains in the
\* execution order; the loop over the plan visits them from the least up.
Plan == {i \in DOMAIN REGISTERED_DOMAINS : Selected(REGISTERED_DOMAINS[i])}
PlanEnd == Len(REGISTERED_DOMAINS) + 1

\* sum() over a dictionary that has the ten domains, 0 for a missing key
Sum(f) == f["host"] + f["time"] + f["resources"] + f["storage"] + f["network"] + f["routing"]
            + f["dns"] + f["connectivity"] + f["services"] + f["vpn"]

\* DiagnosticsRunContext.total_steps
TotalSteps ==
  Sum([d \in Domain |-> Flag(\E i \in Plan : REGISTERED_DOMAINS[i] = d, StepCount(d))])

\* planned_execution_step_count, which complete() shows for a finished run:
\* over DEFAULT_CHECKS, zero for a domain not selected
PlannedExecutionStepCount == Sum([d \in Domain |-> Flag(Selected(d), StepCount(d))])

\* The first of some places of the plan
FirstOf(open) == IF open = {} THEN NoDomain ELSE REGISTERED_DOMAINS[Min(open)]

\* Mutant: the domain that just ran is still the next one.
NextIgnoringLast(done) == FirstOf({i \in Plan : REGISTERED_DOMAINS[i] \notin completed})

\* next_selected_domain
NextSelectedDomain(done) == FirstOf({i \in Plan : REGISTERED_DOMAINS[i] \notin done})

\* build_execution_records during a run: the state each domain is shown in
Records(done, active) ==
  [d \in Domain |-> IF d \in done THEN "collected"
                    ELSE IF ~Selected(d) THEN "optional"
                    ELSE IF d = active THEN "running" ELSE "queued"]

\* emit_progress: silent until the host facts are there
EmitProgress(active, done, counts) ==
  emitted' = IF "host" \in done
             THEN [active |-> active, count |-> Sum(counts), steps |-> counts,
                   records |-> Records(done, active)]
             ELSE emitted

NothingEmitted == [active |-> NoDomain, count |-> 0, steps |-> [d \in Domain |-> 0],
                   records |-> [d \in Domain |-> "queued"]]

Nothing == [interfaces |-> FALSE, routes |-> FALSE]

Init ==
  /\ options \in Options
  /\ position = 1
  /\ reported = 0
  /\ completed = {}
  /\ steps = [d \in Domain |-> 0]
  /\ network = Nothing
  /\ vpnInput = Nothing
  /\ emitted = NothingEmitted
  /\ outcome = "running"

Running(d) == outcome = "running" /\ position \in Plan /\ REGISTERED_DOMAINS[position] = d

\* The collector of d calls its progress callback: record_domain_progress.
RecordDomainProgress(d) ==
  /\ Running(d) /\ reported < Callbacks(d)
  /\ reported' = reported + 1
  /\ steps' = [steps EXCEPT ![d] = reported + 1]
  /\ EmitProgress(d, completed, steps')
  /\ UNCHANGED <<options, position, completed, network, vpnInput, outcome>>

\* The facts that _execute_<d> sets. A network state replaces the whole
\* object, the route summary in it included.
SetFacts(d) ==
  /\ network' = CASE d = "network" -> [interfaces |-> TRUE, routes |-> FALSE]
                  [] d = "routing" -> [network EXCEPT !.routes = TRUE]
                  [] OTHER -> network
  /\ vpnInput' = IF d = "vpn" THEN network ELSE vpnInput

\* The collector of d is done: the end of _execute_<d> and complete_domain.
CompleteDomain(d) ==
  /\ Running(d) /\ reported = Callbacks(d)
  /\ SetFacts(d)
  /\ completed' = completed \cup {d}
  /\ steps' = [steps EXCEPT ![d] = StepCount(d)]
  /\ EmitProgress(NextSelectedDomain(completed'), completed', steps')
  /\ position' = Min({i \in Plan : i > position} \cup {PlanEnd})
  /\ reported' = 0
  /\ UNCHANGED <<options, outcome>>

\* An exception in a collector, or in the assembly of the result, ends the run.
Raise ==
  /\ outcome = "running"
  /\ outcome' = "raised"
  /\ UNCHANGED <<options, position, reported, completed, steps, network, vpnInput, emitted>>

\* The plan is executed: run_diagnostics assembles and returns the result.
Return ==
  /\ outcome = "running" /\ position = PlanEnd
  /\ outcome' = "returned"
  /\ UNCHANGED <<options, position, reported, completed, steps, network, vpnInput, emitted>>

Next ==
  \/ \E d \in Domain : RecordDomainProgress(d) \/ CompleteDomain(d)
  \/ Raise \/ Return

Spec == Init /\ [][Next]_vars

\* _vpn_execution: "passed" claims that the heuristics had both inputs.
VpnStatus == IF {"network", "routing"} \subseteq options.selected THEN "passed" ELSE "partial"
-----------------------------------------------------------------------------
(* Properties.                                                             *)

TypeOK ==
  /\ options \in Options
  /\ position \in Plan \cup {PlanEnd}
  /\ reported \in 0..(IF position = PlanEnd THEN 0 ELSE StepCount(REGISTERED_DOMAINS[position]))
  /\ completed \subseteq Domain
  /\ steps \in [Domain -> Nat]
  /\ network \in [interfaces: BOOLEAN, routes: BOOLEAN]
  /\ vpnInput \in [interfaces: BOOLEAN, routes: BOOLEAN]
  /\ emitted.active \in Domain \cup {NoDomain}
  /\ outcome \in {"running", "returned", "raised"}

\* A progress report never claims more steps than the total it comes with,
\* for no domain more than planned, and the last one of a run that returns
\* says that everything is done, with the count that complete() will show:
\* three modules count the steps separately.
ReportsWithinPlan ==
  /\ emitted.count <= TotalSteps
  /\ \A d \in Domain : emitted.steps[d] <= StepCount(d)
  /\ outcome = "returned" =>
       /\ emitted.active = NoDomain
       /\ emitted.count = PlannedExecutionStepCount
       /\ \A d \in Domain : emitted.records[d] = IF Selected(d) THEN "collected" ELSE "optional"

\* The counts of successive reports never go down: what RunSessions assumes
\* of an executor.
CountNeverDecreases == [][emitted'.count >= emitted.count]_vars

\* The active domain of a report is the first unfinished one of the plan,
\* whether the report came from inside a domain or from its end, and it is
\* the only one whose record is shown as running: context and records agree.
ActiveIsFirstOpen ==
  /\ "host" \in completed => emitted.active = NextSelectedDomain(completed)
  /\ \A d \in Domain : emitted.records[d] = "running" <=> emitted.active = d

\* The facts of one domain survive the domains that come after it: the route
\* summary is still in the network facts when a run returns, and the VPN
\* record is "passed" only when the heuristics really saw collected
\* interfaces and routes.
FactsSurvive ==
  outcome = "returned" =>
    /\ "network" \in options.selected => network.interfaces
    /\ "routing" \in options.selected => network.routes
    /\ "vpn" \in options.selected =>
         (VpnStatus = "passed" <=> vpnInput.interfaces /\ vpnInput.routes)
=============================================================================

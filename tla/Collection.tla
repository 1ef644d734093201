------------------------------ MODULE Collection ------------------------------
(***************************************************************************)
(* Any collector of a run, from its first step to the record the result    *)
(* shows for its domain, and what that record may claim.                   *)
(***************************************************************************)
EXTENDS NetworkDomains, LocalDomains

Ended == outcome # "running" /\ UNCHANGED vars

Next == NetworkNext \/ LocalNext \/ Ended

Spec == Init /\ [][Next]_vars

\* build_execution_records: the probes and the status of the domain
Probes == IF domain \in NetworkDomain THEN NetworkSideProbes ELSE LocalProbes

RecordStatus == IF domain \in NetworkDomain THEN NetworkSideStatus ELSE LocalStatus
-----------------------------------------------------------------------------
TypeOK ==
  /\ domain \in NetworkDomain \union LocalDomain
  /\ platform \in Platform /\ options \in Options
  /\ steps \in Nat /\ outcome \in {"running", "done", "raised"}
  /\ NetworkFactsOK /\ LocalFactsOK
  /\ codes \subseteq IF domain \in NetworkDomain THEN NetworkCodes ELSE LocalCodes

\* A domain the result shows as passed had no check that failed, stopped on
\* the way or was answered only in part, and no volume, total or user it could
\* not read, but for two answers that its record never looks at: the ping and
\* the trace of a target whose host an earlier target has (execution.py:550),
\* and vm_stat on macOS (collectors/system.py:230). These two may be lost
\* under "passed", against result-schema.md:80 and platform-notes.md:6; every
\* other one lowers the status. (_aggregate_probe_statuses, the record builders)
PassedMeansEveryReadAnswerWorked ==
  Done /\ RecordStatus = "passed" =>
    IF domain \in NetworkDomain THEN NetworkWorked ELSE LocalWorked

\* A domain shown as failed has nothing to show: one measured volume, one
\* name that was resolved make it partial. A second ping or trace of a host is
\* not looked at here either. (result-schema.md: "mixed, degraded, or
\* incomplete coverage")
FailedMeansNothingWorked ==
  Done /\ RecordStatus = "failed" =>
    ~(IF domain \in NetworkDomain THEN SomeNetworkWorked ELSE SomeLocalWorked)

\* The probes of a kind are one for each target, in the order of the targets,
\* with these statuses; at[i] is the place of the i-th one in the record.
Shown(kind, statuses) ==
  \E at \in [1..N -> DOMAIN Probes] :
    /\ \A i, j \in 1..N : i < j => at[i] < at[j]
    /\ {at[i] : i \in 1..N} = {p \in DOMAIN Probes : Probes[p].kind = kind}
    /\ \A i \in 1..N : Probes[at[i]] = Probe(kind, options.targets[i], statuses[i])

\* The record has a TCP probe, a ping and a trace for every target, in the
\* order of the targets, and no other: the TCP probe has the answer of its own
\* check, the ping and the trace those of the first target on the same host.
\* Where hosts repeat, the later answers are shown nowhere.
EveryCheckIsShown ==
  Done /\ domain = "connectivity" =>
    /\ Shown("tcp", [i \in 1..N |-> Outcome(facts.tcp[i].success)])
    /\ options.ping =>
         Shown("ping", [i \in 1..N |-> PingStatus(facts.ping[FirstOnHost(i)].answer)])
    /\ options.trace =>
         Shown("trace", [i \in 1..N |-> TraceStatus(facts.trace[FirstOnHost(i)].answer)])

\* The label the page shows as the next step names the check that runs next:
\* the planned labels and the loops of the collectors agree on the order.
NextLabelIsTheNextCheck ==
  outcome = "running" =>
    CASE domain = "dns" /\ steps > 0 -> NextStepLabel(steps) = <<"resolve", options.hosts[steps]>>
      [] domain = "connectivity" /\ steps < N ->
           NextStepLabel(steps) = <<"tcp", options.targets[steps + 1].host>>
      [] domain = "connectivity" /\ steps \in N..(PingsEnd - 1) ->
           NextStepLabel(steps) = <<"ping", options.targets[steps - N + 1].host>>
      [] domain = "connectivity" /\ steps >= PingsEnd ->
           NextStepLabel(steps) = <<"trace", options.targets[steps - PingsEnd + 1].host>>
      [] domain = "services" ->
           NextStepLabel(steps) = <<"service", options.targets[steps + 1].host>>
      [] OTHER -> TRUE

Reported == Incidents(facts.disks)

\* Every measured, actionable volume under pressure is part of exactly one
\* incident, and the incident has its level: the representative of a pool
\* speaks for all its volumes, whatever happened between two measurements.
\* (storage_policy.py: distinct_capacity_groups, capacity_group_representative)
EveryPressureIsReported ==
  Done => \A i \in DOMAIN facts.disks :
    LET d == facts.disks[i] IN
    Actionable(d) /\ d.level \in {"critical", "low"} =>
      /\ Cardinality({n \in Reported : d.path \in n.paths}) = 1
      /\ \A n \in Reported : d.path \in n.paths => n.level = d.level

\* While nothing else uses the disks, the primary volumes of one container
\* that were both measured make one incident at most.
\* (finding-rules.md: "Shared-capacity APFS mounts are deduplicated")
OneIncidentWhenQuiet ==
  Done /\ activity = 0 =>
    Cardinality({n \in Reported : n.paths \intersect PrimaryMacPaths # {}}) <= 1

\* Less free space never lowers the level of a volume.
\* (finding-rules.md: "low free percentage as the main danger signal")
LessFreeIsNotBetter ==
  \A i \in DOMAIN facts.disks : \A f \in Frees :
    LET d == facts.disks[i] IN
    f <= d.free => Severity(Level(d.total, f, d.role)) >= Severity(d.level)
=============================================================================

--------------------------- MODULE ExecutionRecords ---------------------------
(***************************************************************************)
(* How the outcomes of a domain's probes become its status in the result   *)
(* (execution.py). The domain modules NetworkDomains and LocalDomains      *)
(* build their records from these operators.                               *)
(***************************************************************************)
EXTENDS Naturals, Sequences

ExecutionStatus == {"passed", "failed", "partial", "unsupported", "skipped", "not_run"}

\* The statuses that count: a skipped or unselected probe says nothing.
Ran(statuses) == statuses \ {"skipped", "not_run"}

\* Mutant: any probe that worked makes the domain pass.
AggregateAnyPassed(statuses) ==
  CASE Ran(statuses) = {} -> "skipped"
    [] "passed" \in Ran(statuses) -> "passed"
    [] \E s \in {"failed", "unsupported"} : Ran(statuses) = {s} -> CHOOSE s \in Ran(statuses) : TRUE
    [] OTHER -> "partial"

\* Mutant: one probe that failed makes the domain fail.
AggregateAnyFailed(statuses) ==
  CASE Ran(statuses) = {} -> "skipped"
    [] "failed" \in Ran(statuses) -> "failed"
    [] \E s \in {"passed", "unsupported"} : Ran(statuses) = {s} -> CHOOSE s \in Ran(statuses) : TRUE
    [] OTHER -> "partial"

\* _aggregate_probe_statuses: unanimous outcomes stand, a mixture is partial
Aggregate(statuses) ==
  CASE Ran(statuses) = {} -> "skipped"
    [] Ran(statuses) = {"passed"} -> "passed"
    [] Ran(statuses) = {"failed"} -> "failed"
    [] Ran(statuses) = {"unsupported"} -> "unsupported"
    [] OTHER -> "partial"

\* _status_from_collection, for unsupported_codes = {"unsupported-platform"}
StatusFromCollection(hasData, codes) ==
  CASE codes = {} -> IF hasData THEN "passed" ELSE "failed"
    [] codes # {} /\ hasData -> "partial"
    [] codes # {} /\ ~hasData ->
         IF "unsupported-platform" \in codes THEN "unsupported" ELSE "failed"

\* The status of a check that either worked or did not
Outcome(success) == IF success THEN "passed" ELSE "failed"

StatusesOf(probes) == {probes[i].status : i \in DOMAIN probes}

Probe(kind, target, status) == [kind |-> kind, target |-> target, status |-> status]
=============================================================================

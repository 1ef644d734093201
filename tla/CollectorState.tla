---------------------------- MODULE CollectorState ----------------------------
(***************************************************************************)
(* The state of one collector of a run: the step it has reached, what it    *)
(* has gathered and which warnings it raised. NetworkDomains and           *)
(* LocalDomains give the steps, Collection puts them together. The output  *)
(* of a command is the facts its parser returns.                           *)
(***************************************************************************)
EXTENDS ExecutionRecords, FiniteSets

CONSTANTS
  TargetLists,   \* configurations of TCP targets: sequences of [host, port]
  HostLists,     \* configurations of DNS host names: sequences
  Containers     \* capacity pools behind the mount points

ASSUME TargetListsAssumption ==
  \A list \in TargetLists : list \in Seq([host : STRING, port : Nat]) /\ list # <<>>
ASSUME HostListsAssumption == \A list \in HostLists : list \in Seq(STRING) /\ list # <<>>

VARIABLES
  domain,     \* the domain this behaviour collects
  platform,   \* current_platform()
  options,    \* DiagnosticsRunOptions, as far as the collectors read them
  steps,      \* collection steps taken
  outcome,    \* "running", "done" or "raised"
  facts,      \* what was collected
  codes,      \* codes of the warnings
  pending,    \* mount points still to be measured
  capacity,   \* size of each container
  free,       \* its free space
  activity    \* times other programs have written or deleted

diskVars == <<pending, capacity, free, activity>>
vars == <<domain, platform, options, steps, outcome, facts, codes, diskVars>>

NetworkDomain == {"network", "routing", "dns", "connectivity", "services", "vpn"}
LocalDomain   == {"host", "resources", "time", "storage"}

Platform      == {"linux", "macos", "windows", "other"}
KnownPlatform == Platform \ {"other"}
known         == platform \in KnownPlatform

Options ==
  [targets : TargetLists, hosts : HostLists, ping : BOOLEAN, trace : BOOLEAN,
   skew : BOOLEAN, selected : SUBSET {"network", "routing"}]

\* The parts of CollectedFacts before anything is collected
NoFacts ==
  [interfaces |-> FALSE, routes |-> FALSE, resolvers |-> FALSE,
   dns |-> <<>>, tcp |-> <<>>, ping |-> <<>>, trace |-> <<>>, services |-> <<>>,
   cpus |-> FALSE, load |-> FALSE, total |-> FALSE, available |-> FALSE,
   battery |-> "unread", snapshot |-> FALSE, skew |-> "not_run",
   mounted |-> <<>>, disks |-> <<>>, devices |-> "none"]

\* The options are free where the collector of the domain reads them.
Init ==
  /\ domain \in NetworkDomain \union LocalDomain
  /\ platform \in Platform
  /\ options \in Options
  /\ options.ping \/ options.trace => domain = "connectivity"
  /\ options.skew => domain = "time"
  /\ options.selected # {} => domain = "vpn"
  /\ steps = 0
  /\ outcome = "running"
  /\ facts = NoFacts
  /\ codes = {}
  /\ pending = <<>>
  /\ capacity = [c \in Containers |-> 0]
  /\ free = [c \in Containers |-> 0]
  /\ activity = 0

Done == outcome = "done"

Collecting(d) == domain = d /\ outcome = "running"

DoneIf(condition) == outcome' = IF condition THEN "done" ELSE "running"

Code(condition, code) == IF condition THEN {code} ELSE {}

Unchanged == UNCHANGED <<domain, platform, options>>
=============================================================================

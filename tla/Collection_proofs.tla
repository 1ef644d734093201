--------------------------- MODULE Collection_proofs ---------------------------
(***************************************************************************)
(* What the record of a domain promises for every configuration of targets *)
(* and names, every layout of mount points and whatever the commands and   *)
(* system calls of a collector answer.                                     *)
(***************************************************************************)
EXTENDS Collection, StoragePolicy_proofs, SequenceTheorems, WellFoundedInduction, TLAPS

-----------------------------------------------------------------------------
(* The inductive invariant.                                                 *)

\* A record with the parts of CollectedFacts
HasParts(f) ==
  f = [interfaces |-> f.interfaces, routes |-> f.routes, resolvers |-> f.resolvers,
       dns |-> f.dns, tcp |-> f.tcp, ping |-> f.ping, trace |-> f.trace,
       services |-> f.services, cpus |-> f.cpus, load |-> f.load, total |-> f.total,
       available |-> f.available, battery |-> f.battery, snapshot |-> f.snapshot,
       skew |-> f.skew, mounted |-> f.mounted, disks |-> f.disks, devices |-> f.devices]

\* The volumes a platform can report: their role and level are those that the
\* policy gives them.
Disk(p) ==
  {d \in [path : MountsOf(p), role : Roles, total : Nat, free : Nat, level : Levels] :
     /\ d.free <= d.total /\ d.role = Role(p, d.path)
     /\ d.level = Level(d.total, d.free, d.role)}

LocalParts(f) ==
  /\ {f.cpus, f.load, f.total, f.available, f.snapshot} \subseteq BOOLEAN
  /\ f.battery \in Battery /\ f.skew \in Skew /\ f.devices \in Devices
  /\ f.disks \in Seq(Disk(platform))
  /\ f.mounted \in Seq(MountsOf(platform))

TypeInv ==
  /\ domain \in NetworkDomain \union LocalDomain
  /\ platform \in Platform /\ options \in Options
  /\ steps \in Nat /\ outcome \in {"running", "done", "raised"}
  /\ HasParts(facts) /\ NetworkFactsOK /\ LocalParts(facts)
  /\ codes \subseteq IF domain \in NetworkDomain THEN NetworkCodes ELSE LocalCodes

\* Without data no warning of the platform; only its own warnings.
NetworkInv ==
  /\ codes \subseteq {"unsupported-platform", "interface-command-failed", "arp-command-failed"}
  /\ "unsupported-platform" \in codes => ~facts.interfaces

\* A name is looked up in every step but the first.
DnsInv ==
  /\ outcome = "running" => steps <= Len(options.hosts)
  /\ outcome # "raised"

\* How many of the N checks that begin at a step have been made
Taken(first) ==
  IF steps <= first THEN 0 ELSE IF steps - first < N THEN steps - first ELSE N

ConnectivityInv ==
  /\ outcome = "running" => steps < ConnectivitySteps
  /\ outcome # "running" => steps = ConnectivitySteps
  /\ Len(facts.tcp) = Taken(0)
  /\ \A i \in 1..Len(facts.tcp) : facts.tcp[i].target = options.targets[i]
  /\ Len(facts.ping) = IF options.ping THEN Taken(N) ELSE 0
  /\ \A i \in 1..Len(facts.ping) : facts.ping[i].host = options.targets[i].host
  /\ Len(facts.trace) = IF options.trace THEN Taken(PingsEnd) ELSE 0
  /\ \A i \in 1..Len(facts.trace) :
       /\ facts.trace[i].host = options.targets[i].host
       /\ facts.trace[i].lookup = "timeout" => "trace-target-resolution-timeout" \in codes

ServicesInv ==
  /\ outcome = "running" => steps < N
  /\ outcome # "running" => steps = N
  /\ Len(facts.services) = steps
  /\ \A i \in 1..Len(facts.services) : facts.services[i].target = options.targets[i]

\* What could not be read was warned about.
ResourcesInv ==
  /\ steps <= 3 /\ (outcome = "running" => steps < 3) /\ (outcome # "running" => steps = 3)
  /\ steps >= 1 => \/ facts.load \/ platform = "windows"
                   \/ codes \intersect {"load-average-unavailable", "load-average-unsupported"} # {}
  /\ steps >= 2 =>
       /\ platform = "other" => "memory-unsupported" \in codes
       /\ (platform # "other" /\ ~facts.total) => "memory-unavailable" \in codes
       /\ platform \in {"linux", "windows"} => facts.available = facts.total
       /\ (platform # "other" /\ facts.battery = "unread") => "battery-unavailable" \in codes
  /\ (steps = 3 /\ platform # "other" /\ ~facts.snapshot)
       => "process-snapshot-unavailable" \in codes

UniquePaths(disks) == \A i, j \in DOMAIN disks : disks[i].path = disks[j].path => i = j

\* The mount points still to be measured are others than those of the volumes;
\* each was measured, dropped with a warning, or is still to come.
StorageInv ==
  /\ pending \in Seq(MountsOf(platform))
  /\ \A i, j \in DOMAIN pending : pending[i] = pending[j] => i = j
  /\ UniquePaths(facts.disks)
  /\ \A i \in DOMAIN pending, j \in DOMAIN facts.disks : facts.disks[j].path # pending[i]
  /\ "disk-usage-failed" \notin codes => Len(facts.disks) + Len(pending) = Len(facts.mounted)
  /\ capacity \in [Containers -> Nat] /\ free \in [Containers -> Nat]
  /\ \A c \in Containers : free[c] <= capacity[c]
  /\ activity \in Nat
  /\ activity = 0 => \A i \in DOMAIN facts.disks :
       LET d == facts.disks[i] IN
       d.total = capacity[ContainerOf[d.path]] /\ d.free = free[ContainerOf[d.path]]
  /\ outcome = "done" =>
       /\ pending = <<>>
       /\ platform = "linux" => facts.devices = "none"
       /\ (facts.devices = "unread" /\ platform \in {"macos", "windows"})
            => "storage-health-unavailable" \in codes
  /\ steps = 0 => facts.disks = <<>> /\ activity = 0

CollectionInv ==
  /\ TypeInv
  /\ domain = "network" => NetworkInv
  /\ domain = "dns" => DnsInv
  /\ domain = "connectivity" => ConnectivityInv
  /\ domain = "services" => ServicesInv
  /\ domain = "resources" => ResourcesInv
  /\ domain = "storage" => StorageInv
  /\ domain # "storage" => facts.disks = <<>>

\* The configurations: the lists are never empty.
LEMMA TargetsAre ==
  ASSUME options \in Options
  PROVE  /\ options.targets \in Seq([host : STRING, port : Nat])
         /\ N \in Nat /\ N >= 1 /\ DOMAIN options.targets = 1..N
         /\ \A i \in 1..N : /\ options.targets[i] \in [host : STRING, port : Nat]
                            /\ options.targets[i].host \in STRING
<1>1. options.targets \in TargetLists
  BY DEF Options
<1>2. options.targets \in Seq([host : STRING, port : Nat]) /\ options.targets # <<>>
  BY <1>1, TargetListsAssumption
<1>3. N \in Nat \ {0} /\ DOMAIN options.targets = 1..N
  BY <1>2, EmptySeq, LenProperties DEF N
<1>4. \A i \in 1..N : options.targets[i] \in [host : STRING, port : Nat]
  BY <1>2, ElementOfSeq DEF N
<1> QED
  BY <1>2, <1>3, <1>4

LEMMA HostsAre ==
  ASSUME options \in Options
  PROVE  /\ Len(options.hosts) \in Nat /\ Len(options.hosts) >= 1
         /\ DOMAIN options.hosts = 1..Len(options.hosts)
         /\ \A i \in 1..Len(options.hosts) : options.hosts[i] \in STRING
<1>1. options.hosts \in HostLists
  BY DEF Options
<1>2. options.hosts \in Seq(STRING) /\ options.hosts # <<>>
  BY <1>1, HostListsAssumption
<1> QED
  BY <1>2, EmptySeq, LenProperties, ElementOfSeq

LEMMA ConnectivityStepsAre ==
  ASSUME options \in Options
  PROVE  /\ PingsEnd = IF options.ping THEN N + N ELSE N
         /\ ConnectivitySteps = IF options.trace THEN PingsEnd + N ELSE PingsEnd
         /\ PingsEnd \in Nat /\ ConnectivitySteps \in Nat
         /\ N <= PingsEnd /\ PingsEnd <= ConnectivitySteps
BY TargetsAre DEF PingsEnd, ConnectivitySteps, Flag

LEMMA InitCollection ==
  ASSUME Init
  PROVE  CollectionInv
<1>1. /\ domain \in NetworkDomain \union LocalDomain /\ platform \in Platform
      /\ options \in Options /\ steps = 0 /\ outcome = "running" /\ facts = NoFacts /\ codes = {}
      /\ pending = <<>> /\ activity = 0
      /\ capacity = [c \in Containers |-> 0] /\ free = [c \in Containers |-> 0]
  BY DEF Init
<1>2. HasParts(facts) /\ facts.disks = <<>> /\ facts.mounted = <<>> /\ facts.dns = <<>>
      /\ facts.tcp = <<>> /\ facts.ping = <<>> /\ facts.trace = <<>> /\ facts.services = <<>>
  BY <1>1 DEF NoFacts, HasParts
<1>3. NetworkFactsOK
  BY <1>1, EmptySeq DEF NoFacts, NetworkFactsOK
<1>4. LocalParts(facts)
  BY <1>1, EmptySeq DEF NoFacts, LocalParts, Battery, Skew, Devices
<1>5. TypeInv
  BY <1>1, <1>2, <1>3, <1>4 DEF TypeInv
<1>6. NetworkInv /\ DnsInv /\ ServicesInv /\ ResourcesInv
  BY <1>1, <1>2, TargetsAre, HostsAre DEF NetworkInv, DnsInv, ServicesInv, ResourcesInv
<1>7. ConnectivityInv
  BY <1>1, <1>2, TargetsAre, ConnectivityStepsAre DEF ConnectivityInv, Taken
<1>8. StorageInv
  <2>1. \A S : <<>> \in Seq(S) /\ Len(<<>>) = 0
    BY EmptySeq
  <2> QED
    BY <1>1, <1>2, <2>1 DEF StorageInv, UniquePaths
<1> QED
  BY <1>2, <1>5, <1>6, <1>7, <1>8 DEF CollectionInv
-----------------------------------------------------------------------------
(* The steps of the network domains.                                        *)

\* The parts of the facts that a step of the network side leaves alone
LocalFacts(f) ==
  <<f.cpus, f.load, f.total, f.available, f.battery, f.snapshot, f.skew, f.mounted, f.disks,
    f.devices>>

\* Only the invariant of the own domain can be disturbed.
LEMMA OwnDomainSuffices ==
  ASSUME CollectionInv, TypeInv', domain' = domain,
         domain = "network" => NetworkInv',
         domain = "dns" => DnsInv',
         domain = "connectivity" => ConnectivityInv',
         domain = "services" => ServicesInv',
         domain = "resources" => ResourcesInv',
         domain = "storage" => StorageInv',
         domain # "storage" => facts'.disks = facts.disks
  PROVE  CollectionInv'
BY DEF CollectionInv

LEMMA NetworkStepTypes ==
  ASSUME TypeInv, domain \in NetworkDomain, Unchanged, steps' \in Nat,
         outcome' \in {"running", "done", "raised"}, codes' \subseteq NetworkCodes,
         HasParts(facts'), NetworkFactsOK', LocalFacts(facts') = LocalFacts(facts)
  PROVE  TypeInv'
<1>1. LocalParts(facts)'
  BY DEF TypeInv, LocalParts, LocalFacts, Unchanged
<1> QED
  BY <1>1 DEF TypeInv, Unchanged

LEMMA InterfacesKeep ==
  ASSUME CollectionInv, CollectInterfaces
  PROVE  CollectionInv'
<1>1. /\ domain = "network" /\ TypeInv /\ Unchanged /\ domain' = domain
      /\ steps' = 1 /\ outcome' = outcome
  BY DEF CollectionInv, CollectInterfaces, Collecting, Unchanged
<1>2. PICK first \in CommandResult, second \in CommandResult :
        /\ facts' = [facts EXCEPT !.interfaces = known /\ WithFallback(first, second).data]
        /\ codes' = CommandCodes(WithFallback(first, second), "interface-command-failed")
  BY DEF CollectInterfaces
<1> DEFINE result == WithFallback(first, second)
           seen   == known /\ result.data
<1>3. /\ HasParts(facts') /\ LocalFacts(facts') = LocalFacts(facts)
      /\ facts'.interfaces = seen /\ facts'.routes = facts.routes
      /\ facts'.resolvers = facts.resolvers /\ facts'.dns = facts.dns /\ facts'.tcp = facts.tcp
      /\ facts'.ping = facts.ping /\ facts'.trace = facts.trace
      /\ facts'.services = facts.services
  BY <1>1, <1>2 DEF TypeInv, HasParts, LocalFacts
<1>4. seen \in BOOLEAN
  OBVIOUS
<1>5. NetworkFactsOK'
  BY <1>1, <1>3, <1>4 DEF TypeInv, NetworkFactsOK
<1>6. codes' \subseteq {"unsupported-platform", "interface-command-failed"}
      /\ ("unsupported-platform" \in codes' => ~known)
  BY <1>2 DEF CommandCodes
<1>7. TypeInv'
  BY <1>1, <1>3, <1>5, <1>6, NetworkStepTypes DEF TypeInv, NetworkCodes, NetworkDomain
<1>8. NetworkInv'
  BY <1>3, <1>6 DEF NetworkInv
<1> QED
  BY <1>1, <1>3, <1>7, <1>8, OwnDomainSuffices DEF LocalFacts

LEMMA ArpNeighborsKeep ==
  ASSUME CollectionInv, CollectArpNeighbors
  PROVE  CollectionInv'
<1>1. /\ domain = "network" /\ TypeInv /\ NetworkInv /\ Unchanged /\ domain' = domain
      /\ steps' = 2 /\ outcome' = "done" /\ facts' = facts
  BY DEF CollectionInv, CollectArpNeighbors, Collecting, Unchanged
<1>2. PICK first \in CommandResult, second \in CommandResult :
        codes' = codes \union (IF known THEN CommandCodes(WithFallback(first, second),
                                                         "arp-command-failed") ELSE {})
  BY DEF CollectArpNeighbors
<1>3. codes' \subseteq codes \union {"arp-command-failed"}
  BY <1>2 DEF CommandCodes
<1>4. NetworkInv'
  BY <1>1, <1>3 DEF NetworkInv
<1>5. NetworkFactsOK'
  BY <1>1 DEF TypeInv, NetworkFactsOK
<1>6. TypeInv'
  BY <1>1, <1>3, <1>5, NetworkStepTypes DEF TypeInv, NetworkCodes, NetworkDomain
<1> QED
  BY <1>1, <1>4, <1>6, OwnDomainSuffices

LEMMA RouteSummaryKeeps ==
  ASSUME CollectionInv, CollectRouteSummary
  PROVE  CollectionInv'
<1>1. /\ domain = "routing" /\ TypeInv /\ Unchanged /\ domain' = domain
      /\ steps' = steps /\ outcome' = "done"
  BY DEF CollectionInv, CollectRouteSummary, Collecting, Unchanged
<1>2. PICK first \in CommandResult, second \in CommandResult, malformed \in BOOLEAN :
        /\ facts' = [facts EXCEPT !.routes = known /\ WithFallback(first, second).data]
        /\ codes' = CommandCodes(WithFallback(first, second), "route-command-failed")
                      \union (IF malformed THEN {"route-data-warning"} ELSE {})
  BY DEF CollectRouteSummary
<1> DEFINE result == WithFallback(first, second)
           seen   == known /\ result.data
<1>3. /\ HasParts(facts') /\ LocalFacts(facts') = LocalFacts(facts)
      /\ facts'.interfaces = facts.interfaces /\ facts'.routes = seen
      /\ facts'.resolvers = facts.resolvers /\ facts'.dns = facts.dns /\ facts'.tcp = facts.tcp
      /\ facts'.ping = facts.ping /\ facts'.trace = facts.trace
      /\ facts'.services = facts.services
  BY <1>1, <1>2 DEF TypeInv, HasParts, LocalFacts
<1>4. seen \in BOOLEAN
  OBVIOUS
<1>5. NetworkFactsOK'
  BY <1>1, <1>3, <1>4 DEF TypeInv, NetworkFactsOK
<1>6. codes' \subseteq {"unsupported-platform", "route-command-failed", "route-data-warning"}
  BY <1>2 DEF CommandCodes
<1>7. TypeInv'
  BY <1>1, <1>3, <1>5, <1>6, NetworkStepTypes DEF TypeInv, NetworkCodes, NetworkDomain
<1> QED
  BY <1>1, <1>3, <1>7, OwnDomainSuffices DEF LocalFacts

LEMMA ResolversKeep ==
  ASSUME CollectionInv, ReadResolvers
  PROVE  CollectionInv'
<1>1. /\ domain = "dns" /\ TypeInv /\ Unchanged /\ domain' = domain /\ options' = options
      /\ steps' = 1 /\ outcome' = outcome /\ outcome = "running" /\ codes' = codes
  BY DEF CollectionInv, ReadResolvers, Collecting, Unchanged
<1>2. PICK found \in BOOLEAN : facts' = [facts EXCEPT !.resolvers = known /\ found]
  BY DEF ReadResolvers
<1> DEFINE seen == known /\ found
<1>3. /\ HasParts(facts') /\ LocalFacts(facts') = LocalFacts(facts)
      /\ facts'.interfaces = facts.interfaces /\ facts'.routes = facts.routes
      /\ facts'.resolvers = seen /\ facts'.dns = facts.dns /\ facts'.tcp = facts.tcp
      /\ facts'.ping = facts.ping /\ facts'.trace = facts.trace
      /\ facts'.services = facts.services
  BY <1>1, <1>2 DEF TypeInv, HasParts, LocalFacts
<1>4. seen \in BOOLEAN
  OBVIOUS
<1>5. NetworkFactsOK'
  BY <1>1, <1>3, <1>4 DEF TypeInv, NetworkFactsOK
<1>7. TypeInv'
  BY <1>1, <1>3, <1>5, NetworkStepTypes DEF TypeInv, NetworkDomain
<1>8. DnsInv'
  BY <1>1, HostsAre DEF DnsInv, TypeInv
<1> QED
  BY <1>1, <1>3, <1>7, <1>8, OwnDomainSuffices DEF LocalFacts

LEMMA ResolveHostnameKeeps ==
  ASSUME CollectionInv, ResolveHostname
  PROVE  CollectionInv'
<1>1. /\ domain = "dns" /\ TypeInv /\ Unchanged /\ domain' = domain /\ options' = options
      /\ steps \in 1..Len(options.hosts) /\ steps' = steps + 1
      /\ outcome' = IF steps = Len(options.hosts) THEN "done" ELSE "running"
  BY DEF CollectionInv, ResolveHostname, Collecting, Unchanged, DoneIf
<1>2. PICK answer \in DnsAnswer :
        /\ facts' = [facts EXCEPT !.dns = Append(@, [target |-> options.hosts[steps],
                                                     answer |-> answer])]
        /\ codes' = codes \union ({answer} \intersect {"hostname-resolution-timeout"})
                      \union (IF steps = Len(options.hosts) /\ ~facts.resolvers
                              THEN {"resolver-unavailable"} ELSE {})
  BY DEF ResolveHostname
<1>3. /\ HasParts(facts') /\ LocalFacts(facts') = LocalFacts(facts)
      /\ facts'.interfaces = facts.interfaces /\ facts'.routes = facts.routes
      /\ facts'.resolvers = facts.resolvers /\ facts'.tcp = facts.tcp
      /\ facts'.dns = Append(facts.dns, [target |-> options.hosts[steps], answer |-> answer])
      /\ facts'.ping = facts.ping /\ facts'.trace = facts.trace
      /\ facts'.services = facts.services
  BY <1>1, <1>2 DEF TypeInv, HasParts, LocalFacts
<1>4. [target |-> options.hosts[steps], answer |-> answer] \in [target : STRING, answer : DnsAnswer]
  BY <1>1, HostsAre DEF TypeInv
<1>5. NetworkFactsOK'
  BY <1>1, <1>3, <1>4 DEF TypeInv, NetworkFactsOK
<1>6. codes' \subseteq NetworkCodes
  BY <1>1, <1>2 DEF TypeInv, NetworkCodes, NetworkDomain
<1>7. TypeInv'
  BY <1>1, <1>3, <1>5, <1>6, NetworkStepTypes DEF TypeInv, NetworkDomain
<1>8. DnsInv'
  BY <1>1, HostsAre DEF DnsInv, TypeInv
<1> QED
  BY <1>1, <1>3, <1>7, <1>8, OwnDomainSuffices DEF LocalFacts

\* The plan of the checks does not change while they run.
LEMMA PlanIsFixed ==
  ASSUME options' = options
  PROVE  /\ N' = N /\ PingsEnd' = PingsEnd /\ ConnectivitySteps' = ConnectivitySteps
BY DEF N, PingsEnd, ConnectivitySteps, Flag

\* What a check adds to the list of its kind
LEMMA OneMore ==
  ASSUME NEW S, NEW list \in Seq(S), NEW x \in S
  PROVE  /\ Append(list, x) \in Seq(S)
         /\ Len(Append(list, x)) = Len(list) + 1
         /\ \A i \in 1..Len(list) : Append(list, x)[i] = list[i]
         /\ Append(list, x)[Len(list) + 1] = x
OBVIOUS

TcpCheck   == [target : [host : STRING, port : Nat], success : BOOLEAN]
PingCheck  == [host : STRING, answer : PingAnswer]
TraceCheck == [host : STRING, answer : TraceAnswer, lookup : {"address", "none", "timeout"}]

LEMMA TcpCheckKeeps ==
  ASSUME CollectionInv, CheckTcpTarget
  PROVE  CollectionInv'
<1>1. /\ domain = "connectivity" /\ TypeInv /\ ConnectivityInv /\ Unchanged
      /\ domain' = domain /\ options' = options /\ options \in Options /\ steps \in Nat
      /\ steps < N /\ steps' = steps + 1 /\ codes' = codes
      /\ outcome' = IF steps + 1 = ConnectivitySteps THEN "done" ELSE "running"
  BY DEF CollectionInv, CheckTcpTarget, Collecting, Unchanged, Advance, DoneIf, TypeInv
<1>2. PICK success \in BOOLEAN :
        facts' = [facts EXCEPT !.tcp = Append(@, [target |-> options.targets[steps + 1],
                                                  success |-> success])]
  BY DEF CheckTcpTarget
<1> DEFINE x == [target |-> options.targets[steps + 1], success |-> success]
<1>3. /\ HasParts(facts') /\ LocalFacts(facts') = LocalFacts(facts)
      /\ facts'.interfaces = facts.interfaces /\ facts'.routes = facts.routes
      /\ facts'.resolvers = facts.resolvers /\ facts'.dns = facts.dns
      /\ facts'.tcp = Append(facts.tcp, x)
      /\ facts'.ping = facts.ping /\ facts'.trace = facts.trace
      /\ facts'.services = facts.services
  BY <1>1, <1>2 DEF TypeInv, HasParts, LocalFacts
<1>4. facts.tcp \in Seq(TcpCheck) /\ x \in TcpCheck /\ Len(facts.tcp) \in Nat
  BY <1>1, TargetsAre DEF TypeInv, NetworkFactsOK, TcpCheck
<1> HIDE DEF x
<1>5. NetworkFactsOK'
  BY <1>1, <1>3, <1>4, OneMore DEF TypeInv, NetworkFactsOK, TcpCheck
<1>6. TypeInv'
  BY <1>1, <1>3, <1>5, NetworkStepTypes DEF TypeInv, NetworkDomain
<1>7. /\ N' = N /\ PingsEnd' = PingsEnd /\ ConnectivitySteps' = ConnectivitySteps
      /\ N \in Nat /\ N >= 1
  BY <1>1, PlanIsFixed, TargetsAre
<1>8. /\ PingsEnd \in Nat /\ ConnectivitySteps \in Nat
      /\ N <= PingsEnd /\ PingsEnd <= ConnectivitySteps
  BY <1>1, ConnectivityStepsAre
<1>9. Len(facts.tcp) = steps /\ Len(facts.ping) = 0 /\ Len(facts.trace) = 0
  BY <1>1, <1>7, <1>8 DEF ConnectivityInv, Taken
<1>10. /\ Len(facts'.tcp) = steps + 1
       /\ \A i \in 1..(steps + 1) : facts'.tcp[i].target = options.targets[i]
  <2>1. /\ Len(facts'.tcp) = steps + 1 /\ facts'.tcp[steps + 1] = x
        /\ \A i \in 1..steps : facts'.tcp[i] = facts.tcp[i]
    BY <1>3, <1>4, <1>9, OneMore
  <2>2. x.target = options.targets[steps + 1]
    BY DEF x
  <2>3. \A i \in 1..steps : facts.tcp[i].target = options.targets[i]
    BY <1>1, <1>9 DEF ConnectivityInv
  <2>4. ASSUME NEW i \in 1..(steps + 1) PROVE facts'.tcp[i].target = options.targets[i]
    BY <1>1, <2>1, <2>2, <2>3
  <2> QED
    BY <2>1, <2>4
<1>11. ConnectivityInv'
  BY <1>1, <1>3, <1>7, <1>8, <1>9, <1>10 DEF ConnectivityInv, Taken
<1> QED
  BY <1>1, <1>3, <1>6, <1>11, OwnDomainSuffices DEF LocalFacts

LEMMA PingCheckKeeps ==
  ASSUME CollectionInv, CheckPingTarget
  PROVE  CollectionInv'
<1>1. /\ domain = "connectivity" /\ TypeInv /\ ConnectivityInv /\ Unchanged
      /\ domain' = domain /\ options' = options /\ options \in Options /\ steps \in Nat
      /\ options.ping /\ steps \in N..(PingsEnd - 1) /\ steps' = steps + 1
      /\ outcome' = IF steps + 1 = ConnectivitySteps THEN "done" ELSE "running"
  BY DEF CollectionInv, CheckPingTarget, Collecting, Unchanged, Advance, DoneIf, TypeInv
<1>2. PICK answer \in PingAnswer :
        /\ facts' = [facts EXCEPT !.ping =
                       Append(@, [host |-> options.targets[steps - N + 1].host,
                                  answer |-> answer])]
        /\ codes' = codes \union (IF answer = "ping-command-unavailable"
                                  THEN {"ping-unavailable"} ELSE {})
  BY DEF CheckPingTarget
<1> DEFINE made == steps - N
           x    == [host |-> options.targets[made + 1].host, answer |-> answer]
<1>3. /\ HasParts(facts') /\ LocalFacts(facts') = LocalFacts(facts)
      /\ facts'.interfaces = facts.interfaces /\ facts'.routes = facts.routes
      /\ facts'.resolvers = facts.resolvers /\ facts'.dns = facts.dns
      /\ facts'.tcp = facts.tcp /\ facts'.ping = Append(facts.ping, x)
      /\ facts'.trace = facts.trace /\ facts'.services = facts.services
  BY <1>1, <1>2 DEF TypeInv, HasParts, LocalFacts
<1>7. /\ N' = N /\ PingsEnd' = PingsEnd /\ ConnectivitySteps' = ConnectivitySteps
      /\ N \in Nat /\ N >= 1
  BY <1>1, PlanIsFixed, TargetsAre
<1>8. /\ PingsEnd \in Nat /\ ConnectivitySteps \in Nat /\ PingsEnd = N + N
      /\ PingsEnd <= ConnectivitySteps /\ made \in Nat /\ made < N /\ steps = N + made
  BY <1>1, <1>7, ConnectivityStepsAre
<1>4. facts.ping \in Seq(PingCheck) /\ x \in PingCheck /\ Len(facts.ping) \in Nat
  <2>0. made + 1 \in 1..N
    BY <1>7, <1>8
  <2>1. options.targets[made + 1].host \in STRING
    BY <1>1, <2>0, TargetsAre
  <2> QED
    BY <1>1, <2>1 DEF TypeInv, NetworkFactsOK, PingCheck
<1>5. NetworkFactsOK'
  <2> HIDE DEF x
  <2> QED
    BY <1>1, <1>3, <1>4, OneMore DEF TypeInv, NetworkFactsOK, PingCheck
<1>6. codes' \subseteq NetworkCodes /\ codes \subseteq codes'
  BY <1>1, <1>2 DEF TypeInv, NetworkCodes, NetworkDomain
<1>9. TypeInv'
  BY <1>1, <1>3, <1>5, <1>6, NetworkStepTypes DEF TypeInv, NetworkDomain
<1>10. Len(facts.tcp) = N /\ Len(facts.ping) = made /\ Len(facts.trace) = 0
  <2>1. Taken(0) = N /\ Taken(N) = made /\ Taken(PingsEnd) = 0
    BY <1>1, <1>7, <1>8 DEF Taken
  <2> QED
    BY <1>1, <2>1 DEF ConnectivityInv
<1> HIDE DEF x
<1>11. /\ Len(facts'.ping) = made + 1
       /\ \A i \in 1..(made + 1) : facts'.ping[i].host = options.targets[i].host
  <2>1. /\ Len(facts'.ping) = made + 1 /\ facts'.ping[made + 1] = x
        /\ \A i \in 1..made : facts'.ping[i] = facts.ping[i]
    BY <1>3, <1>4, <1>10, OneMore
  <2>2. x.host = options.targets[made + 1].host
    BY DEF x
  <2>3. \A i \in 1..made : facts.ping[i].host = options.targets[i].host
    BY <1>1, <1>10 DEF ConnectivityInv
  <2>4. ASSUME NEW i \in 1..(made + 1) PROVE facts'.ping[i].host = options.targets[i].host
    BY <1>8, <2>1, <2>2, <2>3
  <2> QED
    BY <2>1, <2>4
<1>12. ConnectivityInv'
  BY <1>1, <1>3, <1>6, <1>7, <1>8, <1>10, <1>11 DEF ConnectivityInv, Taken
<1> QED
  BY <1>1, <1>3, <1>9, <1>12, OwnDomainSuffices DEF LocalFacts

LEMMA TraceCheckKeeps ==
  ASSUME CollectionInv, CheckTraceTarget
  PROVE  CollectionInv'
<1>1. /\ domain = "connectivity" /\ TypeInv /\ ConnectivityInv /\ Unchanged
      /\ domain' = domain /\ options' = options /\ options \in Options /\ steps \in Nat
      /\ options.trace /\ steps >= PingsEnd /\ steps' = steps + 1 /\ outcome = "running"
      /\ outcome' = IF steps + 1 = ConnectivitySteps THEN "done" ELSE "running"
  BY DEF CollectionInv, CheckTraceTarget, Collecting, Unchanged, Advance, DoneIf, TypeInv
<1>2. PICK answer \in TraceAnswer, lookup \in {"address", "none", "timeout"} :
        /\ facts' = [facts EXCEPT !.trace =
                       Append(@, [host |-> options.targets[steps - PingsEnd + 1].host,
                                  answer |-> answer, lookup |-> lookup])]
        /\ codes' = codes
             \union (IF lookup = "timeout" THEN {"trace-target-resolution-timeout"} ELSE {})
             \union (IF answer = "trace-command-unavailable" THEN {"trace-unavailable"} ELSE {})
  BY DEF CheckTraceTarget
<1> DEFINE made == steps - PingsEnd
           x    == [host |-> options.targets[made + 1].host, answer |-> answer,
                    lookup |-> lookup]
<1>3. /\ HasParts(facts') /\ LocalFacts(facts') = LocalFacts(facts)
      /\ facts'.interfaces = facts.interfaces /\ facts'.routes = facts.routes
      /\ facts'.resolvers = facts.resolvers /\ facts'.dns = facts.dns
      /\ facts'.tcp = facts.tcp /\ facts'.ping = facts.ping
      /\ facts'.trace = Append(facts.trace, x) /\ facts'.services = facts.services
  BY <1>1, <1>2 DEF TypeInv, HasParts, LocalFacts
<1>7. /\ N' = N /\ PingsEnd' = PingsEnd /\ ConnectivitySteps' = ConnectivitySteps
      /\ N \in Nat /\ N >= 1
  BY <1>1, PlanIsFixed, TargetsAre
<1>8. /\ PingsEnd \in Nat /\ ConnectivitySteps = PingsEnd + N /\ PingsEnd >= N
      /\ PingsEnd = IF options.ping THEN N + N ELSE N
      /\ made \in Nat /\ made < N /\ steps = PingsEnd + made
  <2>1. /\ PingsEnd \in Nat /\ ConnectivitySteps = PingsEnd + N /\ PingsEnd >= N
        /\ PingsEnd = IF options.ping THEN N + N ELSE N
    BY <1>1, ConnectivityStepsAre
  <2>2. steps < ConnectivitySteps
    BY <1>1 DEF ConnectivityInv
  <2> QED
    BY <1>1, <1>7, <2>1, <2>2
<1>4. facts.trace \in Seq(TraceCheck) /\ x \in TraceCheck /\ Len(facts.trace) \in Nat
  <2>0. made + 1 \in 1..N
    BY <1>7, <1>8
  <2>1. options.targets[made + 1].host \in STRING
    BY <1>1, <2>0, TargetsAre
  <2> QED
    BY <1>1, <2>1 DEF TypeInv, NetworkFactsOK, TraceCheck
<1>5. NetworkFactsOK'
  <2> HIDE DEF x
  <2> QED
    BY <1>1, <1>3, <1>4, OneMore DEF TypeInv, NetworkFactsOK, TraceCheck
<1>6. /\ codes' \subseteq NetworkCodes /\ codes \subseteq codes'
      /\ lookup = "timeout" => "trace-target-resolution-timeout" \in codes'
  BY <1>1, <1>2 DEF TypeInv, NetworkCodes, NetworkDomain
<1>9. TypeInv'
  BY <1>1, <1>3, <1>5, <1>6, NetworkStepTypes DEF TypeInv, NetworkDomain
<1>10. Len(facts.tcp) = N /\ Len(facts.trace) = made
       /\ Len(facts.ping) = IF options.ping THEN N ELSE 0
  <2>1. /\ Taken(0) = N /\ (options.ping => Taken(N) = N) /\ Taken(PingsEnd) = made
    BY <1>1, <1>7, <1>8 DEF Taken
  <2> QED
    BY <1>1, <2>1 DEF ConnectivityInv
<1>13. x.host = options.targets[made + 1].host /\ x.lookup = lookup
  OBVIOUS
<1> HIDE DEF x
<1>11. /\ Len(facts'.trace) = made + 1
       /\ \A i \in 1..(made + 1) :
            /\ facts'.trace[i].host = options.targets[i].host
            /\ facts'.trace[i].lookup = "timeout" => "trace-target-resolution-timeout" \in codes'
  <2>1. /\ Len(facts'.trace) = made + 1 /\ facts'.trace[made + 1] = x
        /\ \A i \in 1..made : facts'.trace[i] = facts.trace[i]
    BY <1>3, <1>4, <1>10, OneMore
  <2>3. \A i \in 1..made : /\ facts.trace[i].host = options.targets[i].host
                           /\ facts.trace[i].lookup = "timeout"
                                => "trace-target-resolution-timeout" \in codes
    BY <1>1, <1>10 DEF ConnectivityInv
  <2>4. ASSUME NEW i \in 1..(made + 1)
        PROVE  /\ facts'.trace[i].host = options.targets[i].host
               /\ facts'.trace[i].lookup = "timeout"
                    => "trace-target-resolution-timeout" \in codes'
    <3>1. CASE i = made + 1
      BY <1>6, <1>13, <2>1, <3>1
    <3>2. CASE i \in 1..made
      BY <1>6, <2>1, <2>3, <3>2
    <3> QED
      BY <1>8, <3>1, <3>2
  <2> QED
    BY <2>1, <2>4
<1>12. ConnectivityInv'
  <2>1. /\ Taken(0)' = N /\ (options.ping => Taken(N)' = N) /\ Taken(PingsEnd)' = made + 1
    BY <1>1, <1>7, <1>8 DEF Taken
  <2>2. /\ outcome' = "running" => steps' < ConnectivitySteps
        /\ outcome' # "running" => steps' = ConnectivitySteps
    <3>1. ConnectivitySteps \in Nat /\ steps < ConnectivitySteps
      BY <1>1, <1>8, ConnectivityStepsAre DEF ConnectivityInv
    <3>2. outcome' # "running" => steps + 1 = ConnectivitySteps
      BY <1>1
    <3>3. outcome' = "running" => steps + 1 # ConnectivitySteps
      BY <1>1
    <3> QED
      BY <1>1, <3>1, <3>2, <3>3
  <2>3. /\ \A i \in 1..Len(facts.tcp) : facts.tcp[i].target = options.targets[i]
        /\ \A i \in 1..Len(facts.ping) : facts.ping[i].host = options.targets[i].host
    BY <1>1 DEF ConnectivityInv
  <2> QED
    BY <1>1, <1>3, <1>7, <1>10, <1>11, <2>1, <2>2, <2>3 DEF ConnectivityInv
<1> QED
  BY <1>1, <1>3, <1>9, <1>12, OwnDomainSuffices DEF LocalFacts

LEMMA ServiceCheckKeeps ==
  ASSUME CollectionInv, CheckService
  PROVE  CollectionInv'
<1>1. /\ domain = "services" /\ TypeInv /\ ServicesInv /\ Unchanged
      /\ domain' = domain /\ options' = options /\ options \in Options /\ steps \in Nat
      /\ outcome = "running" /\ steps' = steps + 1 /\ codes' = codes
      /\ outcome' = IF steps + 1 = N THEN "done" ELSE "running"
  BY DEF CollectionInv, CheckService, Collecting, Unchanged, DoneIf, TypeInv
<1>2. PICK success \in BOOLEAN :
        facts' = [facts EXCEPT !.services = Append(@, [target |-> options.targets[steps + 1],
                                                       success |-> success])]
  BY DEF CheckService
<1> DEFINE x == [target |-> options.targets[steps + 1], success |-> success]
<1>3. /\ HasParts(facts') /\ LocalFacts(facts') = LocalFacts(facts)
      /\ facts'.interfaces = facts.interfaces /\ facts'.routes = facts.routes
      /\ facts'.resolvers = facts.resolvers /\ facts'.dns = facts.dns
      /\ facts'.tcp = facts.tcp /\ facts'.ping = facts.ping /\ facts'.trace = facts.trace
      /\ facts'.services = Append(facts.services, x)
  BY <1>1, <1>2 DEF TypeInv, HasParts, LocalFacts
<1>4. N' = N /\ N \in Nat /\ steps < N /\ Len(facts.services) = steps
  BY <1>1, PlanIsFixed, TargetsAre DEF ServicesInv
<1>5. facts.services \in Seq(TcpCheck) /\ x \in TcpCheck
  BY <1>1, <1>4, TargetsAre DEF TypeInv, NetworkFactsOK, TcpCheck
<1>6. x.target = options.targets[steps + 1]
  OBVIOUS
<1> HIDE DEF x
<1>7. NetworkFactsOK'
  BY <1>1, <1>3, <1>5, OneMore DEF TypeInv, NetworkFactsOK, TcpCheck
<1>8. TypeInv'
  BY <1>1, <1>3, <1>7, NetworkStepTypes DEF TypeInv, NetworkDomain
<1>9. /\ Len(facts'.services) = steps + 1
      /\ \A i \in 1..(steps + 1) : facts'.services[i].target = options.targets[i]
  <2>1. /\ Len(facts'.services) = steps + 1 /\ facts'.services[steps + 1] = x
        /\ \A i \in 1..steps : facts'.services[i] = facts.services[i]
    BY <1>3, <1>4, <1>5, OneMore
  <2>2. \A i \in 1..steps : facts.services[i].target = options.targets[i]
    BY <1>1, <1>4 DEF ServicesInv
  <2>3. ASSUME NEW i \in 1..(steps + 1) PROVE facts'.services[i].target = options.targets[i]
    BY <1>1, <1>6, <2>1, <2>2
  <2> QED
    BY <2>1, <2>3
<1>10. ServicesInv'
  BY <1>1, <1>4, <1>9 DEF ServicesInv
<1> QED
  BY <1>1, <1>3, <1>8, <1>10, OwnDomainSuffices DEF LocalFacts

LEMMA VpnStateKeeps ==
  ASSUME CollectionInv, CollectVpnState
  PROVE  CollectionInv'
<1>1. /\ domain = "vpn" /\ TypeInv /\ Unchanged /\ domain' = domain
      /\ steps' = steps /\ outcome' = "done" /\ facts' = facts /\ codes' = codes
  BY DEF CollectionInv, CollectVpnState, Collecting, Unchanged
<1>2. NetworkFactsOK'
  BY <1>1 DEF TypeInv, NetworkFactsOK
<1>3. TypeInv'
  BY <1>1, <1>2, NetworkStepTypes DEF TypeInv, NetworkDomain
<1> QED
  BY <1>1, <1>3, OwnDomainSuffices

LEMMA NetworkStepsKeep ==
  ASSUME CollectionInv, NetworkNext
  PROVE  CollectionInv'
BY InterfacesKeep, ArpNeighborsKeep, RouteSummaryKeeps, ResolversKeep, ResolveHostnameKeeps,
   TcpCheckKeeps, PingCheckKeeps, TraceCheckKeeps, ServiceCheckKeeps, VpnStateKeeps
   DEF NetworkNext
-----------------------------------------------------------------------------
(* The steps of the local domains.                                          *)

\* The parts of the facts that a step of the local side leaves alone
NetworkFacts(f) ==
  <<f.interfaces, f.routes, f.resolvers, f.dns, f.tcp, f.ping, f.trace, f.services>>

LEMMA LocalStepTypes ==
  ASSUME TypeInv, domain \in LocalDomain, Unchanged, steps' \in Nat,
         outcome' \in {"running", "done", "raised"}, codes' \subseteq LocalCodes,
         HasParts(facts'), NetworkFacts(facts') = NetworkFacts(facts), LocalParts(facts)'
  PROVE  TypeInv'
<1>1. NetworkFactsOK'
  BY DEF TypeInv, NetworkFactsOK, NetworkFacts
<1>2. domain \notin NetworkDomain
  BY DEF LocalDomain, NetworkDomain
<1> QED
  BY <1>1, <1>2 DEF TypeInv, Unchanged

\* A step that leaves all facts alone
LEMMA SameFacts ==
  ASSUME TypeInv, Unchanged, facts' = facts
  PROVE  HasParts(facts') /\ NetworkFacts(facts') = NetworkFacts(facts) /\ LocalParts(facts)'
BY DEF TypeInv, LocalParts, Unchanged

LEMMA HostBasicsKeep ==
  ASSUME CollectionInv, CollectHostBasics
  PROVE  CollectionInv'
<1>1. /\ domain = "host" /\ TypeInv /\ Unchanged /\ domain' = domain
      /\ steps' = 1 /\ facts' = facts
  BY DEF CollectionInv, CollectHostBasics, Step, Collecting, Unchanged
<1>2. outcome' \in {"done", "raised"}
  BY DEF CollectHostBasics
<1>3. codes' \subseteq LocalCodes
  BY DEF CollectHostBasics, Code, Unread, LocalCodes
<1>4. TypeInv'
  BY <1>1, <1>2, <1>3, SameFacts, LocalStepTypes DEF LocalDomain
<1> QED
  BY <1>1, <1>4, OwnDomainSuffices

LEMMA LoadAverageKeeps ==
  ASSUME CollectionInv, CollectLoadAverage
  PROVE  CollectionInv'
<1>1. /\ domain = "resources" /\ TypeInv /\ Unchanged /\ domain' = domain
      /\ platform' = platform /\ platform \in Platform
      /\ steps' = 1 /\ outcome' = outcome /\ outcome = "running"
  BY DEF CollectionInv, CollectLoadAverage, Step, Collecting, Unchanged, TypeInv
<1>2. PICK cpus \in BOOLEAN, load \in {"measured", "failed", "missing"} :
        /\ facts' = [facts EXCEPT !.cpus = cpus, !.load = (load = "measured")]
        /\ codes' = Code(load = "failed", "load-average-unavailable") \union
                    Code(load = "missing" /\ platform # "windows", "load-average-unsupported")
  BY DEF CollectLoadAverage
<1> DEFINE measured == load = "measured"
<1>3. /\ HasParts(facts') /\ NetworkFacts(facts') = NetworkFacts(facts)
      /\ facts'.cpus = cpus /\ facts'.load = measured /\ facts'.total = facts.total
      /\ facts'.available = facts.available /\ facts'.battery = facts.battery
      /\ facts'.snapshot = facts.snapshot /\ facts'.skew = facts.skew
      /\ facts'.mounted = facts.mounted /\ facts'.disks = facts.disks
      /\ facts'.devices = facts.devices
  BY <1>1, <1>2 DEF TypeInv, HasParts, NetworkFacts
<1>4. measured \in BOOLEAN
  OBVIOUS
<1>5. LocalParts(facts)'
  BY <1>1, <1>3, <1>4 DEF TypeInv, LocalParts
<1>6. /\ codes' \subseteq LocalCodes
      /\ \/ measured \/ platform = "windows"
         \/ codes' \intersect {"load-average-unavailable", "load-average-unsupported"} # {}
  BY <1>2 DEF Code, LocalCodes
<1>7. TypeInv'
  BY <1>1, <1>3, <1>5, <1>6, LocalStepTypes DEF LocalDomain
<1> HIDE DEF measured
<1>8. measured => facts'.load
  BY <1>3, <1>4, Zenon
<1>9. ResourcesInv'
  BY <1>1, <1>3, <1>6, <1>8 DEF ResourcesInv
<1> QED
  BY <1>1, <1>3, <1>7, <1>9, OwnDomainSuffices

LEMMA MemoryAndBatteryKeep ==
  ASSUME CollectionInv, CollectMemoryAndBattery
  PROVE  CollectionInv'
<1>1. /\ domain = "resources" /\ TypeInv /\ ResourcesInv /\ Unchanged /\ domain' = domain
      /\ platform' = platform /\ platform \in Platform
      /\ steps = 1 /\ steps' = 2 /\ outcome' = outcome /\ outcome = "running"
  BY DEF CollectionInv, CollectMemoryAndBattery, Step, Collecting, Unchanged, TypeInv
<1>2. PICK total \in BOOLEAN, available \in BOOLEAN, battery \in Battery :
        /\ facts' = [facts EXCEPT !.total = total, !.available = available, !.battery = battery]
        /\ codes' = codes \union Code(platform = "other", "memory-unsupported")
                          \union Unread(~total, "memory-unavailable")
                          \union BatteryCodes(battery)
        /\ platform \in {"linux", "windows"} => available = total
  BY DEF CollectMemoryAndBattery
<1>3. /\ HasParts(facts') /\ NetworkFacts(facts') = NetworkFacts(facts)
      /\ facts'.cpus = facts.cpus /\ facts'.load = facts.load /\ facts'.total = total
      /\ facts'.available = available /\ facts'.battery = battery
      /\ facts'.snapshot = facts.snapshot /\ facts'.skew = facts.skew
      /\ facts'.mounted = facts.mounted /\ facts'.disks = facts.disks
      /\ facts'.devices = facts.devices
  BY <1>1, <1>2 DEF TypeInv, HasParts, NetworkFacts
<1>5. LocalParts(facts)'
  BY <1>1, <1>3 DEF TypeInv, LocalParts
<1>6. codes \subseteq LocalCodes
  BY <1>1 DEF TypeInv, NetworkDomain
<1>7. codes' \subseteq LocalCodes /\ codes \subseteq codes'
  BY <1>2, <1>6 DEF Code, Unread, BatteryCodes, LocalCodes
<1>8. /\ platform = "other" => "memory-unsupported" \in codes'
      /\ (platform # "other" /\ ~total) => "memory-unavailable" \in codes'
      /\ platform \in {"linux", "windows"} => available = total
      /\ (platform # "other" /\ battery = "unread") => "battery-unavailable" \in codes'
  BY <1>1, <1>2 DEF Code, Unread, BatteryCodes, KnownPlatform
<1>9. TypeInv'
  BY <1>1, <1>3, <1>5, <1>7, LocalStepTypes DEF LocalDomain
<1>10. ResourcesInv'
  BY <1>1, <1>3, <1>7, <1>8 DEF ResourcesInv
<1> QED
  BY <1>1, <1>3, <1>9, <1>10, OwnDomainSuffices

LEMMA ProcessSnapshotKeeps ==
  ASSUME CollectionInv, CollectProcessSnapshot
  PROVE  CollectionInv'
<1>1. /\ domain = "resources" /\ TypeInv /\ ResourcesInv /\ Unchanged /\ domain' = domain
      /\ platform' = platform /\ platform \in Platform
      /\ steps = 2 /\ steps' = 3 /\ outcome' = "done"
  BY DEF CollectionInv, CollectProcessSnapshot, Step, Collecting, Unchanged, TypeInv
<1>2. PICK snapshot \in BOOLEAN :
        /\ facts' = [facts EXCEPT !.snapshot = snapshot]
        /\ codes' = codes \union Unread(~snapshot, "process-snapshot-unavailable")
  BY DEF CollectProcessSnapshot
<1>3. /\ HasParts(facts') /\ NetworkFacts(facts') = NetworkFacts(facts)
      /\ facts'.cpus = facts.cpus /\ facts'.load = facts.load /\ facts'.total = facts.total
      /\ facts'.available = facts.available /\ facts'.battery = facts.battery
      /\ facts'.snapshot = snapshot /\ facts'.skew = facts.skew
      /\ facts'.mounted = facts.mounted /\ facts'.disks = facts.disks
      /\ facts'.devices = facts.devices
  BY <1>1, <1>2 DEF TypeInv, HasParts, NetworkFacts
<1>5. LocalParts(facts)'
  BY <1>1, <1>3 DEF TypeInv, LocalParts
<1>6. codes \subseteq LocalCodes
  BY <1>1 DEF TypeInv, NetworkDomain
<1>7. /\ codes' \subseteq LocalCodes /\ codes \subseteq codes'
      /\ (platform # "other" /\ ~snapshot) => "process-snapshot-unavailable" \in codes'
  BY <1>1, <1>2, <1>6 DEF Code, Unread, LocalCodes, KnownPlatform
<1>9. TypeInv'
  BY <1>1, <1>3, <1>5, <1>7, LocalStepTypes DEF LocalDomain
<1>10. ResourcesInv'
  BY <1>1, <1>3, <1>7 DEF ResourcesInv
<1> QED
  BY <1>1, <1>3, <1>9, <1>10, OwnDomainSuffices

LEMMA LocalClockKeeps ==
  ASSUME CollectionInv, CollectLocalClock
  PROVE  CollectionInv'
<1>1. /\ domain = "time" /\ TypeInv /\ Unchanged /\ domain' = domain
      /\ steps' = 1 /\ facts' = facts /\ codes' = codes /\ outcome' \in {"running", "done"}
  BY DEF CollectionInv, CollectLocalClock, Step, Collecting, Unchanged, DoneIf
<1>2. codes' \subseteq LocalCodes
  BY <1>1 DEF TypeInv, NetworkDomain
<1>3. TypeInv'
  BY <1>1, <1>2, SameFacts, LocalStepTypes DEF LocalDomain
<1> QED
  BY <1>1, <1>3, OwnDomainSuffices

LEMMA ClockSkewKeeps ==
  ASSUME CollectionInv, CheckClockSkew
  PROVE  CollectionInv'
<1>1. /\ domain = "time" /\ TypeInv /\ Unchanged /\ domain' = domain /\ platform' = platform
      /\ steps' = 1 + 1
  BY DEF CollectionInv, CheckClockSkew, Step, Collecting, Unchanged
<1>2. PICK answer \in Answer :
        /\ facts' = [facts EXCEPT !.skew = IF answer = "broken off" THEN "not_run"
                                           ELSE IF answer = "date" THEN "checked" ELSE "failed"]
        /\ codes' = Code(answer \notin {"date", "broken off"}, "clock-skew-check-failed")
        /\ outcome' = IF answer = "broken off" THEN "raised" ELSE "done"
  BY DEF CheckClockSkew
<1>3. /\ HasParts(facts') /\ NetworkFacts(facts') = NetworkFacts(facts)
      /\ facts'.cpus = facts.cpus /\ facts'.load = facts.load /\ facts'.total = facts.total
      /\ facts'.available = facts.available /\ facts'.battery = facts.battery
      /\ facts'.snapshot = facts.snapshot /\ facts'.skew \in Skew
      /\ facts'.mounted = facts.mounted /\ facts'.disks = facts.disks
      /\ facts'.devices = facts.devices
  BY <1>1, <1>2 DEF TypeInv, HasParts, NetworkFacts, Skew
<1>4. LocalParts(facts)'
  BY <1>1, <1>3 DEF TypeInv, LocalParts
<1>5. codes' \subseteq LocalCodes /\ outcome' \in {"done", "raised"}
  BY <1>2 DEF Code, LocalCodes
<1>6. TypeInv'
  BY <1>1, <1>3, <1>4, <1>5, LocalStepTypes DEF LocalDomain
<1> QED
  BY <1>1, <1>3, <1>6, OwnDomainSuffices
-----------------------------------------------------------------------------
(* The steps of the storage domain.                                         *)

LEMMA RoleIsRole ==
  ASSUME NEW p \in Platform, NEW path
  PROVE  Role(p, path) \in Roles
<1>1. CASE p = "windows"
  BY <1>1 DEF Role, Roles
<1>2. CASE p = "macos"
  BY <1>2 DEF Role, Roles
<1>3. CASE p \in {"linux", "other"}
  BY <1>3 DEF Role, Roles
<1> QED
  BY <1>1, <1>2, <1>3 DEF Platform

LEMMA LevelIsLevel ==
  ASSUME NEW size \in Nat, NEW left \in Nat, NEW role \in Roles
  PROVE  Level(size, left, role) \in Levels
<1> DEFINE policy   == Policy(role)
           Critical == 100 * left <= policy.critical * size
           Low      == 100 * left <= policy.low * size /\ left <= policy.floor
<1>1. Level(size, left, role) =
        CASE size = 0                        -> "unknown"
          [] size > 0 /\ Critical            -> "critical"
          [] size > 0 /\ ~Critical /\ Low    -> "low"
          [] size > 0 /\ ~Critical /\ ~Low   -> "normal"
  BY DEF Level
<1> HIDE DEF Critical, Low
<1> QED
  BY <1>1 DEF Levels

LEMMA VolumeIsDisk ==
  ASSUME NEW p \in Platform, NEW path \in MountsOf(p), NEW size \in Nat, NEW left \in Nat,
         left <= size
  PROVE  /\ Volume(p, path, size, left) \in Disk(p)
         /\ Volume(p, path, size, left).path = path
         /\ Volume(p, path, size, left).total = size
         /\ Volume(p, path, size, left).free = left
<1>1. Role(p, path) \in Roles /\ Level(size, left, Role(p, path)) \in Levels
  BY RoleIsRole, LevelIsLevel
<1> QED
  BY <1>1 DEF Volume, Disk

\* The mount points of a platform have a container with a capacity.
LEMMA MountsAre ==
  ASSUME NEW p \in Platform
  PROVE  /\ PathsOf[p] \in Seq(MountsOf(p))
         /\ <<"/">> \in Seq(MountsOf(p))
         /\ \A i, j \in DOMAIN PathsOf[p] : PathsOf[p][i] = PathsOf[p][j] => i = j
         /\ \A path \in MountsOf(p) : ContainerOf[path] \in Containers
<1>1. "/" \in MountsOf(p)
  BY DEF MountsOf
<1> QED
  BY <1>1, MountsAssumption

LEMMA DiscoverKeeps ==
  ASSUME CollectionInv, DiscoverMountPoints
  PROVE  CollectionInv'
<1>1. /\ domain = "storage" /\ TypeInv /\ StorageInv /\ Unchanged /\ domain' = domain
      /\ platform' = platform /\ platform \in Platform /\ activity' = activity
      /\ steps = 0 /\ steps' = 1 /\ outcome' = outcome /\ outcome = "running" /\ codes' = codes
      /\ facts.disks = <<>> /\ activity = 0
  BY DEF CollectionInv, DiscoverMountPoints, Step, Collecting, Unchanged, TypeInv, StorageInv
<1>2. /\ pending' \in {PathsOf[platform], <<"/">>}
      /\ facts' = [facts EXCEPT !.mounted = pending']
      /\ capacity' \in [Containers -> Totals]
      /\ free' \in [Containers -> Frees] /\ \A c \in Containers : free'[c] <= capacity'[c]
  BY DEF DiscoverMountPoints
<1>3. /\ HasParts(facts') /\ NetworkFacts(facts') = NetworkFacts(facts)
      /\ facts'.cpus = facts.cpus /\ facts'.load = facts.load /\ facts'.total = facts.total
      /\ facts'.available = facts.available /\ facts'.battery = facts.battery
      /\ facts'.snapshot = facts.snapshot /\ facts'.skew = facts.skew
      /\ facts'.mounted = pending' /\ facts'.disks = facts.disks
      /\ facts'.devices = facts.devices
  BY <1>1, <1>2 DEF TypeInv, HasParts, NetworkFacts
<1>4. /\ pending' \in Seq(MountsOf(platform))
      /\ \A i, j \in DOMAIN pending' : pending'[i] = pending'[j] => i = j
  <2>1. CASE pending' = PathsOf[platform]
    BY <1>1, <2>1, MountsAre
  <2>2. CASE pending' = <<"/">>
    <3>1. DOMAIN pending' = {1}
      BY <2>2
    <3> QED
      BY <1>1, <2>2, <3>1, MountsAre
  <2> QED
    BY <1>2, <2>1, <2>2
<1>5. LocalParts(facts)'
  BY <1>1, <1>3, <1>4 DEF TypeInv, LocalParts
<1>6. TypeInv'
  <2>1. codes' \subseteq LocalCodes
    BY <1>1 DEF TypeInv, NetworkDomain
  <2> QED
    BY <1>1, <1>3, <1>5, <2>1, LocalStepTypes DEF LocalDomain
<1>7. capacity' \in [Containers -> Nat] /\ free' \in [Containers -> Nat]
  BY <1>2, CapacityAssumption
<1>8. Len(facts'.disks) = 0 /\ DOMAIN facts'.disks = {} /\ Len(pending') \in Nat
  BY <1>1, <1>3, <1>4, EmptySeq, LenProperties
<1>9. StorageInv'
  BY <1>1, <1>2, <1>3, <1>4, <1>7, <1>8 DEF StorageInv, UniquePaths
<1> QED
  BY <1>1, <1>6, <1>9, OwnDomainSuffices

LEMMA OtherProgramsKeep ==
  ASSUME CollectionInv, OtherProgramsUseSpace
  PROVE  CollectionInv'
<1>1. /\ domain = "storage" /\ TypeInv /\ StorageInv /\ Unchanged /\ domain' = domain
      /\ platform' = platform /\ activity' = activity + 1 /\ activity \in Nat
      /\ steps = 1 /\ steps' = steps /\ outcome' = outcome /\ outcome = "running"
      /\ codes' = codes /\ facts' = facts /\ pending' = pending /\ capacity' = capacity
      /\ steps \in Nat
  BY DEF CollectionInv, OtherProgramsUseSpace, Collecting, Unchanged, TypeInv, StorageInv
<1>2. PICK c \in Containers, f \in Frees : f <= capacity[c] /\ free' = [free EXCEPT ![c] = f]
  BY DEF OtherProgramsUseSpace
<1>3. /\ free' \in [Containers -> Nat]
      /\ \A d \in Containers : free'[d] <= capacity[d]
  BY <1>1, <1>2, CapacityAssumption DEF StorageInv
<1>4. TypeInv'
  <2>1. codes' \subseteq LocalCodes
    BY <1>1 DEF TypeInv, NetworkDomain
  <2> QED
    BY <1>1, <2>1, SameFacts, LocalStepTypes DEF LocalDomain
<1>5. StorageInv'
  BY <1>1, <1>3 DEF StorageInv
<1> QED
  BY <1>1, <1>4, <1>5, OwnDomainSuffices

LEMMA MeasureVolumeKeeps ==
  ASSUME CollectionInv, MeasureVolume
  PROVE  CollectionInv'
<1>1. /\ domain = "storage" /\ TypeInv /\ StorageInv /\ Unchanged /\ domain' = domain
      /\ platform' = platform /\ platform \in Platform /\ activity' = activity
      /\ steps = 1 /\ steps' = steps /\ outcome' = outcome /\ outcome = "running"
      /\ capacity' = capacity /\ free' = free /\ steps \in Nat
      /\ pending # <<>> /\ pending' = Tail(pending)
  BY DEF CollectionInv, MeasureVolume, Collecting, Unchanged, TypeInv
<1> DEFINE path == Head(pending)
           c    == ContainerOf[path]
           d    == Volume(platform, path, capacity[c], free[c])
<1>2. PICK measured \in BOOLEAN :
        /\ facts' = [facts EXCEPT !.disks = IF measured THEN Append(@, d) ELSE @]
        /\ codes' = codes \union Code(~measured, "disk-usage-failed")
  BY DEF MeasureVolume, VolumeCodes
<1>3. /\ pending \in Seq(MountsOf(platform)) /\ path \in MountsOf(platform)
      /\ path = pending[1] /\ Len(pending) \in Nat /\ Len(pending) >= 1
      /\ DOMAIN pending = 1..Len(pending)
  BY <1>1, EmptySeq, LenProperties, ElementOfSeq DEF StorageInv
<1>4. /\ Tail(pending) \in Seq(MountsOf(platform)) /\ Len(Tail(pending)) = Len(pending) - 1
      /\ DOMAIN Tail(pending) = 1..(Len(pending) - 1)
      /\ \A i \in 1..(Len(pending) - 1) : Tail(pending)[i] = pending[i + 1]
  BY <1>1, <1>3, LenProperties
<1>5. c \in Containers /\ capacity[c] \in Nat /\ free[c] \in Nat /\ free[c] <= capacity[c]
  BY <1>1, <1>3, MountsAre DEF StorageInv
<1>6. d \in Disk(platform) /\ d.path = path /\ d.total = capacity[c] /\ d.free = free[c]
  BY <1>1, <1>3, <1>5, VolumeIsDisk
<1> HIDE DEF d, c
<1> DEFINE disks == facts.disks
<1>7. /\ HasParts(facts') /\ NetworkFacts(facts') = NetworkFacts(facts)
      /\ facts'.cpus = facts.cpus /\ facts'.load = facts.load /\ facts'.total = facts.total
      /\ facts'.available = facts.available /\ facts'.battery = facts.battery
      /\ facts'.snapshot = facts.snapshot /\ facts'.skew = facts.skew
      /\ facts'.mounted = facts.mounted
      /\ facts'.disks = IF measured THEN Append(disks, d) ELSE disks
      /\ facts'.devices = facts.devices
  BY <1>1, <1>2 DEF TypeInv, HasParts, NetworkFacts
<1>8. /\ disks \in Seq(Disk(platform)) /\ Len(disks) \in Nat /\ DOMAIN disks = 1..Len(disks)
  BY <1>1, LenProperties DEF TypeInv, LocalParts
<1>9. /\ facts'.disks \in Seq(Disk(platform))
      /\ DOMAIN facts'.disks = 1..Len(facts'.disks)
      /\ Len(facts'.disks) = IF measured THEN Len(disks) + 1 ELSE Len(disks)
      /\ \A i \in 1..Len(disks) : facts'.disks[i] = disks[i]
      /\ measured => facts'.disks[Len(disks) + 1] = d
  <2>1. CASE measured
    <3>1. facts'.disks = Append(disks, d)
      BY <1>7, <2>1
    <3> QED
      BY <1>6, <1>8, <2>1, <3>1, OneMore, LenProperties
  <2>2. CASE ~measured
    BY <1>7, <1>8, <2>2
  <2> QED
    BY <2>1, <2>2
<1>10. LocalParts(facts)'
  BY <1>1, <1>7, <1>9 DEF TypeInv, LocalParts
<1>11. TypeInv'
  <2>1. codes' \subseteq LocalCodes
    BY <1>1, <1>2 DEF TypeInv, NetworkDomain, Code, LocalCodes
  <2> QED
    BY <1>1, <1>7, <1>10, <2>1, LocalStepTypes DEF LocalDomain
<1>12. /\ \A i \in DOMAIN facts'.disks :
            \/ i \in 1..Len(disks) /\ facts'.disks[i] = disks[i]
            \/ measured /\ i = Len(disks) + 1 /\ facts'.disks[i] = d
  BY <1>8, <1>9
<1>13. /\ \A i, j \in DOMAIN pending : pending[i] = pending[j] => i = j
       /\ \A i, j \in 1..Len(disks) : disks[i].path = disks[j].path => i = j
       /\ \A i \in DOMAIN pending, j \in 1..Len(disks) : disks[j].path # pending[i]
  BY <1>1, <1>8 DEF StorageInv, UniquePaths
<1>14. UniquePaths(facts'.disks)
  <2> SUFFICES ASSUME NEW i \in DOMAIN facts'.disks, NEW j \in DOMAIN facts'.disks,
                      facts'.disks[i].path = facts'.disks[j].path
               PROVE  i = j
    BY DEF UniquePaths
  <2>1. 1 \in DOMAIN pending
    BY <1>3
  <2> QED
    BY <1>3, <1>6, <1>12, <1>13, <2>1
<1>15. ASSUME NEW i \in DOMAIN pending', NEW j \in DOMAIN facts'.disks
       PROVE  facts'.disks[j].path # pending'[i]
  <2>1. i + 1 \in DOMAIN pending /\ pending'[i] = pending[i + 1] /\ 1 \in DOMAIN pending
        /\ i + 1 # 1
    BY <1>1, <1>3, <1>4
  <2> QED
    BY <1>3, <1>6, <1>12, <1>13, <2>1
<1>16. \A i, j \in DOMAIN pending' : pending'[i] = pending'[j] => i = j
  <2> SUFFICES ASSUME NEW i \in 1..(Len(pending) - 1), NEW j \in 1..(Len(pending) - 1),
                      pending[i + 1] = pending[j + 1]
               PROVE  i = j
    BY <1>1, <1>4
  <2>1. i + 1 \in DOMAIN pending /\ j + 1 \in DOMAIN pending
    BY <1>3
  <2> QED
    BY <1>13, <2>1
<1>17. "disk-usage-failed" \notin codes' =>
          Len(facts'.disks) + Len(pending') = Len(facts'.mounted)
  <2> SUFFICES ASSUME "disk-usage-failed" \notin codes'
               PROVE  Len(facts'.disks) + Len(pending') = Len(facts'.mounted)
    OBVIOUS
  <2>1. measured /\ "disk-usage-failed" \notin codes
    BY <1>2 DEF Code
  <2>2. Len(disks) + Len(pending) = Len(facts.mounted)
    BY <1>1, <2>1 DEF StorageInv
  <2>3. /\ Len(facts'.disks) = Len(disks) + 1 /\ Len(pending') = Len(pending) - 1
        /\ facts'.mounted = facts.mounted
    BY <1>1, <1>4, <1>7, <1>9, <2>1
  <2>4. Len(disks) \in Nat /\ Len(pending) \in Nat
    BY <1>3, <1>8
  <2> HIDE DEF disks
  <2> QED
    BY <2>2, <2>3, <2>4
<1>18. activity' = 0 => \A i \in DOMAIN facts'.disks :
         /\ facts'.disks[i].total = capacity[ContainerOf[facts'.disks[i].path]]
         /\ facts'.disks[i].free = free[ContainerOf[facts'.disks[i].path]]
  BY <1>1, <1>6, <1>8, <1>12 DEF StorageInv, c
<1>19. StorageInv'
  BY <1>1, <1>4, <1>14, <1>15, <1>16, <1>17, <1>18 DEF StorageInv
<1> QED
  BY <1>1, <1>11, <1>19, OwnDomainSuffices

\* Sorting keeps every volume, once: two places of an order cannot be one.
LEMMA SortingOrdersAre ==
  ASSUME NEW S, NEW disks \in Seq(S), NEW order \in SortingOrders(disks)
  PROVE  /\ order \in [DOMAIN disks -> DOMAIN disks]
         /\ \A i, j \in DOMAIN disks : order[i] = order[j] => i = j
<1>1. DOMAIN disks \subseteq Nat
  BY LenProperties
<1>2. order \in [DOMAIN disks -> DOMAIN disks]
  BY DEF SortingOrders
<1>3. \A i, j \in DOMAIN disks : i < j => order[i] # order[j]
  BY DEF SortingOrders
<1> QED
  BY <1>1, <1>2, <1>3

LEMMA DeviceHealthKeeps ==
  ASSUME CollectionInv, CollectDeviceHealth
  PROVE  CollectionInv'
<1>1. /\ domain = "storage" /\ TypeInv /\ StorageInv /\ Unchanged /\ domain' = domain
      /\ platform' = platform /\ platform \in Platform /\ activity' = activity
      /\ steps' = 1 + 1 /\ outcome' = "done"
      /\ capacity' = capacity /\ free' = free /\ pending = <<>> /\ pending' = pending
  BY DEF CollectionInv, CollectDeviceHealth, Step, Collecting, Unchanged, TypeInv, diskVars
<1> DEFINE disks == facts.disks
<1>2. PICK devices \in Devices, order \in SortingOrders(disks) :
        /\ platform = "linux" => devices = "none"
        /\ facts' = [facts EXCEPT !.devices = devices,
                                  !.disks = [i \in DOMAIN @ |-> @[order[i]]]]
        /\ codes' = codes \union Code(disks = <<>>, "no-disk-data")
                      \union Code(devices = "unread" /\ platform \in {"macos", "windows"},
                                  "storage-health-unavailable")
  BY DEF CollectDeviceHealth
<1> DEFINE sorted == [i \in DOMAIN disks |-> disks[order[i]]]
<1>3. /\ HasParts(facts') /\ NetworkFacts(facts') = NetworkFacts(facts)
      /\ facts'.cpus = facts.cpus /\ facts'.load = facts.load /\ facts'.total = facts.total
      /\ facts'.available = facts.available /\ facts'.battery = facts.battery
      /\ facts'.snapshot = facts.snapshot /\ facts'.skew = facts.skew
      /\ facts'.mounted = facts.mounted /\ facts'.disks = sorted
      /\ facts'.devices = devices
  BY <1>1, <1>2 DEF TypeInv, HasParts, NetworkFacts
<1>4. /\ disks \in Seq(Disk(platform)) /\ Len(disks) \in Nat /\ DOMAIN disks = 1..Len(disks)
      /\ \A i \in DOMAIN disks : disks[i] \in Disk(platform)
  BY <1>1, LenProperties, ElementOfSeq DEF TypeInv, LocalParts
<1>5. /\ order \in [DOMAIN disks -> DOMAIN disks]
      /\ \A i, j \in DOMAIN disks : order[i] = order[j] => i = j
  BY <1>4, SortingOrdersAre
<1>6. /\ sorted \in Seq(Disk(platform)) /\ Len(sorted) = Len(disks)
      /\ DOMAIN sorted = DOMAIN disks
      /\ \A i \in DOMAIN disks : sorted[i] = disks[order[i]]
  <2>1. \A i \in 1..Len(disks) : disks[order[i]] \in Disk(platform)
    BY <1>4, <1>5
  <2>2. sorted = [i \in 1..Len(disks) |-> disks[order[i]]]
    BY <1>4
  <2> HIDE DEF disks
  <2> QED
    BY <1>4, <2>1, <2>2
<1> HIDE DEF sorted, disks
<1>7. LocalParts(facts)'
  BY <1>1, <1>3, <1>6 DEF TypeInv, LocalParts
<1>8. TypeInv'
  <2>1. codes' \subseteq LocalCodes
    BY <1>1, <1>2 DEF TypeInv, NetworkDomain, Code, LocalCodes
  <2> QED
    BY <1>1, <1>3, <1>7, <2>1, LocalStepTypes DEF LocalDomain
<1>9. UniquePaths(facts'.disks)
  <2>1. UniquePaths(disks)
    BY <1>1 DEF StorageInv, disks
  <2> QED
    BY <1>3, <1>5, <1>6, <2>1 DEF UniquePaths
<1>10. activity' = 0 => \A i \in DOMAIN facts'.disks :
         /\ facts'.disks[i].total = capacity[ContainerOf[facts'.disks[i].path]]
         /\ facts'.disks[i].free = free[ContainerOf[facts'.disks[i].path]]
  <2>1. activity = 0 => \A i \in DOMAIN disks :
          /\ disks[i].total = capacity[ContainerOf[disks[i].path]]
          /\ disks[i].free = free[ContainerOf[disks[i].path]]
    BY <1>1 DEF StorageInv, disks
  <2> QED
    BY <1>1, <1>3, <1>5, <1>6, <2>1
<1>11. /\ "disk-usage-failed" \notin codes' =>
            Len(facts'.disks) + Len(pending') = Len(facts'.mounted)
       /\ (facts'.devices = "unread" /\ platform \in {"macos", "windows"})
            => "storage-health-unavailable" \in codes'
  <2>1. codes \subseteq codes'
    BY <1>2
  <2>2. (devices = "unread" /\ platform \in {"macos", "windows"})
            => "storage-health-unavailable" \in codes'
    BY <1>2 DEF Code
  <2>3. "disk-usage-failed" \notin codes =>
            Len(disks) + Len(pending) = Len(facts.mounted)
    BY <1>1 DEF StorageInv, disks
  <2> QED
    BY <1>1, <1>3, <1>6, <2>1, <2>2, <2>3
<1>12. /\ pending' \in Seq(MountsOf(platform)) /\ DOMAIN pending' = {}
       /\ capacity' \in [Containers -> Nat] /\ free' \in [Containers -> Nat]
       /\ \A c \in Containers : free'[c] <= capacity'[c]
       /\ activity' \in Nat
  BY <1>1 DEF StorageInv
<1>13. platform = "linux" => facts'.devices = "none"
  BY <1>2, <1>3
<1>14. StorageInv'
  BY <1>1, <1>9, <1>10, <1>11, <1>12, <1>13 DEF StorageInv
<1> QED
  BY <1>1, <1>8, <1>14, OwnDomainSuffices

LEMMA EndedKeeps ==
  ASSUME CollectionInv, UNCHANGED vars
  PROVE  CollectionInv'
<1>1. /\ Unchanged /\ domain' = domain /\ platform' = platform /\ options' = options
      /\ steps' = steps /\ outcome' = outcome /\ facts' = facts /\ codes' = codes
      /\ pending' = pending /\ capacity' = capacity /\ free' = free /\ activity' = activity
  BY DEF vars, diskVars, Unchanged
<1>2. TypeInv'
  BY <1>1 DEF CollectionInv, TypeInv, NetworkFactsOK, LocalParts
<1>3. ConnectivityInv => ConnectivityInv'
  BY <1>1, PlanIsFixed DEF ConnectivityInv, Taken
<1>4. (NetworkInv => NetworkInv') /\ (DnsInv => DnsInv') /\ (ResourcesInv => ResourcesInv')
  BY <1>1 DEF NetworkInv, DnsInv, ResourcesInv
<1>5. (ServicesInv => ServicesInv') /\ (StorageInv => StorageInv')
  BY <1>1, PlanIsFixed DEF ServicesInv, StorageInv
<1> QED
  BY <1>1, <1>2, <1>3, <1>4, <1>5, OwnDomainSuffices DEF CollectionInv

\* The invariant of every collector of a run
THEOREM CollectionInvHolds == Spec => []CollectionInv
<1>1. CollectionInv /\ [Next]_vars => CollectionInv'
  BY NetworkStepsKeep, HostBasicsKeep, LoadAverageKeeps, MemoryAndBatteryKeep,
     ProcessSnapshotKeeps, LocalClockKeeps, ClockSkewKeeps, DiscoverKeeps, OtherProgramsKeep,
     MeasureVolumeKeeps, DeviceHealthKeeps, EndedKeeps DEF Next, LocalNext, Ended
<1> QED
  BY <1>1, InitCollection, PTL DEF Spec

\* Whatever the commands answer, the facts and the warnings of a collector
\* are those that its record is built for.
THEOREM TypeOKHolds == Spec => []TypeOK
<1>1. CollectionInv => TypeOK
  <2> SUFFICES ASSUME CollectionInv PROVE TypeOK
    OBVIOUS
  <2>1. TypeInv
    BY DEF CollectionInv
  <2>2. \A i \in DOMAIN facts.disks : facts.disks[i] \in Disk(platform)
    BY <2>1, LenProperties, ElementOfSeq DEF TypeInv, LocalParts
  <2>3. LocalFactsOK
    BY <2>1, <2>2 DEF TypeInv, LocalParts, LocalFactsOK, Disk
  <2> QED
    BY <2>1, <2>3 DEF TypeInv, TypeOK
<1> QED
  BY <1>1, CollectionInvHolds, PTL

\* Neither the percentages of a role nor its floor let a volume look better
\* with less free space than it has, for any capacity a container may have.
THEOREM LessFreeIsNotBetterHolds == Spec => []LessFreeIsNotBetter
<1>1. CollectionInv => LessFreeIsNotBetter
  <2> SUFFICES ASSUME CollectionInv, NEW i \in DOMAIN facts.disks, NEW f \in Frees,
                      f <= facts.disks[i].free
               PROVE  Severity(Level(facts.disks[i].total, f, facts.disks[i].role))
                        >= Severity(facts.disks[i].level)
    BY DEF LessFreeIsNotBetter
  <2> DEFINE d == facts.disks[i]
  <2>1. d \in Disk(platform)
    BY LenProperties, ElementOfSeq DEF CollectionInv, TypeInv, LocalParts
  <2>2. /\ d.role \in Roles /\ d.total \in Nat /\ d.free \in Nat
        /\ d.level = Level(d.total, d.free, d.role)
    BY <2>1 DEF Disk
  <2>3. f \in 0..d.free
    BY <2>2, CapacityAssumption
  <2> HIDE DEF d
  <2>4. Severity(Level(d.total, f, d.role)) >= Severity(d.level)
    BY <2>2, <2>3, LevelIsMonotone
  <2> QED
    BY <2>4 DEF d
<1> QED
  BY <1>1, CollectionInvHolds, PTL
-----------------------------------------------------------------------------
(* The labels of the progress page.                                         *)

\* One sequence after another, of labels or of probes
LEMMA SequencesInTurn ==
  ASSUME NEW first, NEW second, NEW m \in Nat, NEW n \in Nat,
         DOMAIN first = 1..m, DOMAIN second = 1..n,
         first = [i \in 1..m |-> first[i]], second = [i \in 1..n |-> second[i]]
  PROVE  /\ DOMAIN (first \o second) = 1..(m + n)
         /\ first \o second = [i \in 1..(m + n) |-> (first \o second)[i]]
         /\ \A i \in 1..m : (first \o second)[i] = first[i]
         /\ \A i \in 1..n : (first \o second)[m + i] = second[i]
<1> DEFINE S == {first[i] : i \in 1..m} \union {second[i] : i \in 1..n}
           both == first \o second
<1>1. first \in [1..m -> S] /\ second \in [1..n -> S]
  <2>1. \A i \in 1..m : first[i] \in S
    OBVIOUS
  <2>2. \A i \in 1..n : second[i] \in S
    OBVIOUS
  <2> HIDE DEF S
  <2> QED
    BY <2>1, <2>2
<1> HIDE DEF S
<1>2. first \in Seq(S) /\ second \in Seq(S) /\ Len(first) = m /\ Len(second) = n
  BY <1>1, SeqDef, LenProperties
<1>3. /\ both \in Seq(S) /\ Len(both) = m + n
      /\ \A i \in 1..(m + n) : both[i] = IF i <= m THEN first[i] ELSE second[i - m]
  BY <1>2, ConcatProperties
<1>4. both \in [1..(m + n) -> S]
  BY <1>3, LenProperties
<1> HIDE DEF both
<1>5. \A i \in 1..m : i \in 1..(m + n) /\ i <= m
  OBVIOUS
<1>6. \A i \in 1..n : m + i \in 1..(m + n) /\ ~(m + i <= m) /\ (m + i) - m = i
  OBVIOUS
<1>7. /\ \A i \in 1..m : both[i] = first[i]
      /\ \A i \in 1..n : both[m + i] = second[i]
  BY <1>3, <1>5, <1>6
<1>8. DOMAIN both = 1..(m + n) /\ both = [i \in 1..(m + n) |-> both[i]]
  BY <1>4
<1> QED
  BY <1>7, <1>8 DEF both

\* The labels of the connectivity domain: at a step of the TCP checks, the
\* pings or the traces, the one of the target whose turn it is
LEMMA ConnectivityLabelsAre ==
  ASSUME options \in Options
  PROVE  /\ \A i \in 1..N : ConnectivityLabels[i] = <<"tcp", options.targets[i].host>>
         /\ options.ping => \A i \in 1..N :
              ConnectivityLabels[N + i] = <<"ping", options.targets[i].host>>
         /\ options.trace => \A i \in 1..N :
              ConnectivityLabels[PingsEnd + i] = <<"trace", options.targets[i].host>>
<1> DEFINE Kind(k) == [i \in 1..N |-> <<k, options.targets[i].host>>]
           pings   == IF options.ping THEN Kind("ping") ELSE <<>>
           traces  == IF options.trace THEN Kind("trace") ELSE <<>>
           p       == IF options.ping THEN N ELSE 0
           t       == IF options.trace THEN N ELSE 0
           checks  == Kind("tcp") \o pings
<1>1. N \in Nat /\ p \in Nat /\ t \in Nat /\ N + p \in Nat /\ PingsEnd = N + p
  BY TargetsAre, ConnectivityStepsAre
<1>2. ConnectivityLabels = checks \o traces
  BY DEF ConnectivityLabels
<1>3. /\ DOMAIN Kind("tcp") = 1..N /\ Kind("tcp") = [i \in 1..N |-> Kind("tcp")[i]]
      /\ DOMAIN pings = 1..p /\ pings = [i \in 1..p |-> pings[i]]
      /\ DOMAIN traces = 1..t /\ traces = [i \in 1..t |-> traces[i]]
  <2>1. DOMAIN <<>> = 1..0 /\ <<>> = [i \in 1..0 |-> <<>>[i]]
    OBVIOUS
  <2> QED
    BY <2>1
<1>4. /\ \A i \in 1..N : Kind("tcp")[i] = <<"tcp", options.targets[i].host>>
      /\ options.ping => \A i \in 1..N : pings[i] = <<"ping", options.targets[i].host>>
      /\ options.trace => \A i \in 1..N : traces[i] = <<"trace", options.targets[i].host>>
  OBVIOUS
<1>5. (options.ping => p = N) /\ (options.trace => t = N)
  OBVIOUS
<1> HIDE DEF Kind, pings, traces, p, t
<1>6. /\ DOMAIN checks = 1..(N + p) /\ checks = [i \in 1..(N + p) |-> checks[i]]
      /\ \A i \in 1..N : checks[i] = Kind("tcp")[i]
      /\ \A i \in 1..p : checks[N + i] = pings[i]
  BY <1>1, <1>3, SequencesInTurn
<1> HIDE DEF checks
<1>7. /\ \A i \in 1..(N + p) : (checks \o traces)[i] = checks[i]
      /\ \A i \in 1..t : (checks \o traces)[(N + p) + i] = traces[i]
  <2> DEFINE m == N + p
  <2>1. /\ m \in Nat /\ DOMAIN checks = 1..m /\ checks = [i \in 1..m |-> checks[i]]
        /\ DOMAIN traces = 1..t /\ traces = [i \in 1..t |-> traces[i]]
    BY <1>1, <1>3, <1>6
  <2> HIDE DEF m
  <2>2. /\ \A i \in 1..m : (checks \o traces)[i] = checks[i]
        /\ \A i \in 1..t : (checks \o traces)[m + i] = traces[i]
    BY <1>1, <2>1, SequencesInTurn
  <2> QED
    BY <2>2 DEF m
<1>8. \A i \in 1..N : ConnectivityLabels[i] = <<"tcp", options.targets[i].host>>
  <2> TAKE i \in 1..N
  <2>1. i \in 1..(N + p)
    BY <1>1
  <2> QED
    BY <1>2, <1>4, <1>6, <1>7, <2>1
<1>9. ASSUME options.ping, NEW i \in 1..N
      PROVE  ConnectivityLabels[N + i] = <<"ping", options.targets[i].host>>
  <2>1. i \in 1..p /\ N + i \in 1..(N + p)
    BY <1>1, <1>5, <1>9
  <2> QED
    BY <1>2, <1>4, <1>6, <1>7, <1>9, <2>1
<1>10. ASSUME options.trace, NEW i \in 1..N
       PROVE  ConnectivityLabels[PingsEnd + i] = <<"trace", options.targets[i].host>>
  <2>1. i \in 1..t
    BY <1>5, <1>10
  <2> QED
    BY <1>1, <1>2, <1>4, <1>7, <1>10, <2>1
<1> QED
  BY <1>8, <1>9, <1>10

LEMMA DnsLabelsAre ==
  ASSUME options \in Options, domain = "dns", NEW i \in 1..Len(options.hosts)
  PROVE  NetworkStepLabels[1 + i] = <<"resolve", options.hosts[i]>>
<1> DEFINE n       == Len(options.hosts)
           first   == <<<<"resolvers", "">>>>
           lookups == [k \in DOMAIN options.hosts |-> <<"resolve", options.hosts[k]>>]
<1>1. n \in Nat /\ DOMAIN options.hosts = 1..n
  BY HostsAre
<1>2. NetworkStepLabels = first \o lookups
  BY DEF NetworkStepLabels
<1>3. DOMAIN first = 1..1 /\ first = [k \in 1..1 |-> first[k]]
  OBVIOUS
<1>4. DOMAIN lookups = 1..n /\ lookups = [k \in 1..n |-> lookups[k]]
  BY <1>1
<1>5. lookups[i] = <<"resolve", options.hosts[i]>> /\ i \in 1..n
  BY <1>1
<1> HIDE DEF first, lookups, n
<1>6. \A k \in 1..n : (first \o lookups)[1 + k] = lookups[k]
  BY <1>1, <1>3, <1>4, SequencesInTurn
<1> QED
  BY <1>2, <1>5, <1>6

\* The label the progress page shows as the next step names the check that
\* the collector makes next, for every list of targets and names.
THEOREM NextLabelIsTheNextCheckHolds == Spec => []NextLabelIsTheNextCheck
<1>1. CollectionInv => NextLabelIsTheNextCheck
  <2> SUFFICES ASSUME CollectionInv, outcome = "running" PROVE NextLabelIsTheNextCheck
    BY DEF NextLabelIsTheNextCheck
  <2>1. options \in Options /\ steps \in Nat /\ N \in Nat /\ PingsEnd \in Nat
        /\ N <= PingsEnd
    BY TargetsAre, ConnectivityStepsAre DEF CollectionInv, TypeInv
  <2>2. ASSUME domain = "dns", steps > 0
        PROVE  NextStepLabel(steps) = <<"resolve", options.hosts[steps]>>
    <3>1. steps \in 1..Len(options.hosts)
      BY <2>1, <2>2, HostsAre DEF CollectionInv, DnsInv
    <3>2. steps + 1 = 1 + steps
      BY <2>1
    <3> QED
      BY <2>1, <2>2, <3>1, <3>2, DnsLabelsAre DEF NextStepLabel
  <2>3. domain = "connectivity" => NetworkStepLabels = ConnectivityLabels
    BY DEF NetworkStepLabels
  <2>4. ASSUME domain = "connectivity", steps < N
        PROVE  NextStepLabel(steps) = <<"tcp", options.targets[steps + 1].host>>
    <3>1. steps + 1 \in 1..N
      BY <2>1, <2>4
    <3> QED
      BY <2>1, <2>3, <2>4, <3>1, ConnectivityLabelsAre DEF NextStepLabel
  <2>5. domain = "connectivity" => steps < ConnectivitySteps
    BY DEF CollectionInv, ConnectivityInv
  <2>6. ASSUME domain = "connectivity", steps \in N..(PingsEnd - 1)
        PROVE  NextStepLabel(steps) = <<"ping", options.targets[steps - N + 1].host>>
    <3>1. options.ping /\ steps - N + 1 \in 1..N
      BY <2>1, <2>6, ConnectivityStepsAre
    <3>2. N + (steps - N + 1) = steps + 1
      BY <2>1
    <3> QED
      BY <2>1, <2>3, <2>6, <3>1, <3>2, ConnectivityLabelsAre DEF NextStepLabel
  <2>7. ASSUME domain = "connectivity", steps >= PingsEnd
        PROVE  NextStepLabel(steps) = <<"trace", options.targets[steps - PingsEnd + 1].host>>
    <3>1. options.trace /\ steps - PingsEnd + 1 \in 1..N
      BY <2>1, <2>5, <2>7, ConnectivityStepsAre
    <3>2. PingsEnd + (steps - PingsEnd + 1) = steps + 1
      BY <2>1
    <3> QED
      BY <2>1, <2>3, <2>7, <3>1, <3>2, ConnectivityLabelsAre DEF NextStepLabel
  <2>8. ASSUME domain = "services"
        PROVE  NextStepLabel(steps) = <<"service", options.targets[steps + 1].host>>
    <3>1. steps + 1 \in 1..N
      BY <2>1, <2>8 DEF CollectionInv, ServicesInv
    <3>2. NetworkStepLabels = [i \in 1..N |-> <<"service", options.targets[i].host>>]
      BY <2>8 DEF NetworkStepLabels
    <3> QED
      BY <3>1, <3>2 DEF NextStepLabel
  <2> QED
    BY <2>1, <2>2, <2>4, <2>6, <2>7, <2>8 DEF NextLabelIsTheNextCheck
<1> QED
  BY <1>1, CollectionInvHolds, PTL
-----------------------------------------------------------------------------
(* The status of a record.                                                  *)

\* An aggregated status of passed or failed is that of every probe that ran.
LEMMA Unanimous ==
  ASSUME NEW probes
  PROVE  /\ Aggregate(StatusesOf(probes)) = "passed" =>
              \A i \in DOMAIN probes : probes[i].status \in {"passed", "skipped", "not_run"}
         /\ Aggregate(StatusesOf(probes)) = "failed" =>
              \A i \in DOMAIN probes : probes[i].status \in {"failed", "skipped", "not_run"}
<1> DEFINE ran == Ran(StatusesOf(probes))
<1>1. /\ Aggregate(StatusesOf(probes)) = "passed" => ran = {"passed"}
      /\ Aggregate(StatusesOf(probes)) = "failed" => ran = {"failed"}
  <2> HIDE DEF ran
  <2> QED
    BY DEF Aggregate, ran
<1>2. \A i \in DOMAIN probes : probes[i].status \in ran \union {"skipped", "not_run"}
  BY DEF Ran, StatusesOf
<1> HIDE DEF ran
<1> QED
  BY <1>1, <1>2

\* A set of places has a least one.
LEMMA LeastPlace ==
  ASSUME NEW S \in SUBSET Nat, S # {}
  PROVE  \E least \in S : \A k \in S : least <= k
<1>1. PICK least \in S : \A k \in S : ~(<<k, least>> \in OpToRel(<, Nat))
  BY NatLessThanWellFounded, WFMin
<1>2. \A k \in S : k \in Nat /\ least \in Nat /\ ~(k < least)
  BY <1>1 DEF OpToRel
<1>3. \A k \in S : least <= k
  BY <1>2
<1> QED
  BY <1>3

\* The first target on a host comes before every other one on it.
LEMMA FirstOnHostIs ==
  ASSUME options \in Options, NEW i \in 1..N
  PROVE  /\ FirstOnHost(i) \in 1..N
         /\ options.targets[FirstOnHost(i)].host = options.targets[i].host
         /\ \A k \in 1..N : options.targets[k].host = options.targets[i].host
                              => FirstOnHost(i) <= k
<1> DEFINE sharing   == {k \in 1..N : options.targets[k].host = options.targets[i].host}
           First(j) == /\ options.targets[j].host = options.targets[i].host
                       /\ \A k \in 1..(j - 1) :
                            options.targets[k].host # options.targets[i].host
<1>1. N \in Nat /\ i \in sharing /\ sharing \in SUBSET Nat
  BY TargetsAre
<1>2. PICK least \in sharing : \A k \in sharing : least <= k
  BY <1>1, LeastPlace
<1>3. least \in 1..N /\ First(least)
  BY <1>1, <1>2
<1>4. FirstOnHost(i) \in 1..N /\ First(FirstOnHost(i))
  BY <1>3 DEF FirstOnHost
<1>5. ASSUME NEW k \in 1..N, options.targets[k].host = options.targets[i].host
      PROVE  FirstOnHost(i) <= k
  <2>1. ~(k \in 1..(FirstOnHost(i) - 1))
    BY <1>4, <1>5
  <2> QED
    BY <1>1, <1>4, <2>1
<1> QED
  BY <1>4, <1>5

\* The result that is found for a host is the first one.
LEMMA FirstForIs ==
  ASSUME NEW results, NEW host, Len(results) \in Nat, NEW i \in 1..Len(results),
         results[i].host = host,
         \A j \in 1..Len(results) : results[j].host = host => i <= j
  PROVE  FirstFor(results, host) = results[i]
<1> DEFINE found == {j \in 1..Len(results) : results[j].host = host}
<1>1. i \in found /\ \A j \in found : i <= j /\ j \in Nat
  OBVIOUS
<1> HIDE DEF found
<1>2. Min(found) = i
  <2>1. \A x \in found : (\A y \in found : x <= y) => x = i
    BY <1>1
  <2> QED
    BY <1>1, <2>1 DEF Min
<1>3. found # {} /\ SelectInSeq(results, LAMBDA r : r.host = host) = Min(found)
  BY <1>1 DEF found, SelectInSeq
<1> QED
  BY <1>2, <1>3 DEF FirstFor

\* Where the answers of a target are shown in the connectivity record
LEMMA ConnectivityProbesAre ==
  ASSUME options \in Options, NEW i \in 1..N
  PROVE  /\ DOMAIN ConnectivityProbes = 1..3 * N
         /\ i \in 1..3 * N /\ N + 2 * i - 1 \in 1..3 * N /\ N + 2 * i \in 1..3 * N
         /\ ConnectivityProbes[i] = TcpProbe(facts.tcp[i])
         /\ ConnectivityProbes[N + 2 * i - 1] = PingProbe(options.targets[i])
         /\ ConnectivityProbes[N + 2 * i] = TraceProbe(options.targets[i])
<1>1. N \in Nat
  BY TargetsAre
<1> DEFINE n == N
<1>2. n \in Nat /\ i \in 1..n
  BY <1>1
<1> HIDE DEF n
<1>3. /\ i \in 1..3 * n /\ n + 2 * i - 1 \in 1..3 * n /\ n + 2 * i \in 1..3 * n
      /\ ~(n + 2 * i - 1 <= n) /\ ~(n + 2 * i <= n)
  BY <1>2
<1>4. /\ (n + 2 * i - 1) - n = 2 * i - 1 /\ (n + 2 * i) - n = 2 * i
      /\ (n + 2 * i - 1) - n + 1 = 2 * i /\ (n + 2 * i) - n + 1 = 2 * i + 1
  BY <1>2
<1>5. /\ (2 * i - 1) % 2 = 1 /\ (2 * i) % 2 # 1
      /\ (2 * i) \div 2 = i /\ (2 * i + 1) \div 2 = i
  BY <1>2
<1>6. ConnectivityProbes =
        [k \in 1..3 * n |->
           IF k <= n THEN TcpProbe(facts.tcp[k])
           ELSE IF (k - n) % 2 = 1 THEN PingProbe(options.targets[(k - n + 1) \div 2])
                ELSE TraceProbe(options.targets[(k - n + 1) \div 2])]
  BY DEF ConnectivityProbes, n
<1>7. ConnectivityProbes[n + 2 * i - 1] = PingProbe(options.targets[i])
  BY <1>3, <1>4, <1>5, <1>6
<1>8. ConnectivityProbes[n + 2 * i] = TraceProbe(options.targets[i])
  BY <1>3, <1>4, <1>5, <1>6
<1>9. ConnectivityProbes[i] = TcpProbe(facts.tcp[i]) /\ DOMAIN ConnectivityProbes = 1..3 * n
  BY <1>2, <1>3, <1>6
<1> QED
  BY <1>3, <1>7, <1>8, <1>9 DEF n

\* A finished connectivity collector has made every check that was asked for,
\* in the order of the targets; the ping and the trace it finds for a target
\* are those of the first target on its host.
LEMMA ConnectivityAnswers ==
  ASSUME CollectionInv, Done, domain = "connectivity"
  PROVE  /\ DOMAIN facts.tcp = 1..N
         /\ \A i \in 1..N : facts.tcp[i].target = options.targets[i]
         /\ options.ping =>
              /\ DOMAIN facts.ping = 1..N
              /\ \A i \in 1..N :
                   FirstFor(facts.ping, options.targets[i].host) = facts.ping[FirstOnHost(i)]
         /\ options.trace =>
              /\ DOMAIN facts.trace = 1..N
              /\ \A i \in 1..N :
                   FirstFor(facts.trace, options.targets[i].host) = facts.trace[FirstOnHost(i)]
         /\ ~options.ping => DOMAIN facts.ping = {}
         /\ ~options.trace => DOMAIN facts.trace = {}
<1>1. options \in Options /\ NetworkFactsOK /\ ConnectivityInv /\ steps = ConnectivitySteps
  BY DEF CollectionInv, TypeInv, ConnectivityInv, Done
<1>2. /\ N \in Nat /\ N >= 1 /\ PingsEnd = (IF options.ping THEN N + N ELSE N)
      /\ ConnectivitySteps = (IF options.trace THEN PingsEnd + N ELSE PingsEnd)
      /\ PingsEnd \in Nat
  BY <1>1, TargetsAre, ConnectivityStepsAre
<1>3. /\ Taken(0) = N /\ (options.ping => Taken(N) = N)
      /\ (options.trace => Taken(PingsEnd) = N)
  BY <1>1, <1>2 DEF Taken
<1>4. /\ DOMAIN facts.tcp = 1..Len(facts.tcp) /\ DOMAIN facts.ping = 1..Len(facts.ping)
      /\ DOMAIN facts.trace = 1..Len(facts.trace)
  BY <1>1, LenProperties DEF NetworkFactsOK
<1>5. /\ Len(facts.tcp) = N
      /\ Len(facts.ping) = IF options.ping THEN N ELSE 0
      /\ Len(facts.trace) = IF options.trace THEN N ELSE 0
  BY <1>1, <1>3 DEF ConnectivityInv
<1>6. ASSUME options.ping, NEW i \in 1..N
      PROVE  FirstFor(facts.ping, options.targets[i].host) = facts.ping[FirstOnHost(i)]
  <2>1. \A j \in 1..N : facts.ping[j].host = options.targets[j].host
    BY <1>1, <1>5, <1>6 DEF ConnectivityInv
  <2>2. /\ FirstOnHost(i) \in 1..N
        /\ options.targets[FirstOnHost(i)].host = options.targets[i].host
        /\ \A j \in 1..N : options.targets[j].host = options.targets[i].host
                             => FirstOnHost(i) <= j
    BY <1>1, FirstOnHostIs
  <2>3. /\ Len(facts.ping) = N
        /\ facts.ping[FirstOnHost(i)].host = options.targets[i].host
        /\ \A j \in 1..N : facts.ping[j].host = options.targets[i].host => FirstOnHost(i) <= j
    BY <1>5, <1>6, <2>1, <2>2
  <2> QED
    BY <1>2, <2>2, <2>3, FirstForIs
<1>7. ASSUME options.trace, NEW i \in 1..N
      PROVE  FirstFor(facts.trace, options.targets[i].host) = facts.trace[FirstOnHost(i)]
  <2>1. \A j \in 1..N : facts.trace[j].host = options.targets[j].host
    BY <1>1, <1>5, <1>7 DEF ConnectivityInv
  <2>2. /\ FirstOnHost(i) \in 1..N
        /\ options.targets[FirstOnHost(i)].host = options.targets[i].host
        /\ \A j \in 1..N : options.targets[j].host = options.targets[i].host
                             => FirstOnHost(i) <= j
    BY <1>1, FirstOnHostIs
  <2>3. /\ Len(facts.trace) = N
        /\ facts.trace[FirstOnHost(i)].host = options.targets[i].host
        /\ \A j \in 1..N : facts.trace[j].host = options.targets[i].host => FirstOnHost(i) <= j
    BY <1>5, <1>7, <2>1, <2>2
  <2> QED
    BY <1>2, <2>2, <2>3, FirstForIs
<1>8. \A i \in 1..N : facts.tcp[i].target = options.targets[i]
  BY <1>1, <1>5 DEF ConnectivityInv
<1> QED
  BY <1>4, <1>5, <1>6, <1>7, <1>8

\* The parts of a probe, and the records of one, two and three of them
LEMMA StatusOfProbe ==
  ASSUME NEW kind, NEW target, NEW status
  PROVE  Probe(kind, target, status).status = status
BY DEF Probe

LEMMA OneProbe ==
  ASSUME NEW p
  PROVE  1 \in DOMAIN <<p>> /\ <<p>>[1] = p
OBVIOUS

LEMMA TwoProbes ==
  ASSUME NEW p, NEW q
  PROVE  /\ 1 \in DOMAIN <<p, q>> /\ <<p, q>>[1] = p
         /\ 2 \in DOMAIN <<p, q>> /\ <<p, q>>[2] = q
OBVIOUS

LEMMA ThreeProbes ==
  ASSUME NEW p, NEW q, NEW r
  PROVE  /\ 1 \in DOMAIN <<p, q, r>> /\ <<p, q, r>>[1] = p
         /\ 2 \in DOMAIN <<p, q, r>> /\ <<p, q, r>>[2] = q
         /\ 3 \in DOMAIN <<p, q, r>> /\ <<p, q, r>>[3] = r
OBVIOUS

\* The probes of a finished connectivity collector under each target
LEMMA ConnectivityShown ==
  ASSUME CollectionInv, Done, domain = "connectivity", NEW i \in 1..N
  PROVE  /\ i \in DOMAIN ConnectivityProbes
         /\ ConnectivityProbes[i]
              = Probe("tcp", options.targets[i], Outcome(facts.tcp[i].success))
         /\ options.ping =>
              /\ N + 2 * i - 1 \in DOMAIN ConnectivityProbes
              /\ ConnectivityProbes[N + 2 * i - 1]
                   = Probe("ping", options.targets[i], PingStatus(facts.ping[FirstOnHost(i)].answer))
         /\ options.trace =>
              /\ N + 2 * i \in DOMAIN ConnectivityProbes
              /\ ConnectivityProbes[N + 2 * i]
                   = Probe("trace", options.targets[i], TraceStatus(facts.trace[FirstOnHost(i)].answer))
<1>1. options \in Options
  BY DEF CollectionInv, TypeInv
<1>2. /\ DOMAIN ConnectivityProbes = 1..3 * N
      /\ i \in 1..3 * N /\ N + 2 * i - 1 \in 1..3 * N /\ N + 2 * i \in 1..3 * N
      /\ ConnectivityProbes[i] = TcpProbe(facts.tcp[i])
      /\ ConnectivityProbes[N + 2 * i - 1] = PingProbe(options.targets[i])
      /\ ConnectivityProbes[N + 2 * i] = TraceProbe(options.targets[i])
  BY <1>1, ConnectivityProbesAre
<1>3. facts.tcp[i].target = options.targets[i]
  BY ConnectivityAnswers
<1>4. options.ping
        => FirstFor(facts.ping, options.targets[i].host) = facts.ping[FirstOnHost(i)]
  BY ConnectivityAnswers
<1>5. options.trace
        => FirstFor(facts.trace, options.targets[i].host) = facts.trace[FirstOnHost(i)]
  BY ConnectivityAnswers
<1>6. ConnectivityProbes[i] = Probe("tcp", options.targets[i], Outcome(facts.tcp[i].success))
  BY <1>2, <1>3 DEF TcpProbe
<1>7. options.ping
        => PingProbe(options.targets[i])
             = Probe("ping", options.targets[i], PingStatus(facts.ping[FirstOnHost(i)].answer))
  BY <1>4 DEF PingProbe
<1>8. options.trace
        => TraceProbe(options.targets[i])
             = Probe("trace", options.targets[i], TraceStatus(facts.trace[FirstOnHost(i)].answer))
  BY <1>5 DEF TraceProbe
<1> QED
  BY <1>2, <1>6, <1>7, <1>8

LEMMA DnsProbesAre ==
  ASSUME CollectionInv
  PROVE  /\ DOMAIN facts.dns = 1..Len(facts.dns)
         /\ 1 \in DOMAIN DnsProbes
         /\ DnsProbes[1] = Probe("resolver-inventory", "",
                                 IF facts.resolvers THEN "passed" ELSE "partial")
         /\ \A i \in DOMAIN facts.dns :
              /\ 1 + i \in DOMAIN DnsProbes
              /\ DnsProbes[1 + i] = Probe("dns", facts.dns[i].target, DnsStatus(facts.dns[i].answer))
<1> DEFINE n       == Len(facts.dns)
           first   == <<Probe("resolver-inventory", "",
                              IF facts.resolvers THEN "passed" ELSE "partial")>>
           lookups == [i \in DOMAIN facts.dns |->
                         Probe("dns", facts.dns[i].target, DnsStatus(facts.dns[i].answer))]
<1>1. n \in Nat /\ DOMAIN facts.dns = 1..n
  BY LenProperties DEF CollectionInv, TypeInv, NetworkFactsOK
<1>2. DnsProbes = first \o lookups
  BY DEF DnsProbes
<1>3. /\ DOMAIN first = 1..1 /\ first = [k \in 1..1 |-> first[k]]
      /\ first[1] = Probe("resolver-inventory", "",
                          IF facts.resolvers THEN "passed" ELSE "partial")
  OBVIOUS
<1>4. /\ DOMAIN lookups = 1..n /\ lookups = [k \in 1..n |-> lookups[k]]
      /\ \A i \in 1..n :
           lookups[i] = Probe("dns", facts.dns[i].target, DnsStatus(facts.dns[i].answer))
  BY <1>1
<1> HIDE DEF first, lookups, n
<1>5. /\ DOMAIN (first \o lookups) = 1..(1 + n)
      /\ \A k \in 1..1 : (first \o lookups)[k] = first[k]
      /\ \A k \in 1..n : (first \o lookups)[1 + k] = lookups[k]
  <2> DEFINE m == 1
  <2>1. m \in Nat /\ DOMAIN first = 1..m /\ first = [k \in 1..m |-> first[k]]
    BY <1>3
  <2> HIDE DEF m
  <2>2. /\ DOMAIN (first \o lookups) = 1..(m + n)
        /\ \A k \in 1..m : (first \o lookups)[k] = first[k]
        /\ \A k \in 1..n : (first \o lookups)[m + k] = lookups[k]
    BY <1>1, <1>4, <2>1, SequencesInTurn
  <2> QED
    BY <2>2 DEF m
<1>6. 1 \in 1..(1 + n) /\ 1 \in 1..1 /\ \A i \in 1..n : 1 + i \in 1..(1 + n)
  BY <1>1
<1> QED
  BY <1>1, <1>2, <1>3, <1>4, <1>5, <1>6 DEF n

\* What a network domain shown as passed or failed has seen
LEMMA NetworkStatusMeans ==
  ASSUME CollectionInv, Done, domain \in NetworkDomain
  PROVE  /\ NetworkSideStatus = "passed" => NetworkWorked
         /\ NetworkSideStatus = "failed" => ~SomeNetworkWorked
<1> DEFINE verdict  == Aggregate(StatusesOf(NetworkSideProbes))
           Statuses(named) == \A i \in DOMAIN NetworkSideProbes :
             NetworkSideProbes[i].status \in {named, "skipped", "not_run"}
<1>1. /\ NetworkSideStatus = "passed" => verdict = "passed"
      /\ NetworkSideStatus = "failed" => verdict = "failed"
      /\ (NetworkSideStatus \in {"passed", "failed"} /\ domain = "connectivity")
           => "trace-target-resolution-timeout" \notin codes
  <2> HIDE DEF verdict
  <2> QED
    BY DEF NetworkSideStatus, verdict
<1>2. /\ NetworkSideStatus = "passed" => Statuses("passed")
      /\ NetworkSideStatus = "failed" => Statuses("failed")
  BY <1>1, Unanimous
<1> HIDE DEF verdict
<1>3. CASE domain = "network"
  <2>1. NetworkSideProbes = NetworkProbes
    BY <1>3 DEF NetworkSideProbes
  <2>2. /\ 1 \in DOMAIN NetworkProbes /\ 2 \in DOMAIN NetworkProbes
        /\ NetworkProbes[1].status = StatusFromCollection(facts.interfaces, InterfaceCodes)
        /\ NetworkProbes[2].status = IF "arp-command-failed" \in codes THEN "partial"
                                     ELSE "passed"
    <3> DEFINE none == ""
    <3>1. PICK seen, arp :
            /\ seen = StatusFromCollection(facts.interfaces, InterfaceCodes)
            /\ arp = IF "arp-command-failed" \in codes THEN "partial" ELSE "passed"
      OBVIOUS
    <3>2. NetworkProbes = <<Probe("interface-inventory", none, seen),
                            Probe("arp-neighbor-cache", none, arp)>>
      BY <3>1 DEF NetworkProbes, none
    <3> HIDE DEF none
    <3>3. NetworkProbes[1].status = seen /\ NetworkProbes[2].status = arp
          /\ 1 \in DOMAIN NetworkProbes /\ 2 \in DOMAIN NetworkProbes
      BY <3>2, TwoProbes, StatusOfProbe
    <3> QED
      BY <3>1, <3>3
  <2>3. NetworkSideStatus # "failed"
    BY <1>2, <2>1, <2>2
  <2>4. ASSUME NetworkSideStatus = "passed" PROVE facts.interfaces /\ codes = {}
    <3>1. StatusFromCollection(facts.interfaces, InterfaceCodes)
             \in {"passed", "skipped", "not_run"} /\ "arp-command-failed" \notin codes
      BY <1>2, <2>1, <2>2, <2>4
    <3>2. facts.interfaces /\ InterfaceCodes = {}
      BY <3>1 DEF StatusFromCollection
    <3> QED
      BY <1>3, <3>1, <3>2 DEF InterfaceCodes, CollectionInv, NetworkInv
  <2> QED
    BY <1>3, <2>3, <2>4 DEF NetworkWorked
<1>4. CASE domain = "routing"
  <2>1. NetworkSideProbes = RoutingProbes
    BY <1>4 DEF NetworkSideProbes
  <2>2. /\ 1 \in DOMAIN RoutingProbes
        /\ RoutingProbes[1].status
             = IF "route-data-warning" \in codes /\ RouteStatus = "passed" THEN "partial"
               ELSE RouteStatus
    <3> DEFINE none == ""
    <3>1. PICK seen :
            seen = IF "route-data-warning" \in codes /\ RouteStatus = "passed" THEN "partial"
                   ELSE RouteStatus
      OBVIOUS
    <3>2. RoutingProbes = <<Probe("route-inventory", none, seen)>>
      BY <3>1 DEF RoutingProbes, none
    <3> HIDE DEF none
    <3>3. 1 \in DOMAIN RoutingProbes /\ RoutingProbes[1].status = seen
      BY <3>2, OneProbe, StatusOfProbe
    <3> QED
      BY <3>1, <3>3
  <2>3. /\ NetworkSideStatus = "passed" => RouteStatus \in {"passed", "skipped", "not_run"}
        /\ NetworkSideStatus = "failed" => RouteStatus \in {"failed", "skipped", "not_run"}
    BY <1>2, <2>1, <2>2
  <2>4. /\ RouteStatus \in {"passed", "skipped", "not_run"} => facts.routes /\ codes = {}
        /\ RouteStatus \in {"failed", "skipped", "not_run"} => ~facts.routes
    BY DEF RouteStatus, StatusFromCollection
  <2> QED
    BY <1>4, <2>3, <2>4 DEF NetworkWorked, SomeNetworkWorked
<1>5. CASE domain = "dns"
  <2>1. NetworkSideProbes = DnsProbes
    BY <1>5 DEF NetworkSideProbes
  <2>2. /\ DnsProbes[1].status = (IF facts.resolvers THEN "passed" ELSE "partial")
        /\ 1 \in DOMAIN DnsProbes
        /\ \A i \in DOMAIN facts.dns :
             /\ 1 + i \in DOMAIN DnsProbes
             /\ DnsProbes[1 + i].status = DnsStatus(facts.dns[i].answer)
    <3> DEFINE none == ""
    <3>1. PICK seen : seen = IF facts.resolvers THEN "passed" ELSE "partial"
      OBVIOUS
    <3>2. DnsProbes[1] = Probe("resolver-inventory", none, seen)
      BY <3>1, DnsProbesAre
    <3> HIDE DEF none
    <3>3. DnsProbes[1].status = seen
      BY <3>2, StatusOfProbe
    <3>4. ASSUME NEW i \in DOMAIN facts.dns
          PROVE  1 + i \in DOMAIN DnsProbes
                 /\ DnsProbes[1 + i].status = DnsStatus(facts.dns[i].answer)
      <4>1. /\ 1 + i \in DOMAIN DnsProbes
            /\ DnsProbes[1 + i] = Probe("dns", facts.dns[i].target, DnsStatus(facts.dns[i].answer))
        BY DnsProbesAre
      <4> QED
        BY <4>1, StatusOfProbe
    <3> QED
      BY <3>1, <3>3, <3>4, DnsProbesAre
  <2>3. NetworkSideStatus # "failed"
    BY <1>2, <2>1, <2>2
  <2>4. ASSUME NetworkSideStatus = "passed"
        PROVE  facts.resolvers /\ \A i \in DOMAIN facts.dns : facts.dns[i].answer = "resolved"
    <3>1. facts.resolvers /\ \A i \in DOMAIN facts.dns :
             DnsStatus(facts.dns[i].answer) \in {"passed", "skipped", "not_run"}
      BY <1>2, <2>1, <2>2, <2>4
    <3> QED
      BY <3>1 DEF DnsStatus
  <2> QED
    BY <1>5, <2>3, <2>4 DEF NetworkWorked
<1>6. CASE domain = "connectivity"
  <2>1. NetworkSideProbes = ConnectivityProbes
    BY <1>6 DEF NetworkSideProbes
  <2>2. /\ DOMAIN facts.tcp = 1..N
        /\ DOMAIN facts.ping = IF options.ping THEN 1..N ELSE {}
        /\ DOMAIN facts.trace = IF options.trace THEN 1..N ELSE {}
    BY <1>6, ConnectivityAnswers
  <2>3. ASSUME NEW named, Statuses(named), NEW i \in 1..N
        PROVE  /\ Outcome(facts.tcp[i].success) \in {named, "skipped", "not_run"}
               /\ options.ping =>
                    PingStatus(facts.ping[FirstOnHost(i)].answer) \in {named, "skipped", "not_run"}
               /\ options.trace =>
                    TraceStatus(facts.trace[FirstOnHost(i)].answer) \in {named, "skipped", "not_run"}
    BY <1>6, <2>1, <2>3, ConnectivityShown, StatusOfProbe
  <2>4. ASSUME NetworkSideStatus = "passed" PROVE NetworkWorked
    <3>1. Statuses("passed")
      BY <1>2, <2>4
    <3>2. \A i \in 1..N : facts.tcp[i].success
      BY <2>3, <3>1 DEF Outcome
    <3>3. options.ping => \A i \in 1..N : facts.ping[FirstOnHost(i)].answer = "answered"
      BY <2>3, <3>1 DEF Outcome, PingStatus
    <3>4. options.trace => \A i \in 1..N : facts.trace[FirstOnHost(i)].answer = "reached"
      BY <2>3, <3>1 DEF Outcome, TraceStatus
    <3>5. \A i \in DOMAIN facts.trace : facts.trace[i].lookup # "timeout"
      <4>1. DOMAIN facts.trace = 1..Len(facts.trace)
        BY LenProperties DEF CollectionInv, TypeInv, NetworkFactsOK
      <4> QED
        BY <1>1, <1>6, <2>4, <4>1 DEF CollectionInv, ConnectivityInv
    <3> QED
      BY <1>6, <2>2, <3>2, <3>3, <3>4, <3>5 DEF NetworkWorked
  <2>5. ASSUME NetworkSideStatus = "failed" PROVE ~SomeNetworkWorked
    <3>1. Statuses("failed")
      BY <1>2, <2>5
    <3>2. \A i \in 1..N : ~facts.tcp[i].success
      BY <2>3, <3>1 DEF Outcome
    <3>3. options.ping => \A i \in 1..N : facts.ping[FirstOnHost(i)].answer # "answered"
      BY <2>3, <3>1 DEF Outcome, PingStatus
    <3>4. options.trace =>
             \A i \in 1..N : facts.trace[FirstOnHost(i)].answer \notin {"reached", "stopped"}
      BY <2>3, <3>1 DEF Outcome, TraceStatus
    <3> QED
      BY <1>6, <2>2, <3>2, <3>3, <3>4 DEF SomeNetworkWorked
  <2> QED
    BY <2>4, <2>5
<1>7. CASE domain = "services"
  <2>1. NetworkSideProbes = ServiceProbes
    BY <1>7 DEF NetworkSideProbes
  <2>2. /\ DOMAIN ServiceProbes = DOMAIN facts.services
        /\ \A i \in DOMAIN facts.services :
             ServiceProbes[i].status = Outcome(facts.services[i].success)
    BY DEF ServiceProbes, Probe
  <2> QED
    BY <1>2, <1>7, <2>1, <2>2 DEF NetworkWorked, SomeNetworkWorked, Outcome
<1>8. CASE domain = "vpn"
  <2>1. NetworkSideProbes = VpnProbes
    BY <1>8 DEF NetworkSideProbes
  <2>2. /\ 1 \in DOMAIN VpnProbes
        /\ VpnProbes[1].status = IF options.selected = {"network", "routing"} THEN "passed"
                                 ELSE "partial"
    <3> DEFINE none == ""
    <3>1. PICK seen :
            seen = IF options.selected = {"network", "routing"} THEN "passed" ELSE "partial"
      OBVIOUS
    <3>2. VpnProbes = <<Probe("vpn-heuristics", none, seen)>>
      BY <3>1 DEF VpnProbes, none
    <3> HIDE DEF none
    <3>3. 1 \in DOMAIN VpnProbes /\ VpnProbes[1].status = seen
      BY <3>2, OneProbe, StatusOfProbe
    <3> QED
      BY <3>1, <3>3
  <2> QED
    BY <1>2, <1>8, <2>1, <2>2 DEF NetworkWorked
<1> QED
  BY <1>3, <1>4, <1>5, <1>6, <1>7, <1>8 DEF NetworkDomain

\* What a local domain shown as passed or failed has seen
LEMMA LocalStatusMeans ==
  ASSUME CollectionInv, Done, domain \in LocalDomain
  PROVE  /\ LocalStatus = "passed" => LocalWorked
         /\ LocalStatus = "failed" => ~SomeLocalWorked
<1> DEFINE verdict         == Aggregate(StatusesOf(LocalProbes))
           Statuses(named) == \A i \in DOMAIN LocalProbes :
             LocalProbes[i].status \in {named, "skipped", "not_run"}
<1>1. LocalStatus = IF domain = "storage" /\ InventoryOnlyHealthLimit THEN "passed" ELSE verdict
  BY DEF LocalStatus
<1>2. /\ verdict = "passed" => Statuses("passed")
      /\ verdict = "failed" => Statuses("failed")
  BY Unanimous
<1> HIDE DEF verdict
<1> DEFINE none == ""
<1>3. CASE domain = "host"
  <2>1. PICK seen : seen = IF codes = {} THEN "passed" ELSE "partial"
    OBVIOUS
  <2>2. LocalProbes = <<Probe("host-basics", none, seen)>>
    BY <1>3, <2>1 DEF LocalProbes, HostProbes
  <2> HIDE DEF none
  <2>3. 1 \in DOMAIN LocalProbes /\ LocalProbes[1].status = seen
    BY <2>2, OneProbe, StatusOfProbe
  <2> QED
    BY <1>1, <1>2, <1>3, <2>1, <2>3 DEF LocalWorked
<1>4. CASE domain = "resources"
  <2>1. LocalProbes = <<Probe("resource-snapshot", none, SnapshotStatus),
                        Probe("battery-health", none, BatteryStatus),
                        Probe("bounded-process-snapshot", none, ProcessStatus)>>
    BY <1>4 DEF LocalProbes
  <2> HIDE DEF none
  <2>2. /\ 1 \in DOMAIN LocalProbes /\ LocalProbes[1].status = SnapshotStatus
        /\ 2 \in DOMAIN LocalProbes /\ LocalProbes[2].status = BatteryStatus
        /\ 3 \in DOMAIN LocalProbes /\ LocalProbes[3].status = ProcessStatus
    BY <2>1, ThreeProbes, StatusOfProbe
  <2>3. ResourcesInv /\ steps = 3
    BY <1>4 DEF CollectionInv, ResourcesInv, Done
  <2>4. ASSUME LocalStatus = "passed" PROVE LocalWorked
    <3>1. {SnapshotStatus, BatteryStatus, ProcessStatus} \subseteq {"passed", "skipped", "not_run"}
      BY <1>1, <1>2, <1>4, <2>2, <2>4
    <3>2. ResourceCodes = {}
      BY <3>1 DEF SnapshotStatus
    <3>3. "battery-unavailable" \notin codes
      BY <3>1 DEF BatteryStatus
    <3>4. "process-snapshot-unavailable" \notin codes
      BY <3>1 DEF ProcessStatus
    <3>5. codes = {}
      BY <3>2, <3>3, <3>4 DEF ResourceCodes
    <3>6. platform \in {"linux", "macos", "windows"}
      BY <2>3, <3>5 DEF ResourcesInv, CollectionInv, TypeInv, Platform
    <3> QED
      BY <1>4, <2>3, <3>5, <3>6 DEF ResourcesInv, LocalWorked
  <2>5. ASSUME LocalStatus = "failed" PROVE ~SomeLocalWorked
    <3>1. {SnapshotStatus, BatteryStatus, ProcessStatus} \subseteq {"failed", "skipped", "not_run"}
      BY <1>1, <1>2, <1>4, <2>2, <2>5
    <3>2. ~facts.cpus /\ ~facts.total
      BY <3>1 DEF SnapshotStatus
    <3>3. facts.battery # "present"
      BY <3>1 DEF BatteryStatus
    <3>4. ~facts.snapshot
      BY <3>1 DEF ProcessStatus
    <3> QED
      BY <1>4, <3>2, <3>3, <3>4 DEF SomeLocalWorked
  <2> QED
    BY <2>4, <2>5
<1>5. CASE domain = "time"
  <2>1. PICK clock : clock = IF codes \ {"clock-skew-check-failed"} = {} THEN "passed" ELSE "partial"
    OBVIOUS
  <2>2. LocalProbes = <<Probe("local-time-state", none, clock),
                        Probe("clock-skew-check", none, SkewStatus)>>
    BY <1>5, <2>1 DEF LocalProbes
  <2> HIDE DEF none
  <2>3. /\ 1 \in DOMAIN LocalProbes /\ LocalProbes[1].status = clock
        /\ 2 \in DOMAIN LocalProbes /\ LocalProbes[2].status = SkewStatus
    BY <2>2, TwoProbes, StatusOfProbe
  <2>4. LocalStatus # "failed"
    BY <1>1, <1>2, <1>5, <2>1, <2>3
  <2>5. (SkewStatus \in {"passed", "skipped", "not_run"} /\ options.skew) => facts.skew = "checked"
    BY DEF SkewStatus, Outcome
  <2> QED
    BY <1>1, <1>2, <1>5, <2>3, <2>4, <2>5 DEF LocalWorked
<1>6. CASE domain = "storage"
  <2>1. LocalProbes = <<Probe("disk-usage", none, DiskStatus),
                        Probe("storage-device-health", none, DeviceStatus)>>
    BY <1>6 DEF LocalProbes
  <2> HIDE DEF none
  <2>2. /\ 1 \in DOMAIN LocalProbes /\ LocalProbes[1].status = DiskStatus
        /\ 2 \in DOMAIN LocalProbes /\ LocalProbes[2].status = DeviceStatus
    BY <2>1, TwoProbes, StatusOfProbe
  <2>3. StorageInv /\ pending = <<>> /\ platform \in Platform /\ Len(facts.disks) \in Nat
    BY <1>6, LenProperties DEF CollectionInv, StorageInv, Done, TypeInv, LocalParts
  <2>4. ASSUME LocalStatus = "passed" PROVE LocalWorked
    <3>1. DiskStatus = "passed"
      <4>1. InventoryOnlyHealthLimit => DiskStatus = "passed"
        BY DEF InventoryOnlyHealthLimit
      <4>2. ~InventoryOnlyHealthLimit => DiskStatus \in {"passed", "skipped", "not_run"}
        BY <1>1, <1>2, <2>2, <2>4
      <4> QED
        BY <4>1, <4>2 DEF DiskStatus
    <3>2. HealthCodes = {}
      <4>1. InventoryOnlyHealthLimit => HealthCodes = {}
        BY DEF InventoryOnlyHealthLimit
      <4>2. ~InventoryOnlyHealthLimit => DeviceStatus \in {"passed", "skipped", "not_run"}
        BY <1>1, <1>2, <2>2, <2>4
      <4> QED
        BY <4>1, <4>2 DEF DeviceStatus
    <3>3. facts.disks # <<>> /\ codes = {}
      BY <3>1, <3>2 DEF DiskStatus, HealthCodes
    <3>4. Len(facts.disks) = Len(facts.mounted)
      <4>1. Len(facts.disks) + Len(pending) = Len(facts.mounted) /\ Len(pending) = 0
        BY <2>3, <3>3 DEF StorageInv
      <4> QED
        BY <2>3, <4>1
    <3>5. facts.devices = "unread" => platform = "other"
      BY <2>3, <3>3 DEF StorageInv, Done, Platform
    <3> QED
      BY <1>6, <3>3, <3>4, <3>5 DEF LocalWorked
  <2>5. ASSUME LocalStatus = "failed" PROVE ~SomeLocalWorked
    <3>1. {DiskStatus, DeviceStatus} \subseteq {"failed", "skipped", "not_run"}
      BY <1>1, <1>2, <2>2, <2>5
    <3>2. facts.disks = <<>>
      BY <3>1 DEF DiskStatus
    <3>3. facts.devices \notin {"silent", "reported"}
      BY <3>1 DEF DeviceStatus
    <3>4. facts.devices \in {"none", "unread"}
      BY <3>3 DEF CollectionInv, TypeInv, LocalParts, Devices
    <3> QED
      BY <1>6, <3>2, <3>4 DEF SomeLocalWorked
  <2> QED
    BY <2>4, <2>5
<1> QED
  BY <1>3, <1>4, <1>5, <1>6 DEF LocalDomain

LEMMA DomainsAreApart == NetworkDomain \intersect LocalDomain = {}
BY DEF NetworkDomain, LocalDomain

\* A domain the result shows as passed lost no answer that its record looks at,
\* for every configuration. It looks at all but two: the ping and the trace of a
\* target whose host an earlier target has, and vm_stat on macOS.
THEOREM PassedMeansEveryReadAnswerWorkedHolds == Spec => []PassedMeansEveryReadAnswerWorked
<1>1. CollectionInv => PassedMeansEveryReadAnswerWorked
  BY NetworkStatusMeans, LocalStatusMeans, DomainsAreApart
     DEF PassedMeansEveryReadAnswerWorked, RecordStatus, CollectionInv, TypeInv
<1> QED
  BY <1>1, CollectionInvHolds, PTL

\* A domain shown as failed has nothing that worked to show, of all that its
\* record looks at.
THEOREM FailedMeansNothingWorkedHolds == Spec => []FailedMeansNothingWorked
<1>1. CollectionInv => FailedMeansNothingWorked
  BY NetworkStatusMeans, LocalStatusMeans, DomainsAreApart
     DEF FailedMeansNothingWorked, RecordStatus, CollectionInv, TypeInv
<1> QED
  BY <1>1, CollectionInvHolds, PTL

\* Every probe of the connectivity record is that of one target and one kind.
LEMMA KindsOfProbes ==
  ASSUME options \in Options, NEW p \in DOMAIN ConnectivityProbes
  PROVE  \/ p \in 1..N /\ ConnectivityProbes[p].kind = "tcp"
         \/ \E i \in 1..N : p = N + 2 * i - 1 /\ ConnectivityProbes[p].kind = "ping"
         \/ \E i \in 1..N : p = N + 2 * i /\ ConnectivityProbes[p].kind = "trace"
<1> DEFINE n == N
<1>1. n \in Nat /\ 1 \in 1..n /\ n = N
  BY TargetsAre
<1>2. p \in 1..3 * n
  BY <1>1, ConnectivityProbesAre
<1>3. \A target : PingProbe(target).kind = "ping" /\ TraceProbe(target).kind = "trace"
  BY DEF PingProbe, TraceProbe, Probe
<1>4. \A check : TcpProbe(check).kind = "tcp"
  BY DEF TcpProbe, Probe
<1> HIDE DEF n
<1>5. CASE p <= n
  <2>1. p \in 1..n
    BY <1>1, <1>2, <1>5
  <2> QED
    BY <1>1, <1>4, <2>1, ConnectivityProbesAre
<1>6. CASE ~(p <= n)
  <2>1. \E i \in 1..n : p = n + 2 * i - 1 \/ p = n + 2 * i
    <3>1. PICK d \in 1..(2 * n) : p = n + d
      <4>1. p - n \in 1..(2 * n) /\ p = n + (p - n)
        BY <1>1, <1>2, <1>6
      <4> QED
        BY <4>1
    <3>2. (d + 1) \div 2 \in 1..n
          /\ (d = 2 * ((d + 1) \div 2) - 1 \/ d = 2 * ((d + 1) \div 2))
      BY <1>1
    <3> QED
      BY <1>1, <3>1, <3>2
  <2>2. PICK i \in 1..n : p = n + 2 * i - 1 \/ p = n + 2 * i
    BY <2>1
  <2>3. /\ ConnectivityProbes[n + 2 * i - 1] = PingProbe(options.targets[i])
        /\ ConnectivityProbes[n + 2 * i] = TraceProbe(options.targets[i])
    BY <1>1, ConnectivityProbesAre
  <2>4. CASE p = n + 2 * i - 1
    BY <1>1, <1>3, <2>3, <2>4
  <2>5. CASE p = n + 2 * i
    BY <1>1, <1>3, <2>3, <2>5
  <2> QED
    BY <2>2, <2>4, <2>5
<1> QED
  BY <1>5, <1>6

\* Every target has its TCP probe with its own answer in the connectivity
\* record, and a ping and a trace with the answer of the first target on its
\* host, in the order of the targets and with no probe of these kinds beside
\* those, for every list of targets, with and without repeated hosts.
THEOREM EveryCheckIsShownHolds == Spec => []EveryCheckIsShown
<1>1. ASSUME CollectionInv, Done, domain = "connectivity" PROVE EveryCheckIsShown
  <2>1. options \in Options /\ Probes = ConnectivityProbes
    BY <1>1 DEF CollectionInv, TypeInv, Probes, NetworkSideProbes, NetworkDomain
  <2>2. PICK n \in Nat : n = N
    BY <2>1, TargetsAre
  <2>3. ASSUME NEW kind, NEW statuses, NEW at \in [1..n -> DOMAIN ConnectivityProbes],
               \A i, j \in 1..n : i < j => at[i] < at[j],
               \A p \in DOMAIN ConnectivityProbes :
                 ConnectivityProbes[p].kind = kind => \E i \in 1..n : p = at[i],
               \A i \in 1..n :
                 /\ ConnectivityProbes[at[i]] = Probe(kind, options.targets[i], statuses[i])
                 /\ ConnectivityProbes[at[i]].kind = kind
        PROVE  Shown(kind, statuses)
    <3>1. {at[i] : i \in 1..N} = {p \in DOMAIN Probes : Probes[p].kind = kind}
      BY <2>1, <2>2, <2>3
    <3> QED
      BY <2>1, <2>2, <2>3, <3>1 DEF Shown
  <2>4. \A p \in DOMAIN ConnectivityProbes :
          \/ p \in 1..n /\ ConnectivityProbes[p].kind = "tcp"
          \/ \E i \in 1..n : p = n + 2 * i - 1 /\ ConnectivityProbes[p].kind = "ping"
          \/ \E i \in 1..n : p = n + 2 * i /\ ConnectivityProbes[p].kind = "trace"
    BY <2>1, <2>2, KindsOfProbes
  <2>5. \A kind, target, result : Probe(kind, target, result).kind = kind
    BY DEF Probe
  <2>6. Shown("tcp", [i \in 1..N |-> Outcome(facts.tcp[i].success)])
    <3> DEFINE at       == [i \in 1..n |-> i]
               statuses == [i \in 1..n |-> Outcome(facts.tcp[i].success)]
    <3>1. \A i \in 1..n :
            /\ i \in DOMAIN ConnectivityProbes
            /\ ConnectivityProbes[i] = Probe("tcp", options.targets[i], statuses[i])
            /\ ConnectivityProbes[i].kind = "tcp"
      BY <1>1, <2>2, <2>5, ConnectivityShown
    <3>2. at \in [1..n -> DOMAIN ConnectivityProbes] /\ \A i \in 1..n : at[i] = i
      BY <3>1
    <3>3. \A p \in DOMAIN ConnectivityProbes :
            ConnectivityProbes[p].kind = "tcp" => \E i \in 1..n : p = at[i]
      BY <2>4, <3>2
    <3> HIDE DEF at, statuses
    <3>4. Shown("tcp", statuses)
      BY <2>3, <3>1, <3>2, <3>3
    <3> QED
      BY <2>2, <3>4 DEF statuses
  <2>7. ASSUME options.ping
        PROVE  Shown("ping", [i \in 1..N |-> PingStatus(facts.ping[FirstOnHost(i)].answer)])
    <3> DEFINE at       == [i \in 1..n |-> n + 2 * i - 1]
               statuses == [i \in 1..n |-> PingStatus(facts.ping[FirstOnHost(i)].answer)]
    <3>1. \A i \in 1..n :
            /\ n + 2 * i - 1 \in DOMAIN ConnectivityProbes
            /\ ConnectivityProbes[n + 2 * i - 1] = Probe("ping", options.targets[i], statuses[i])
            /\ ConnectivityProbes[n + 2 * i - 1].kind = "ping"
      BY <1>1, <2>2, <2>5, <2>7, ConnectivityShown
    <3>2. /\ at \in [1..n -> DOMAIN ConnectivityProbes]
          /\ \A i \in 1..n : at[i] = n + 2 * i - 1
          /\ \A i, j \in 1..n : i < j => n + 2 * i - 1 < n + 2 * j - 1
      BY <3>1
    <3>3. \A p \in DOMAIN ConnectivityProbes :
            ConnectivityProbes[p].kind = "ping" => \E i \in 1..n : p = at[i]
      BY <2>4, <3>2
    <3> HIDE DEF at, statuses
    <3>4. \A i, j \in 1..n : i < j => at[i] < at[j]
      BY <3>2
    <3>5. \A i \in 1..n :
            /\ ConnectivityProbes[at[i]] = Probe("ping", options.targets[i], statuses[i])
            /\ ConnectivityProbes[at[i]].kind = "ping"
      BY <3>1, <3>2
    <3>6. Shown("ping", statuses)
      BY <2>3, <3>2, <3>3, <3>4, <3>5
    <3> QED
      BY <2>2, <3>6 DEF statuses
  <2>8. ASSUME options.trace
        PROVE  Shown("trace", [i \in 1..N |-> TraceStatus(facts.trace[FirstOnHost(i)].answer)])
    <3> DEFINE at       == [i \in 1..n |-> n + 2 * i]
               statuses == [i \in 1..n |-> TraceStatus(facts.trace[FirstOnHost(i)].answer)]
    <3>1. \A i \in 1..n :
            /\ n + 2 * i \in DOMAIN ConnectivityProbes
            /\ ConnectivityProbes[n + 2 * i] = Probe("trace", options.targets[i], statuses[i])
            /\ ConnectivityProbes[n + 2 * i].kind = "trace"
      BY <1>1, <2>2, <2>5, <2>8, ConnectivityShown
    <3>2. /\ at \in [1..n -> DOMAIN ConnectivityProbes] /\ \A i \in 1..n : at[i] = n + 2 * i
          /\ \A i, j \in 1..n : i < j => n + 2 * i < n + 2 * j
      BY <3>1
    <3>3. \A p \in DOMAIN ConnectivityProbes :
            ConnectivityProbes[p].kind = "trace" => \E i \in 1..n : p = at[i]
      BY <2>4, <3>2
    <3> HIDE DEF at, statuses
    <3>4. \A i, j \in 1..n : i < j => at[i] < at[j]
      BY <3>2
    <3>5. \A i \in 1..n :
            /\ ConnectivityProbes[at[i]] = Probe("trace", options.targets[i], statuses[i])
            /\ ConnectivityProbes[at[i]].kind = "trace"
      BY <3>1, <3>2
    <3>6. Shown("trace", statuses)
      BY <2>3, <3>2, <3>3, <3>4, <3>5
    <3> QED
      BY <2>2, <3>6 DEF statuses
  <2> QED
    BY <2>6, <2>7, <2>8 DEF EveryCheckIsShown
<1>2. CollectionInv => EveryCheckIsShown
  BY <1>1 DEF EveryCheckIsShown
<1> QED
  BY <1>2, CollectionInvHolds, PTL
-----------------------------------------------------------------------------
(* The storage incidents.                                                   *)

\* The volumes a run reports, for every step of every collector
LEMMA DisksAre ==
  ASSUME CollectionInv
  PROVE  /\ UniquePaths(facts.disks) /\ platform \in Platform
         /\ \A i \in DOMAIN facts.disks : facts.disks[i] \in Disk(platform)
<1>1. \A i \in DOMAIN facts.disks : facts.disks[i] \in Disk(platform)
  BY LenProperties, ElementOfSeq DEF CollectionInv, TypeInv, LocalParts
<1>2. facts.disks = <<>> => UniquePaths(facts.disks)
  BY DEF UniquePaths
<1>3. domain = "storage" => UniquePaths(facts.disks)
  BY DEF CollectionInv, StorageInv
<1> QED
  BY <1>1, <1>2, <1>3 DEF CollectionInv, TypeInv

\* Every measured, actionable volume under pressure is part of one incident,
\* which has its level, for every layout of mount points and however other
\* programs change the free space between two measurements.
THEOREM EveryPressureIsReportedHolds == Spec => []EveryPressureIsReported
<1>1. ASSUME CollectionInv PROVE EveryPressureIsReported
  <2> DEFINE disks == facts.disks
  <2>1. \A i, j \in DOMAIN disks : disks[i].path = disks[j].path => i = j
    BY <1>1, DisksAre DEF UniquePaths
  <2>2. \A i \in DOMAIN disks :
          disks[i].level = Level(disks[i].total, disks[i].free, disks[i].role)
    BY <1>1, DisksAre DEF Disk
  <2> HIDE DEF disks
  <2>3. ASSUME NEW i \in DOMAIN disks, Actionable(disks[i]), disks[i].level \in {"critical", "low"}
        PROVE  /\ Cardinality({n \in Incidents(disks) : disks[i].path \in n.paths}) = 1
               /\ \A n \in Incidents(disks) : disks[i].path \in n.paths => n.level = disks[i].level
    BY <2>1, <2>2, <2>3, PressureIsReportedOnce
  <2> QED
    BY <2>3 DEF EveryPressureIsReported, Reported, disks
<1> QED
  BY <1>1, CollectionInvHolds, PTL

\* A mount point that can be primary is so by its role as well.
LEMMA PrimaryRoles ==
  ASSUME NEW p \in Platform, NEW d \in Disk(p), d.path \in PrimaryMacPaths
  PROVE  d.role \in {"system", "user_data"} \/ p = "windows"
<1>1. d.path \in MountsOf(p) /\ d.role = Role(p, d.path)
  BY DEF Disk
<1>2. CASE p = "macos"
  BY <1>1, <1>2 DEF Role, PrimaryMacPaths
<1>3. CASE p \in {"linux", "other"}
  <2>1. d.path = "/"
    BY <1>1, <1>3, MountsAssumption DEF PrimaryMacPaths
  <2> QED
    BY <1>1, <1>3, <2>1 DEF Role
<1> QED
  BY <1>2, <1>3 DEF Platform

\* While nothing else uses the disks, the primary volumes of a container make
\* one incident at most: they were measured alike.
THEOREM OneIncidentWhenQuietHolds == Spec => []OneIncidentWhenQuiet
<1>1. ASSUME CollectionInv, activity = 0 PROVE Cardinality(
        {n \in Incidents(facts.disks) : n.paths \intersect PrimaryMacPaths # {}}) <= 1
  <2> DEFINE disks == facts.disks
  <2>1. ASSUME NEW i \in DOMAIN disks, NEW j \in DOMAIN disks,
               disks[i].path \in PrimaryMacPaths, disks[j].path \in PrimaryMacPaths
        PROVE  Pool(disks[i]) = Pool(disks[j])
    <3>1. /\ disks[i] \in Disk(platform) /\ disks[j] \in Disk(platform) /\ platform \in Platform
          /\ disks[i].path \in MountsOf(platform) /\ disks[j].path \in MountsOf(platform)
          /\ (disks[i].path = disks[j].path => i = j)
      BY <1>1, <2>1, DisksAre DEF Disk, UniquePaths
    <3>2. CASE platform = "windows"
      <4>1. "/System/Volumes/Data" \notin MountsOf(platform)
        BY <3>1, <3>2, MountsAssumption
      <4>2. disks[i].path = "/" /\ disks[j].path = "/"
        BY <2>1, <3>1, <4>1 DEF PrimaryMacPaths
      <4> QED
        BY <3>1, <4>2
    <3>3. CASE platform # "windows"
      <4>1. disks[i].role \in {"system", "user_data"} /\ disks[j].role \in {"system", "user_data"}
        BY <2>1, <3>1, <3>3, PrimaryRoles
      <4>2. ContainerOf[disks[i].path] = ContainerOf[disks[j].path]
        BY <2>1, <3>1, MountsAssumption
      <4>3. domain = "storage"
        BY <1>1, <2>1 DEF CollectionInv
      <4>4. /\ disks[i].total = capacity[ContainerOf[disks[i].path]]
            /\ disks[i].free = free[ContainerOf[disks[i].path]]
            /\ disks[j].total = capacity[ContainerOf[disks[j].path]]
            /\ disks[j].free = free[ContainerOf[disks[j].path]]
        BY <1>1, <2>1, <4>3 DEF CollectionInv, StorageInv
      <4>5. disks[i].total = disks[j].total /\ disks[i].free = disks[j].free
        BY <4>2, <4>4
      <4> QED
        BY <2>1, <4>1, <4>5 DEF Pool
    <3> QED
      BY <3>2, <3>3
  <2> QED
    BY <2>1, SharedCapacityIsOneIncident
<1>2. CollectionInv => OneIncidentWhenQuiet
  BY <1>1 DEF OneIncidentWhenQuiet, Reported
<1> QED
  BY <1>2, CollectionInvHolds, PTL
=============================================================================

--------------------------- MODULE Findings_proofs ---------------------------
(***************************************************************************)
(* What the findings of a run promise for every selection of checks and    *)
(* whatever the collectors report. The rules are evaluated one by one into *)
(* a list; the lemmas turn that list into what each of its findings says   *)
(* of the facts.                                                           *)
(***************************************************************************)
EXTENDS Guidance, SequenceTheorems, FiniteSetTheorems, WellFoundedInduction, TLAPS

-----------------------------------------------------------------------------
(* Lists of findings.                                                       *)

Areas == {"local_network", "dns", "internet_edge", "upstream_network", "vpn", "local_host",
          "healthy"}

Ids ==
  {"active-interface-no-local-address", "no-default-route-no-internet",
   "default-route-present-but-inconsistent", "route-and-dns-ok-external-tcp-failure",
   "mixed-external-tcp-results", "dns-failure-raw-ip-success", "dns-partial-resolution",
   "partial-trace", "internet-ok-selected-service-failure", "mixed-service-results",
   "vpn-signal-private-resource-failure", "device-slow-local-host-pressure",
   "high-memory-pressure", "sustained-cpu-saturation",
   "local-resource-pressure-no-dominant-source", "host-pressure-with-connectivity-degradation",
   "no-significant-host-pressure", "network-explanation-not-supported",
   "critical-disk-space-exhaustion", "low-disk-space-operational-risk",
   "no-significant-storage-pressure", "battery-health-degraded",
   "storage-device-health-failure", "storage-device-health-warning",
   "system-clock-materially-inaccurate", "local-time-may-impact-secure-service-access",
   "timezone-configuration-inconsistent", "insufficient-clock-drift-evidence",
   "no-significant-time-issue", "healthy-baseline"}

Findings == [id : Ids, severity : {"high", "medium", "low", "info"}, area : Areas,
             confidence : 0..99]

FindingsIn(list) == {list[i] : i \in DOMAIN list}

LEMMA ConcatFindings ==
  ASSUME NEW s \in Seq(Findings), NEW t \in Seq(Findings)
  PROVE  s \o t \in Seq(Findings) /\ FindingsIn(s \o t) = FindingsIn(s) \cup FindingsIn(t)
<1>1. /\ s \o t \in Seq(Findings) /\ Len(s \o t) = Len(s) + Len(t)
      /\ \A i \in 1..Len(s) + Len(t) :
           (s \o t)[i] = IF i <= Len(s) THEN s[i] ELSE t[i - Len(s)]
  BY ConcatProperties
<1>2. /\ DOMAIN s = 1..Len(s) /\ DOMAIN t = 1..Len(t) /\ Len(s) \in Nat /\ Len(t) \in Nat
      /\ DOMAIN (s \o t) = 1..(Len(s) + Len(t))
  BY <1>1, LenProperties
<1>3. ASSUME NEW x \in FindingsIn(s \o t) PROVE x \in FindingsIn(s) \cup FindingsIn(t)
  <2>1. PICK i \in 1..(Len(s) + Len(t)) : x = (s \o t)[i]
    BY <1>2 DEF FindingsIn
  <2>2. CASE i <= Len(s)
    BY <1>1, <1>2, <2>1, <2>2 DEF FindingsIn
  <2>3. CASE ~(i <= Len(s))
    <3>1. x = t[i - Len(s)] /\ i - Len(s) \in 1..Len(t)
      BY <1>1, <1>2, <2>1, <2>3
    <3> QED
      BY <1>2, <3>1 DEF FindingsIn
  <2> QED
    BY <2>2, <2>3
<1>4. ASSUME NEW x \in FindingsIn(s) PROVE x \in FindingsIn(s \o t)
  <2>1. PICK i \in 1..Len(s) : x = s[i]
    BY <1>2 DEF FindingsIn
  <2>2. i \in 1..(Len(s) + Len(t)) /\ (s \o t)[i] = x
    BY <1>1, <1>2, <2>1
  <2> QED
    BY <1>2, <2>2 DEF FindingsIn
<1>5. ASSUME NEW x \in FindingsIn(t) PROVE x \in FindingsIn(s \o t)
  <2>1. PICK i \in 1..Len(t) : x = t[i]
    BY <1>2 DEF FindingsIn
  <2>2. i + Len(s) \in 1..(Len(s) + Len(t)) /\ (s \o t)[i + Len(s)] = x
    BY <1>1, <1>2, <2>1
  <2> QED
    BY <1>2, <2>2 DEF FindingsIn
<1> QED
  BY <1>1, <1>3, <1>4, <1>5

LEMMA OneFinding ==
  ASSUME NEW x \in Findings
  PROVE  <<x>> \in Seq(Findings) /\ FindingsIn(<<x>>) = {x}
<1>1. DOMAIN <<x>> = {1} /\ <<x>>[1] = x
  OBVIOUS
<1>2. <<x>> \in Seq(Findings)
  OBVIOUS
<1> QED
  BY <1>1, <1>2 DEF FindingsIn

LEMMA NoFindings == <<>> \in Seq(Findings) /\ FindingsIn(<<>>) = {}
<1>1. <<>> \in Seq(Findings) /\ DOMAIN <<>> = {}
  BY EmptySeq
<1> QED
  BY <1>1 DEF FindingsIn

-----------------------------------------------------------------------------
(* What a finding says of the facts.                                        *)

\* What a finding says of the facts of a run
Supported(f, enabled, id) ==
  /\ id = "active-interface-no-local-address" => f.network.addressed = {}
  /\ id = "no-default-route-no-internet" => ~f.routing.route /\ ~Reachable(f.tcp)
  /\ id = "default-route-present-but-inconsistent" =>
       f.routing.route /\ Inconsistencies(f) > 0 /\ PublicSucceeded(f.tcp) = {}
  /\ id = "route-and-dns-ok-external-tcp-failure" =>
       /\ f.routing.route /\ Inconsistencies(f) = 0
       /\ LookupsWith(f, "ok") # {} /\ PublicSucceeded(f.tcp) = {}
  /\ id = "mixed-external-tcp-results" => Mixed(f.tcp)
  /\ id = "dns-failure-raw-ip-success" =>
       /\ "dns" \in enabled /\ PublicSucceeded(f.tcp) # {}
       /\ LookupsWith(f, "failed") # {} /\ LookupsWith(f, "failed") = DOMAIN f.dns
  /\ id = "dns-partial-resolution" =>
       "dns" \in enabled /\ LookupsWith(f, "ok") # {} /\ LookupsWith(f, "failed") # {}
  /\ id = "internet-ok-selected-service-failure" =>
       Reachable(f.tcp) /\ PublicSucceeded(f.services) = {}
  /\ id = "mixed-service-results" => Mixed(f.services)
  /\ id = "vpn-signal-private-resource-failure" => \E s \in f.signals : Meaningful(s)
  /\ id = "network-explanation-not-supported" => NetworkNotToBlame(f, enabled)
  /\ id \in {"high-memory-pressure", "sustained-cpu-saturation",
             "device-slow-local-host-pressure"} => Strong(f)
  /\ id = "host-pressure-with-connectivity-degradation" =>
       Strong(f) /\ (Reachable(f.tcp) => PublicFailed(f.tcp) # {})
  /\ id = "local-resource-pressure-no-dominant-source" => ~HealthyHost(f) /\ ~Strong(f)
  /\ id = "no-significant-host-pressure" => HealthyHost(f)
  /\ id = "critical-disk-space-exhaustion" =>
       \E i \in DOMAIN f.volumes : f.volumes[i].level = "critical"
  /\ id = "low-disk-space-operational-risk" =>
       \E i \in DOMAIN f.volumes : f.volumes[i].level = "low"
  /\ id = "storage-device-health-failure" => DeviceCondition(f.devices) = "failure"
  /\ id = "storage-device-health-warning" => DeviceCondition(f.devices) = "warning"
  /\ id = "no-significant-storage-pressure" =>
       f.volumes = <<>> /\ DeviceCondition(f.devices) = "healthy"
  /\ id = "system-clock-materially-inaccurate" => Checked(f) /\ f.time.skew >= 300
  /\ id = "local-time-may-impact-secure-service-access" =>
       Checked(f) /\ f.time.skew \in 120..299
  /\ id = "timezone-configuration-inconsistent" => f.time.zone = "inconsistent"
  /\ id = "insufficient-clock-drift-evidence" => f.time.check = "failed"
  /\ id = "no-significant-time-issue" =>
       Checked(f) /\ f.time.skew < 120 /\ f.time.zone # "inconsistent"

\* A finding that the facts support; what is called healthy is no problem.
SoundFinding(x, f, enabled) ==
  x \in Findings /\ Supported(f, enabled, x.id) /\ (x.area = "healthy" => x.severity = "info")

Sound(list, f, enabled) ==
  list \in Seq(Findings) /\ \A x \in FindingsIn(list) : SoundFinding(x, f, enabled)

LEMMA SoundConcat ==
  ASSUME NEW f, NEW enabled, NEW s, NEW t, Sound(s, f, enabled), Sound(t, f, enabled)
  PROVE  Sound(s \o t, f, enabled)
BY ConcatFindings DEF Sound

LEMMA SoundEmpty ==
  ASSUME NEW f, NEW enabled
  PROVE  Sound(<<>>, f, enabled)
BY NoFindings DEF Sound

\* A rule reports its finding or nothing.
LEMMA SoundRule ==
  ASSUME NEW f, NEW enabled, NEW x, NEW list, list = <<x>> \/ list = <<>>,
         list = <<x>> => SoundFinding(x, f, enabled)
  PROVE  Sound(list, f, enabled)
<1>1. CASE list = <<>>
  BY <1>1, SoundEmpty
<1>2. CASE list = <<x>>
  BY <1>2, OneFinding DEF Sound, SoundFinding
<1> QED
  BY <1>1, <1>2

\* A rule with one finding per item of a list
LEMMA SoundList ==
  ASSUME NEW f, NEW enabled, NEW n \in Nat, NEW list, DOMAIN list = 1..n,
         list = [i \in 1..n |-> list[i]], \A i \in 1..n : SoundFinding(list[i], f, enabled)
  PROVE  Sound(list, f, enabled)
<1>1. \A i \in 1..n : list[i] \in Findings
  BY DEF SoundFinding
<1>2. list \in Seq(Findings)
  BY <1>1, SeqDef
<1> QED
  BY <1>2 DEF Sound, FindingsIn

LEMMA NetworkPathRulesSound ==
  ASSUME NEW f, NEW enabled
  PROVE  /\ Sound(ActiveInterfaceRule(f), f, enabled)
         /\ Sound(NoDefaultRouteRule(f), f, enabled)
         /\ Sound(InconsistentRouteRule(f), f, enabled)
         /\ Sound(ExternalTcpRule(f), f, enabled)
         /\ Sound(MixedTcpRule(f), f, enabled)
<1> USE DEF If, SoundFinding, Supported, Finding, Findings, Ids, Areas
<1>1. Sound(ActiveInterfaceRule(f), f, enabled)
  BY SoundRule DEF ActiveInterfaceRule
<1>2. Sound(NoDefaultRouteRule(f), f, enabled)
  BY SoundRule DEF NoDefaultRouteRule
<1>3. Sound(InconsistentRouteRule(f), f, enabled)
  BY SoundRule DEF InconsistentRouteRule
<1>4. Sound(ExternalTcpRule(f), f, enabled)
  BY SoundRule DEF ExternalTcpRule, LookupsWith
<1>5. Sound(MixedTcpRule(f), f, enabled)
  BY SoundRule DEF MixedTcpRule, Mixed, PublicFailed, PublicSucceeded
<1> HIDE DEF If, SoundFinding, Supported, Finding, Findings, Ids, Areas
<1> QED
  BY <1>1, <1>2, <1>3, <1>4, <1>5

LEMMA NetworkPathSound ==
  ASSUME NEW f, NEW enabled
  PROVE  Sound(NetworkPath(f), f, enabled)
BY NetworkPathRulesSound, SoundConcat DEF NetworkPath

LEMMA DnsPathSound ==
  ASSUME NEW f, NEW enabled, "dns" \in enabled
  PROVE  Sound(DnsPath(f), f, enabled)
<1> USE DEF If, SoundFinding, Supported, Finding, Findings, Ids, Areas
<1>1. Sound(DnsFailureRule(f), f, enabled)
  <2> DEFINE x == Finding("dns-failure-raw-ip-success", "high", "dns", 92)
             condition == /\ LookupsWith(f, "failed") # {}
                          /\ LookupsWith(f, "failed") = DOMAIN f.dns
                          /\ PublicSucceeded(f.tcp) \intersect Numeric # {}
  <2>1. condition => SoundFinding(x, f, enabled)
    OBVIOUS
  <2>2. DnsFailureRule(f) = IF condition THEN <<x>> ELSE <<>>
    BY DEF DnsFailureRule
  <2> HIDE DEF x, condition
  <2> QED
    BY <2>1, <2>2, SoundRule
<1>2. Sound(PartialResolutionRule(f), f, enabled)
  BY SoundRule DEF PartialResolutionRule
<1> HIDE DEF If, SoundFinding, Supported, Finding, Findings, Ids, Areas
<1> QED
  BY <1>1, <1>2, SoundConcat DEF DnsPath

LEMMA TimeStateSound ==
  ASSUME NEW f, NEW enabled
  PROVE  Sound(TimeState(f), f, enabled)
<1> USE DEF If, SoundFinding, Supported, Finding, Findings, Ids, Areas
<1>1. Sound(ClockInaccurateRule(f), f, enabled)
  BY SoundRule DEF ClockInaccurateRule
<1>2. Sound(ClockRiskRule(f), f, enabled)
  BY SoundRule DEF ClockRiskRule
<1>3. Sound(TimezoneRule(f), f, enabled)
  BY SoundRule DEF TimezoneRule
<1>4. Sound(NoEvidenceRule(f), f, enabled)
  BY SoundRule DEF NoEvidenceRule
<1>5. Sound(NoTimeIssueRule(f), f, enabled)
  BY SoundRule DEF NoTimeIssueRule
<1> HIDE DEF If, SoundFinding, Supported, Finding, Findings, Ids, Areas
<1> QED
  BY <1>1, <1>2, <1>3, <1>4, <1>5, SoundConcat DEF TimeState

LEMMA HostPressureSound ==
  ASSUME NEW f, NEW enabled, NEW kind
  PROVE  Sound(HostPressure(f, enabled, kind), f, enabled)
<1> USE DEF If, SoundFinding, Supported, Finding, Findings, Ids, Areas
<1>1. Sound(DeviceSlowRule(f, kind), f, enabled)
  <2> DEFINE x == Finding("device-slow-local-host-pressure",
                          IF CpuStrong(f.cpu) /\ MemoryStrong(f.memory) THEN "high" ELSE "medium",
                          "local_host", IF Combined(f) THEN 93 ELSE 87)
  <2>1. Strong(f) => SoundFinding(x, f, enabled)
    OBVIOUS
  <2>2. DeviceSlowRule(f, kind) = IF kind = "device slow" /\ Strong(f) THEN <<x>> ELSE <<>>
    BY DEF DeviceSlowRule
  <2> HIDE DEF x
  <2> QED
    BY <2>1, <2>2, SoundRule
<1>2. Sound(HighMemoryRule(f), f, enabled)
  BY SoundRule DEF HighMemoryRule, Strong
<1>3. Sound(CpuRule(f), f, enabled)
  BY SoundRule DEF CpuRule, Strong
<1>4. Sound(NoDominantSourceRule(f), f, enabled)
  BY SoundRule DEF NoDominantSourceRule, HealthyHost
<1>5. Sound(HostAndConnectivityRule(f), f, enabled)
  <2>1. DegradedConnectivity(f) /\ Reachable(f.tcp) => PublicFailed(f.tcp) # {}
    BY FS_EmptySet DEF DegradedConnectivity, PublicFailed
  <2> QED
    BY <2>1, SoundRule DEF HostAndConnectivityRule
<1>6. Sound(NoHostPressureRule(f, kind), f, enabled)
  <2> DEFINE x == Finding("no-significant-host-pressure", "info", "healthy", 76)
  <2>1. HealthyHost(f) => SoundFinding(x, f, enabled)
    OBVIOUS
  <2>2. NoHostPressureRule(f, kind)
          = IF kind = "device slow" /\ HealthyHost(f) THEN <<x>> ELSE <<>>
    BY DEF NoHostPressureRule
  <2> HIDE DEF x
  <2> QED
    BY <2>1, <2>2, SoundRule
<1>7. Sound(NetworkNotToBlameRule(f, enabled, kind), f, enabled)
  <2> DEFINE x == Finding("network-explanation-not-supported", "info", "healthy", 80)
  <2>1. NetworkNotToBlame(f, enabled) => SoundFinding(x, f, enabled)
    OBVIOUS
  <2>2. NetworkNotToBlameRule(f, enabled, kind)
          = IF kind = "device slow" /\ NetworkNotToBlame(f, enabled) THEN <<x>> ELSE <<>>
    BY DEF NetworkNotToBlameRule
  <2> HIDE DEF x
  <2> QED
    BY <2>1, <2>2, SoundRule
<1> HIDE DEF If, SoundFinding, Supported, Finding, Findings, Ids, Areas
<1> QED
  BY <1>1, <1>2, <1>3, <1>4, <1>5, <1>6, <1>7, SoundConcat DEF HostPressure

\* The capacity groups under pressure of which a run knows
SpaceGroups == Seq([level : {"critical", "low"}, operational : BOOLEAN])

LEMMA StorageSpaceSound ==
  ASSUME NEW f, NEW enabled, f.volumes \in SpaceGroups
  PROVE  Sound(StorageSpace(f), f, enabled)
<1>1. DOMAIN f.volumes = 1..Len(f.volumes) /\ Len(f.volumes) \in Nat
  BY LenProperties DEF SpaceGroups
<1>2. ASSUME NEW i \in DOMAIN f.volumes
      PROVE  SoundFinding(SpaceFinding(f.volumes[i]), f, enabled)
  <2> DEFINE Group == [level : {"critical", "low"}, operational : BOOLEAN]
  <2>2. f.volumes \in Seq(Group) /\ i \in 1..Len(f.volumes)
    BY <1>1 DEF SpaceGroups
  <2>3. f.volumes[i] \in Group
    <3> HIDE DEF Group
    <3> QED
      BY <2>2, ElementOfSeq
  <2>1. f.volumes[i].level \in {"critical", "low"}
    BY <2>3
  <2> QED
    BY <1>2, <2>1
       DEF SpaceFinding, SoundFinding, Supported, Finding, Findings, Ids, Areas
<1>3. /\ DOMAIN StorageSpace(f) = 1..Len(f.volumes)
      /\ StorageSpace(f) = [i \in 1..Len(f.volumes) |-> StorageSpace(f)[i]]
      /\ \A i \in 1..Len(f.volumes) : StorageSpace(f)[i] = SpaceFinding(f.volumes[i])
  BY <1>1 DEF StorageSpace
<1> QED
  BY <1>1, <1>2, <1>3, SoundList

LEMMA StorageRulesSound ==
  ASSUME NEW f, NEW enabled, NEW kind
  PROVE  /\ Sound(NoStoragePressureRule(f, kind), f, enabled)
         /\ Sound(BatteryRule(f), f, enabled)
         /\ Sound(DeviceFailureRule(f), f, enabled)
         /\ Sound(DeviceWarningRule(f), f, enabled)
<1> USE DEF If, SoundFinding, Supported, Finding, Findings, Ids, Areas
<1>1. Sound(NoStoragePressureRule(f, kind), f, enabled)
  <2> DEFINE x == Finding("no-significant-storage-pressure", "info", "healthy", 78)
             calm == f.volumes = <<>> /\ DeviceCondition(f.devices) = "healthy"
  <2>1. calm => SoundFinding(x, f, enabled)
    OBVIOUS
  <2>2. NoStoragePressureRule(f, kind)
          = IF kind = "low disk space" /\ calm THEN <<x>> ELSE <<>>
    BY DEF NoStoragePressureRule
  <2> HIDE DEF x, calm
  <2> QED
    BY <2>1, <2>2, SoundRule
<1>2. Sound(BatteryRule(f), f, enabled)
  BY SoundRule DEF BatteryRule
<1>3. Sound(DeviceFailureRule(f), f, enabled)
  BY SoundRule DEF DeviceFailureRule
<1>4. Sound(DeviceWarningRule(f), f, enabled)
  BY SoundRule DEF DeviceWarningRule
<1> HIDE DEF If, SoundFinding, Supported, Finding, Findings, Ids, Areas
<1> QED
  BY <1>1, <1>2, <1>3, <1>4

LEMMA StorageAndHardwareSound ==
  ASSUME NEW f, NEW enabled, NEW kind, f.volumes \in SpaceGroups
  PROVE  Sound(StorageAndHardware(f, kind), f, enabled)
BY StorageSpaceSound, StorageRulesSound, SoundConcat DEF StorageAndHardware

LEMMA ServicePathRulesSound ==
  ASSUME NEW f, NEW enabled
  PROVE  /\ Sound(ServiceFailureRule(f), f, enabled)
         /\ Sound(MixedServicesRule(f), f, enabled)
<1> USE DEF If, SoundFinding, Supported, Finding, Findings, Ids, Areas
<1>1. Sound(ServiceFailureRule(f), f, enabled)
  BY SoundRule DEF ServiceFailureRule
<1>2. Sound(MixedServicesRule(f), f, enabled)
  BY SoundRule DEF MixedServicesRule, Mixed, PublicFailed, PublicSucceeded
<1> HIDE DEF If, SoundFinding, Supported, Finding, Findings, Ids, Areas
<1> QED
  BY <1>1, <1>2

LEMMA ServicePathSound ==
  ASSUME NEW f, NEW enabled
  PROVE  Sound(ServicePath(f), f, enabled)
BY ServicePathRulesSound, SoundConcat DEF ServicePath

LEMMA TraceResultsSound ==
  ASSUME NEW f, NEW enabled, f.trace \in Nat
  PROVE  Sound(TraceResults(f), f, enabled)
<1> DEFINE x == Finding("partial-trace", "low", "upstream_network", 60)
<1>1. SoundFinding(x, f, enabled)
  BY DEF SoundFinding, Supported, Finding, Findings, Ids, Areas
<1>2. /\ DOMAIN TraceResults(f) = 1..f.trace
      /\ TraceResults(f) = [i \in 1..f.trace |-> TraceResults(f)[i]]
      /\ \A i \in 1..f.trace : TraceResults(f)[i] = x
  BY DEF TraceResults
<1> HIDE DEF x
<1> QED
  BY <1>1, <1>2, SoundList

LEMMA LeastOf ==
  ASSUME NEW S \in SUBSET Nat, S # {}
  PROVE  \E k \in S : \A l \in S : k <= l
<1>1. PICK k \in S : \A l \in S : <<l, k>> \notin OpToRel(<, Nat)
  BY NatLessThanWellFounded, WFMin
<1>2. \A l \in S : ~(l < k)
  BY <1>1 DEF OpToRel
<1> QED
  BY <1>2

SignalsOK(signals) == \A s \in signals : s.confidence \in 0..93

LEMMA VpnSignalsAreOK ==
  ASSUME NEW f, NEW onMac \in BOOLEAN
  PROVE  SignalsOK(VpnSignals(f, onMac))
<1>1. ASSUME NEW iface PROVE \A s \in VpnSignalsOf(f, iface, onMac) : s.confidence \in 0..93
  <2> DEFINE address == iface \in f.network.usable
             utun    == onMac /\ iface \in Utuns
             owner   == iface \in f.routing.owners
             hinted  == iface \in Hinted
  <2>1. CASE f.routing.interface = iface
    <3>1. VpnSignalsOf(f, iface, onMac)
            = {Signal(iface, "default-route-tunnel-heuristic", IF address THEN 93 ELSE 84)}
      BY <2>1 DEF VpnSignalsOf
    <3> QED
      BY <3>1 DEF Signal
  <2>2. CASE f.routing.interface # iface /\ address /\ owner
    <3>1. VpnSignalsOf(f, iface, onMac)
            = {Signal(iface, "route-owned-tunnel-heuristic", IF hinted THEN 79 ELSE 72)}
      BY <2>2 DEF VpnSignalsOf
    <3> QED
      BY <3>1 DEF Signal
  <2>3. CASE f.routing.interface # iface /\ address /\ ~owner
    <3>1. VpnSignalsOf(f, iface, onMac)
            = {IF utun THEN Signal(iface, "tunnel-interface-present", 45)
               ELSE Signal(iface, "interface-name-and-address-heuristic",
                           IF hinted THEN 82 ELSE 74)}
      BY <2>3 DEF VpnSignalsOf
    <3> QED
      BY <3>1 DEF Signal
  <2>4. CASE f.routing.interface # iface /\ ~address
    <3>1. VpnSignalsOf(f, iface, onMac)
            = IF utun THEN {} ELSE {Signal(iface, "interface-name-heuristic", 55)}
      BY <2>4 DEF VpnSignalsOf
    <3> QED
      BY <3>1 DEF Signal
  <2> QED
    BY <2>1, <2>2, <2>3, <2>4
<1> QED
  BY <1>1 DEF SignalsOK, VpnSignals

\* The confidence of the VPN finding is that of its best signal.
LEMMA VpnPathSound ==
  ASSUME NEW f, NEW enabled, SignalsOK(f.signals)
  PROVE  Sound(VpnPath(f), f, enabled)
<1> DEFINE signals == {s \in f.signals : Meaningful(s)}
           best    == CHOOSE s \in signals : \A t \in signals : t.confidence <= s.confidence
           routed  == \E s \in signals : s.interface = f.routing.interface
           c       == IF routed /\ best.confidence < 82 THEN 82 ELSE best.confidence
           x       == Finding("vpn-signal-private-resource-failure", "medium", "vpn", c)
<1>1. signals # {} => SoundFinding(x, f, enabled)
  <2> SUFFICES ASSUME signals # {} PROVE SoundFinding(x, f, enabled)
    OBVIOUS
  <2>1. \A s \in signals : s.confidence \in 0..93
    BY DEF SignalsOK
  <2>8. \E s \in f.signals : Meaningful(s)
    OBVIOUS
  <2> HIDE DEF signals
  <2> DEFINE gaps == {93 - s.confidence : s \in signals}
  <2>2. gaps \in SUBSET Nat /\ gaps # {}
    BY <2>1
  <2>3. PICK k \in gaps : \A l \in gaps : k <= l
    BY <2>2, LeastOf
  <2>4. PICK s \in signals : k = 93 - s.confidence
    BY <2>3
  <2>5. ASSUME NEW t \in signals PROVE t.confidence <= s.confidence
    <3>1. 93 - t.confidence \in gaps
      OBVIOUS
    <3>2. k <= 93 - t.confidence
      BY <2>3, <3>1
    <3>3. s.confidence \in 0..93 /\ t.confidence \in 0..93
      BY <2>1
    <3> HIDE DEF gaps
    <3> QED
      BY <2>4, <3>2, <3>3
  <2>6. best \in signals
    BY <2>5
  <2>7. c \in 0..99
    BY <2>1, <2>6
  <2> HIDE DEF c
  <2> QED
    BY <2>7, <2>8 DEF SoundFinding, Supported, Finding, Findings, Ids, Areas
<1>2. (VpnPath(f) = <<x>> /\ signals # {}) \/ VpnPath(f) = <<>>
  BY DEF VpnPath
<1> HIDE DEF x, signals
<1> QED
  BY <1>1, <1>2, SoundRule, SoundEmpty

-----------------------------------------------------------------------------
(* What the run reports.                                                    *)

\* A record with the parts of CollectedFacts
HasParts(f) ==
  f = [time |-> f.time, cpu |-> f.cpu, memory |-> f.memory, vectors |-> f.vectors,
       battery |-> f.battery, volumes |-> f.volumes, devices |-> f.devices,
       network |-> f.network, routing |-> f.routing, dns |-> f.dns, tcp |-> f.tcp,
       trace |-> f.trace, signals |-> f.signals, services |-> f.services]

\* The facts of an unselected domain are those of a fresh context.
FactsInv ==
  /\ todo \subseteq DOMAIN Order \intersect selected
  /\ selected \in Selections /\ mac \in BOOLEAN
  /\ HasParts(facts)
  /\ facts.time \in Clock
  /\ [volumes |-> facts.volumes, devices |-> facts.devices] \in Storage
  /\ facts.network \in Inventory /\ facts.routing \in RouteTable /\ facts.trace \in Nat
  /\ SignalsOK(facts.signals)
  /\ "connectivity" \notin selected => facts.tcp = <<>>
  /\ "services" \notin selected => facts.services = <<>>
  /\ "storage" \notin selected => facts.volumes = <<>> /\ facts.devices = <<>>

Baselined == IF Gated = <<>> THEN <<HealthyBaseline>> ELSE Gated

\* The findings are those of the facts when everything is collected.
FindingsInv ==
  /\ FactsInv
  /\ findings # <<>> => todo = {} /\ findings = Baselined

LEMMA SpaceIsTyped ==
  ASSUME FactsInv
  PROVE  /\ facts.volumes \in SpaceGroups
         /\ facts.devices \in Seq({"ok", "degraded", "failing", "unknown"})
BY DEF FactsInv, Storage, SpaceGroups

LEMMA GatedSound ==
  ASSUME FactsInv
  PROVE  Sound(Gated, facts, selected)
<1> DEFINE S(list) == Sound(list, facts, selected)
<1>1. S(Rules({"network", "routing", "connectivity"} \intersect selected # {},
              NetworkPath(facts)))
  BY NetworkPathSound, SoundEmpty DEF Rules
<1>2. S(Rules({"dns", "connectivity"} \subseteq selected, DnsPath(facts)))
  BY DnsPathSound, SoundEmpty DEF Rules
<1>3. S(Rules("time" \in selected, TimeState(facts)))
  BY TimeStateSound, SoundEmpty DEF Rules
<1>4. S(Rules({"resources", "storage"} \intersect selected # {},
              HostPressure(facts, selected, category) \o StorageAndHardware(facts, category)))
  BY SpaceIsTyped, HostPressureSound, StorageAndHardwareSound, SoundConcat, SoundEmpty DEF Rules
<1>5. S(Rules("connectivity" \in selected, TraceResults(facts)))
  BY TraceResultsSound, SoundEmpty DEF Rules, FactsInv
<1>6. S(Rules("services" \in selected, ServicePath(facts)))
  BY ServicePathSound, SoundEmpty DEF Rules
<1>7. S(Rules({"vpn", "services"} \subseteq selected, VpnPath(facts)))
  BY VpnPathSound, SoundEmpty DEF Rules, FactsInv
<1> QED
  BY <1>1, <1>2, <1>3, <1>4, <1>5, <1>6, <1>7, SoundConcat DEF Gated

LEMMA BaselinedSound ==
  ASSUME FactsInv
  PROVE  Sound(Baselined, facts, selected) /\ Baselined # <<>>
<1>1. CASE Gated # <<>>
  BY <1>1, GatedSound DEF Baselined
<1>2. CASE Gated = <<>>
  <2>1. SoundFinding(HealthyBaseline, facts, selected)
    BY DEF HealthyBaseline, SoundFinding, Supported, Finding, Findings, Ids, Areas
  <2>2. Baselined = <<HealthyBaseline>>
    BY <1>2 DEF Baselined
  <2>3. <<HealthyBaseline>> # <<>>
    OBVIOUS
  <2> QED
    BY <2>1, <2>2, <2>3, SoundRule
<1> QED
  BY <1>1, <1>2

LEMMA InitFindings ==
  ASSUME Init
  PROVE  FindingsInv
<1>1. /\ todo \subseteq DOMAIN Order \intersect selected /\ selected \in Selections
      /\ mac \in BOOLEAN /\ findings = <<>> /\ facts = DefaultFacts
  BY DEF Init
<1>2. /\ facts.time \in Clock /\ facts.volumes = <<>> /\ facts.devices = <<>>
      /\ facts.signals = {} /\ facts.tcp = <<>> /\ facts.services = <<>> /\ HasParts(facts)
      /\ facts.network \in Inventory /\ facts.routing \in RouteTable /\ facts.trace \in Nat
  BY <1>1 DEF DefaultFacts, Clock, HasParts, Inventory, RouteTable
<1>3. [volumes |-> facts.volumes, devices |-> facts.devices] \in Storage
  BY <1>2 DEF Storage
<1>4. FactsInv
  BY <1>1, <1>2, <1>3 DEF FactsInv, SignalsOK
<1> QED
  BY <1>1, <1>4 DEF FindingsInv

\* The parts of the facts that the invariant speaks of
Watched(f) == <<f.time, f.volumes, f.devices, f.network, f.routing, f.trace, f.signals, f.tcp,
                f.services>>

\* A turn of the loop that leaves them alone
LEMMA OtherFactsPreserve ==
  ASSUME FindingsInv, NEW d, Collect(d), HasParts(facts'), Watched(facts') = Watched(facts)
  PROVE  FindingsInv'
BY DEF FindingsInv, FactsInv, Collect, Watched

LEMMA CollectorsPreserve ==
  ASSUME FindingsInv,
         \/ CollectTime \/ CollectResources \/ CollectStorage \/ CollectNetwork \/ CollectRouting
         \/ ResolveNames \/ CheckConnectivity \/ DetectVpn \/ CheckServices
  PROVE  FindingsInv'
<1>0. HasParts(facts)
  BY DEF FindingsInv, FactsInv
<1>1. CASE CollectTime
  <2>1. PICK c \in Clocks(selected) : facts' = [facts EXCEPT !.time = c]
    BY <1>1 DEF CollectTime
  <2>2. c \in Clock
    BY CollectorsAssumption DEF FindingsInv, FactsInv
  <2>3. /\ HasParts(facts') /\ facts'.time = c
        /\ facts'.volumes = facts.volumes /\ facts'.devices = facts.devices
        /\ facts'.signals = facts.signals /\ facts'.tcp = facts.tcp
        /\ facts'.services = facts.services /\ facts'.network = facts.network
        /\ facts'.routing = facts.routing /\ facts'.trace = facts.trace
    BY <1>0, <2>1 DEF HasParts
  <2> QED
    BY <1>1, <2>2, <2>3 DEF CollectTime, Collect, FindingsInv, FactsInv
<1>2. CASE CollectResources
  <2>1. PICK load \in Loads(selected), memory \in Memories(selected),
             vectors \in BOOLEAN, battery \in {"good", "degraded"} :
          facts' = [facts EXCEPT !.cpu = load, !.memory = memory, !.vectors = vectors,
                                 !.battery = battery]
    BY <1>2 DEF CollectResources
  <2>2. HasParts(facts') /\ Watched(facts') = Watched(facts)
    BY <1>0, <2>1 DEF HasParts, Watched
  <2> QED
    BY <1>2, <2>2, OtherFactsPreserve DEF CollectResources
<1>3. CASE CollectStorage
  <2>1. PICK d \in Disks(selected) :
          facts' = [facts EXCEPT !.volumes = d.volumes, !.devices = d.devices]
    BY <1>3 DEF CollectStorage
  <2>2. d \in Storage
    BY CollectorsAssumption DEF FindingsInv, FactsInv
  <2>3. /\ HasParts(facts') /\ facts'.time = facts.time
        /\ facts'.volumes = d.volumes /\ facts'.devices = d.devices
        /\ facts'.signals = facts.signals /\ facts'.tcp = facts.tcp
        /\ facts'.services = facts.services /\ facts'.network = facts.network
        /\ facts'.routing = facts.routing /\ facts'.trace = facts.trace
    BY <1>0, <2>1 DEF HasParts
  <2>4. [volumes |-> facts'.volumes, devices |-> facts'.devices] \in Storage
    BY <2>2, <2>3 DEF Storage
  <2>5. "storage" \in selected
    BY <1>3 DEF CollectStorage, Collect, FindingsInv, FactsInv
  <2> QED
    BY <1>3, <2>3, <2>4, <2>5 DEF CollectStorage, Collect, FindingsInv, FactsInv
<1>4. CASE CollectNetwork
  <2>1. PICK l \in Links(selected) : facts' = [facts EXCEPT !.network = l]
    BY <1>4 DEF CollectNetwork
  <2>2. l \in Inventory
    BY CollectorsAssumption DEF FindingsInv, FactsInv
  <2>3. /\ HasParts(facts') /\ facts'.time = facts.time /\ facts'.network = l
        /\ facts'.volumes = facts.volumes /\ facts'.devices = facts.devices
        /\ facts'.signals = facts.signals /\ facts'.tcp = facts.tcp
        /\ facts'.services = facts.services
        /\ facts'.routing = facts.routing /\ facts'.trace = facts.trace
    BY <1>0, <2>1 DEF HasParts
  <2> QED
    BY <1>4, <2>2, <2>3 DEF CollectNetwork, Collect, FindingsInv, FactsInv
<1>5. CASE CollectRouting
  <2>1. PICK r \in RouteTables(selected) : facts' = [facts EXCEPT !.routing = r]
    BY <1>5 DEF CollectRouting
  <2>2. r \in RouteTable
    BY CollectorsAssumption DEF FindingsInv, FactsInv
  <2>3. /\ HasParts(facts') /\ facts'.time = facts.time /\ facts'.routing = r
        /\ facts'.volumes = facts.volumes /\ facts'.devices = facts.devices
        /\ facts'.signals = facts.signals /\ facts'.tcp = facts.tcp
        /\ facts'.services = facts.services
        /\ facts'.network = facts.network /\ facts'.trace = facts.trace
    BY <1>0, <2>1 DEF HasParts
  <2> QED
    BY <1>5, <2>2, <2>3 DEF CollectRouting, Collect, FindingsInv, FactsInv
<1>6. CASE ResolveNames
  <2>1. PICK l \in Lookups(selected) : facts' = [facts EXCEPT !.dns = l]
    BY <1>6 DEF ResolveNames
  <2>2. HasParts(facts') /\ Watched(facts') = Watched(facts)
    BY <1>0, <2>1 DEF HasParts, Watched
  <2> QED
    BY <1>6, <2>2, OtherFactsPreserve DEF ResolveNames
<1>7. CASE CheckConnectivity
  <2>1. PICK t \in TcpOutcomes(selected) : \E trace \in 0..Cardinality(DOMAIN t) :
          facts' = [facts EXCEPT !.tcp = t, !.trace = trace]
    BY <1>7 DEF CheckConnectivity
  <2>4. PICK trace \in 0..Cardinality(DOMAIN t) :
          facts' = [facts EXCEPT !.tcp = t, !.trace = trace]
    BY <2>1
  <2>2. /\ HasParts(facts') /\ facts'.time = facts.time
        /\ facts'.volumes = facts.volumes /\ facts'.devices = facts.devices
        /\ facts'.signals = facts.signals /\ facts'.services = facts.services
        /\ facts'.network = facts.network /\ facts'.routing = facts.routing
        /\ facts'.trace = trace
    BY <1>0, <2>4 DEF HasParts
  <2>5. trace \in Nat
    OBVIOUS
  <2>3. "connectivity" \in selected
    BY <1>7 DEF CheckConnectivity, Collect, FindingsInv, FactsInv
  <2> QED
    BY <1>7, <2>2, <2>3, <2>5 DEF CheckConnectivity, Collect, FindingsInv, FactsInv
<1>8. CASE DetectVpn
  <2>1. facts' = [facts EXCEPT !.signals = VpnSignals(facts, mac)]
    BY <1>8 DEF DetectVpn
  <2>2. SignalsOK(VpnSignals(facts, mac))
    BY VpnSignalsAreOK DEF FindingsInv, FactsInv
  <2>3. /\ HasParts(facts') /\ facts'.time = facts.time
        /\ facts'.volumes = facts.volumes /\ facts'.devices = facts.devices
        /\ facts'.signals = VpnSignals(facts, mac) /\ facts'.tcp = facts.tcp
        /\ facts'.services = facts.services /\ facts'.network = facts.network
        /\ facts'.routing = facts.routing /\ facts'.trace = facts.trace
    BY <1>0, <2>1 DEF HasParts
  <2> QED
    BY <1>8, <2>2, <2>3 DEF DetectVpn, Collect, FindingsInv, FactsInv
<1>9. CASE CheckServices
  <2>1. PICK s \in ServiceOutcomes(selected) : facts' = [facts EXCEPT !.services = s]
    BY <1>9 DEF CheckServices
  <2>2. /\ HasParts(facts') /\ facts'.time = facts.time
        /\ facts'.volumes = facts.volumes /\ facts'.devices = facts.devices
        /\ facts'.signals = facts.signals /\ facts'.tcp = facts.tcp
        /\ facts'.network = facts.network /\ facts'.routing = facts.routing
        /\ facts'.trace = facts.trace
    BY <1>0, <2>1 DEF HasParts
  <2>3. "services" \in selected
    BY <1>9 DEF CheckServices, Collect, FindingsInv, FactsInv
  <2> QED
    BY <1>9, <2>2, <2>3 DEF CheckServices, Collect, FindingsInv, FactsInv
<1> QED
  BY <1>1, <1>2, <1>3, <1>4, <1>5, <1>6, <1>7, <1>8, <1>9

LEMMA EvaluationPreserves ==
  ASSUME FindingsInv, Evaluate \/ UNCHANGED vars
  PROVE  FindingsInv'
<1>1. UNCHANGED <<selected, category, mac, todo, facts>>
  BY DEF Evaluate, vars
<1>2. FactsInv'
  BY <1>1 DEF FindingsInv, FactsInv
<1>3. Baselined' = Baselined
  BY <1>1 DEF Baselined, Gated
<1>4. findings' # <<>> => todo' = {} /\ findings' = Baselined'
  BY <1>1, <1>3 DEF Evaluate, vars, FindingsInv, Baselined
<1> QED
  BY <1>2, <1>4 DEF FindingsInv

LEMMA NextPreserves == FindingsInv /\ [Next]_vars => FindingsInv'
BY CollectorsPreserve, EvaluationPreserves DEF Next, Evaluated

\* Every run keeps the invariant, with or without its guided summary.
THEOREM FindingsInvHolds == Spec => []FindingsInv
<1>1. Init => FindingsInv
  BY InitFindings
<1> QED
  BY <1>1, NextPreserves, PTL DEF Spec

\* ... and building the summary changes nothing that the invariant speaks of.
THEOREM GuidedFindingsInvHolds == GSpec => []FindingsInv
<1>1. GInit => FindingsInv
  BY InitFindings DEF GInit
<1>2. FindingsInv /\ [GNext]_<<vars, gvars>> => FindingsInv'
  BY NextPreserves DEF GNext, Explain, Guided
<1> QED
  BY <1>1, <1>2, PTL DEF GSpec
-----------------------------------------------------------------------------
(* No contradiction.                                                        *)

LEMMA FoundIsSupported ==
  ASSUME FindingsInv
  PROVE  /\ findings # <<>> => Sound(findings, facts, selected)
         /\ \A id \in Found : Supported(facts, selected, id)
<1>1. findings # <<>> => Sound(findings, facts, selected)
  BY BaselinedSound DEF FindingsInv
<1>2. ASSUME NEW id \in Found PROVE Supported(facts, selected, id)
  <2>1. PICK i \in DOMAIN findings : id = findings[i].id
    BY DEF Found
  <2>2. findings # <<>>
    BY <2>1, NoFindings DEF FindingsIn
  <2>3. findings[i] \in FindingsIn(findings)
    BY <2>1 DEF FindingsIn
  <2>4. SoundFinding(findings[i], facts, selected)
    BY <1>1, <2>2, <2>3 DEF Sound
  <2> QED
    BY <2>1, <2>4 DEF SoundFinding
<1> QED
  BY <1>1, <1>2

\* What a finding and one that denies it say of the facts cannot both hold,
\* or the pair is conceded: one lemma per group of statements.
LEMMA ReachedOrNot ==
  ASSUME NEW a \in Reached, NEW b \in Unreached,
         Supported(facts, selected, a), Supported(facts, selected, b)
  PROVE  Conceded({a, b})
<1>1. PublicSucceeded(facts.tcp) = {}
  BY DEF Supported, Unreached, Reachable, PublicSucceeded
<1>2. CASE a = "mixed-external-tcp-results" \/ a = "dns-failure-raw-ip-success"
  BY <1>1, <1>2 DEF Supported, Mixed
<1>3. CASE a = "internet-ok-selected-service-failure"
  <2>1. Reachable(facts.tcp)
    BY <1>3 DEF Supported
  <2>2. Succeeded(facts.tcp) \intersect Private # {}
    BY <1>1, <2>1 DEF Reachable, PublicSucceeded
  <2>3. b # "no-default-route-no-internet"
    BY <2>1 DEF Supported
  <2> QED
    BY <1>1, <1>3, <2>2, <2>3 DEF Conceded, Unreached
<1>4. CASE a = "mixed-service-results"
  BY <1>1, <1>4 DEF Supported, Mixed, Conceded
<1>5. CASE a = "network-explanation-not-supported"
  BY <1>1, <1>5 DEF Supported, NetworkNotToBlame, PublicFailed, PublicSucceeded, Failed, Succeeded
<1> QED
  BY <1>2, <1>3, <1>4, <1>5 DEF Reached

LEMMA NetworkOkOrNot ==
  ASSUME Supported(facts, selected, "network-explanation-not-supported"),
         NEW b, Supported(facts, selected, b),
         b \in (Reached \ {"network-explanation-not-supported"})
               \cup {"dns-partial-resolution", "partial-trace",
                     "active-interface-no-local-address", "vpn-signal-private-resource-failure",
                     "host-pressure-with-connectivity-degradation"}
  PROVE  Conceded({"network-explanation-not-supported", b})
<1>1. NetworkNotToBlame(facts, selected)
  BY DEF Supported
<1>2. CASE b \in {"mixed-external-tcp-results", "host-pressure-with-connectivity-degradation"}
  BY <1>1, <1>2 DEF Supported, Mixed, NetworkNotToBlame
<1>3. CASE b \in {"dns-failure-raw-ip-success", "dns-partial-resolution"}
  <2>1. "dns" \in selected /\ LookupsWith(facts, "failed") # {}
    BY <1>3 DEF Supported
  <2> QED
    BY <1>1, <2>1 DEF NetworkNotToBlame, LookupsWith
<1>4. CASE b \in {"internet-ok-selected-service-failure", "mixed-service-results",
                 "vpn-signal-private-resource-failure", "partial-trace"}
  BY <1>4 DEF Conceded
<1>5. CASE b = "active-interface-no-local-address"
  BY <1>5 DEF Conceded, Reached
<1> QED
  BY <1>2, <1>3, <1>4, <1>5 DEF Reached

LEMMA RouteOrNot ==
  ASSUME NEW a, NEW b, Supported(facts, selected, a), Supported(facts, selected, b)
  PROVE  /\ ~(/\ a \in {"default-route-present-but-inconsistent",
                        "route-and-dns-ok-external-tcp-failure"}
              /\ b = "no-default-route-no-internet")
         /\ ~(/\ a = "route-and-dns-ok-external-tcp-failure"
              /\ b = "default-route-present-but-inconsistent")
BY DEF Supported

LEMMA NamesOrNot ==
  ASSUME NEW a, NEW b, Supported(facts, selected, a), Supported(facts, selected, b),
         a \in {"route-and-dns-ok-external-tcp-failure", "dns-partial-resolution"},
         b \in {"dns-failure-raw-ip-success", "dns-partial-resolution"}, a # b
  PROVE  Conceded({a, b})
<1>1. CASE b = "dns-failure-raw-ip-success"
  <2>1. LookupsWith(facts, "failed") = DOMAIN facts.dns /\ LookupsWith(facts, "ok") # {}
    BY <1>1 DEF Supported
  <2> QED
    BY <2>1 DEF LookupsWith
<1>2. CASE b = "dns-partial-resolution"
  BY <1>2 DEF Conceded
<1> QED
  BY <1>1, <1>2

\* A route that is in order goes through an interface with an address.
LEMMA AddressOrNot ==
  ASSUME FactsInv, NEW a \in Reached \cup {"route-and-dns-ok-external-tcp-failure"},
         Supported(facts, selected, a),
         Supported(facts, selected, "active-interface-no-local-address")
  PROVE  Conceded({a, "active-interface-no-local-address"})
<1>1. CASE a \in Reached
  BY <1>1 DEF Conceded
<1>2. CASE a = "route-and-dns-ok-external-tcp-failure"
  <2> DEFINE iface == facts.routing.interface
             down == IF iface \notin facts.network.up THEN 1 ELSE 0
             bare == IF iface \in facts.network.listed /\ iface \notin facts.network.addressed
                     THEN 1 ELSE 0
  <2>1. /\ facts.routing.route /\ Inconsistencies(facts) = 0 /\ facts.network.addressed = {}
    BY <1>2 DEF Supported
  <2>2. facts.routing.observations \in Nat /\ facts.network.up \subseteq facts.network.listed
    BY DEF FactsInv, RouteTable, Inventory
  <2>3. Inconsistencies(facts) = facts.routing.observations + down + bare
    BY <2>1 DEF Inconsistencies
  <2>4. down \in {0, 1} /\ bare \in {0, 1} /\ (down = 1 \/ bare = 1)
    BY <2>1, <2>2
  <2> HIDE DEF down, bare
  <2> QED
    BY <2>1, <2>2, <2>3, <2>4
<1> QED
  BY <1>1, <1>2

LEMMA ServicesOrNot ==
  ~(/\ Supported(facts, selected, "mixed-service-results")
    /\ Supported(facts, selected, "internet-ok-selected-service-failure"))
BY DEF Supported, Mixed

LEMMA ClockOrNot ==
  ASSUME FactsInv, NEW a, NEW b, Supported(facts, selected, a), Supported(facts, selected, b)
  PROVE  /\ ~(/\ a \in {"system-clock-materially-inaccurate",
                        "local-time-may-impact-secure-service-access",
                        "no-significant-time-issue"}
              /\ b = "insufficient-clock-drift-evidence")
         /\ ~(/\ a = "no-significant-time-issue"
              /\ b \in {"system-clock-materially-inaccurate",
                        "timezone-configuration-inconsistent",
                        "local-time-may-impact-secure-service-access"})
         /\ ~(/\ a = "system-clock-materially-inaccurate"
              /\ b = "local-time-may-impact-secure-service-access")
<1>1. facts.time.skew \in Nat
  BY DEF FactsInv, Clock
<1>2. /\ a = "no-significant-time-issue" =>
           facts.time.skew < 120 /\ facts.time.zone # "inconsistent"
      /\ a = "system-clock-materially-inaccurate" => facts.time.skew >= 300
      /\ b = "system-clock-materially-inaccurate" => facts.time.skew >= 300
      /\ b = "local-time-may-impact-secure-service-access" => facts.time.skew \in 120..299
      /\ b = "timezone-configuration-inconsistent" => facts.time.zone = "inconsistent"
  BY DEF Supported
<1>3. ~(/\ a \in {"system-clock-materially-inaccurate",
                 "local-time-may-impact-secure-service-access", "no-significant-time-issue"}
        /\ b = "insufficient-clock-drift-evidence")
  BY DEF Supported, Checked
<1>4. ~(/\ a = "no-significant-time-issue"
        /\ b \in {"system-clock-materially-inaccurate", "timezone-configuration-inconsistent",
                  "local-time-may-impact-secure-service-access"})
  BY <1>1, <1>2
<1>5. ~(/\ a = "system-clock-materially-inaccurate"
        /\ b = "local-time-may-impact-secure-service-access")
  BY <1>1, <1>2
<1> QED
  BY <1>3, <1>4, <1>5

LEMMA PressureOrNot ==
  ASSUME NEW a, NEW b, Supported(facts, selected, a), Supported(facts, selected, b)
  PROVE  /\ ~(/\ a = "no-significant-host-pressure"
              /\ b \in {"high-memory-pressure", "sustained-cpu-saturation",
                        "device-slow-local-host-pressure",
                        "local-resource-pressure-no-dominant-source",
                        "host-pressure-with-connectivity-degradation"})
         /\ ~(/\ a = "local-resource-pressure-no-dominant-source"
              /\ b \in {"high-memory-pressure", "sustained-cpu-saturation",
                        "device-slow-local-host-pressure",
                        "host-pressure-with-connectivity-degradation"})
<1>1. Strong(facts) => ~HealthyHost(facts)
  BY DEF Strong, HealthyHost, CpuPresent, MemoryPresent
<1> QED
  BY <1>1 DEF Supported

LEMMA StorageOrNot ==
  ASSUME Supported(facts, selected, "no-significant-storage-pressure"),
         NEW b \in {"critical-disk-space-exhaustion", "low-disk-space-operational-risk",
                    "storage-device-health-failure", "storage-device-health-warning"},
         Supported(facts, selected, b)
  PROVE  FALSE
<1>1. DOMAIN facts.volumes = {} /\ DeviceCondition(facts.devices) = "healthy"
  BY EmptySeq DEF Supported
<1> QED
  BY <1>1 DEF Supported

LEMMA OnlyConceded ==
  ASSUME FindingsInv, NEW s \in Statements,
         NEW a \in s.made \intersect Found, NEW b \in s.denied \intersect Found
  PROVE  Conceded({a, b})
<1>1. Supported(facts, selected, a) /\ Supported(facts, selected, b) /\ FactsInv
  BY FoundIsSupported DEF FindingsInv
<1>2. CASE a \in Reached /\ b \in Unreached
  BY <1>1, <1>2, ReachedOrNot
<1>3. CASE /\ a = "network-explanation-not-supported"
           /\ b \in Unreached \cup (Reached \ {"network-explanation-not-supported"})
                    \cup {"dns-partial-resolution", "partial-trace",
                          "active-interface-no-local-address",
                          "vpn-signal-private-resource-failure",
                          "host-pressure-with-connectivity-degradation"}
  <2>1. CASE b \in Unreached
    BY <1>1, <1>3, <2>1, ReachedOrNot DEF Reached
  <2>2. CASE b \notin Unreached
    BY <1>1, <1>3, <2>2, NetworkOkOrNot
  <2> QED
    BY <2>1, <2>2
<1>4. CASE /\ a \in Reached \cup {"route-and-dns-ok-external-tcp-failure"}
           /\ b = "active-interface-no-local-address"
  BY <1>1, <1>4, AddressOrNot
<1>5. CASE /\ a \in {"route-and-dns-ok-external-tcp-failure", "dns-partial-resolution"}
           /\ b \in {"dns-failure-raw-ip-success", "dns-partial-resolution"} /\ a # b
  BY <1>1, <1>5, NamesOrNot
<1>6. CASE ~(\/ a \in Reached /\ b \in Unreached
             \/ /\ a = "network-explanation-not-supported"
                /\ b \in Unreached \cup (Reached \ {"network-explanation-not-supported"})
                         \cup {"dns-partial-resolution", "partial-trace",
                               "active-interface-no-local-address",
                               "vpn-signal-private-resource-failure",
                               "host-pressure-with-connectivity-degradation"}
             \/ /\ a \in Reached \cup {"route-and-dns-ok-external-tcp-failure"}
                /\ b = "active-interface-no-local-address"
             \/ /\ a \in {"route-and-dns-ok-external-tcp-failure", "dns-partial-resolution"}
                /\ b \in {"dns-failure-raw-ip-success", "dns-partial-resolution"} /\ a # b)
  <2> DEFINE Pair(made, denied) == a \in made /\ b \in denied
  <2>1. \/ Pair({"default-route-present-but-inconsistent",
                 "route-and-dns-ok-external-tcp-failure"}, {"no-default-route-no-internet"})
        \/ Pair({"route-and-dns-ok-external-tcp-failure"},
                {"default-route-present-but-inconsistent"})
        \/ Pair({"mixed-service-results"}, {"internet-ok-selected-service-failure"})
        \/ Pair({"system-clock-materially-inaccurate",
                 "local-time-may-impact-secure-service-access", "no-significant-time-issue"},
                {"insufficient-clock-drift-evidence"})
        \/ Pair({"no-significant-time-issue"},
                {"system-clock-materially-inaccurate", "timezone-configuration-inconsistent",
                 "local-time-may-impact-secure-service-access"})
        \/ Pair({"system-clock-materially-inaccurate"},
                {"local-time-may-impact-secure-service-access"})
        \/ Pair({"no-significant-host-pressure"},
                {"high-memory-pressure", "sustained-cpu-saturation",
                 "device-slow-local-host-pressure", "local-resource-pressure-no-dominant-source",
                 "host-pressure-with-connectivity-degradation"})
        \/ Pair({"local-resource-pressure-no-dominant-source"},
                {"high-memory-pressure", "sustained-cpu-saturation",
                 "device-slow-local-host-pressure",
                 "host-pressure-with-connectivity-degradation"})
        \/ Pair({"no-significant-storage-pressure"},
                {"critical-disk-space-exhaustion", "low-disk-space-operational-risk",
                 "storage-device-health-failure", "storage-device-health-warning"})
    BY <1>6 DEF Statements
  <2> QED
    BY <1>1, <2>1, RouteOrNot, ServicesOrNot, ClockOrNot, PressureOrNot, StorageOrNot
<1> QED
  BY <1>2, <1>3, <1>4, <1>5, <1>6

\* Whatever is selected and collected, no finding of a run denies what another
\* one says of the endpoint, but for the pairs that Conceded names, with or
\* without a guided summary: the rules, each of which reads the facts on its
\* own, cannot be satisfied together.
THEOREM NoContradictionHolds == GSpec => []NoContradiction
<1>1. FindingsInv => NoContradiction
  BY OnlyConceded DEF NoContradiction
<1> QED
  BY <1>1, GuidedFindingsInvHolds, PTL

-----------------------------------------------------------------------------
(* Healthy means that nothing was found.                                    *)

LEMMA RankIs ==
  ASSUME NEW x \in Findings
  PROVE  /\ Severity(x) \in 0..3 /\ (Severity(x) = 0 <=> x.severity = "info")
         /\ Rank(x) \in Nat /\ Rank(x) <= 399
         /\ Rank(x) <= 99 <=> x.severity = "info"
<1>1. Severity(x) \in 0..3 /\ (Severity(x) = 0 <=> x.severity = "info")
  BY DEF Findings, Severity
<1>2. x.confidence \in 0..99
  BY DEF Findings
<1> QED
  BY <1>1, <1>2 DEF Rank

\* The first of the findings of the highest rank
Best == {i \in DOMAIN findings :
           \A j \in DOMAIN findings : Rank(findings[j]) <= Rank(findings[i])}

LEMMA FaultDomainIs ==
  ASSUME findings \in Seq(Findings), findings # <<>>
  PROVE  \E i \in Best : FaultDomain = findings[i].area /\ \A j \in Best : i <= j
<1>1. /\ DOMAIN findings = 1..Len(findings) /\ Len(findings) \in Nat /\ Len(findings) # 0
      /\ \A i \in DOMAIN findings : findings[i] \in Findings
  BY LenProperties, EmptySeq, ElementOfSeq
<1> DEFINE gaps == {399 - Rank(findings[i]) : i \in DOMAIN findings}
<1>2. gaps \in SUBSET Nat /\ gaps # {}
  <2>1. \A i \in DOMAIN findings : 399 - Rank(findings[i]) \in Nat
    BY <1>1, RankIs
  <2>2. 1 \in DOMAIN findings
    BY <1>1
  <2> QED
    BY <2>1, <2>2
<1>3. PICK k \in gaps : \A l \in gaps : k <= l
  BY <1>2, LeastOf
<1>4. PICK i \in DOMAIN findings : k = 399 - Rank(findings[i])
  BY <1>3
<1>5. ASSUME NEW j \in DOMAIN findings PROVE Rank(findings[j]) <= Rank(findings[i])
  <2>1. k <= 399 - Rank(findings[j])
    BY <1>3
  <2> QED
    BY <1>1, <1>4, <2>1, RankIs
<1>6. i \in Best /\ Best \in SUBSET Nat
  BY <1>1, <1>5 DEF Best
<1>7. PICK b \in Best : \A j \in Best : b <= j
  BY <1>6, LeastOf
<1>8. FaultDomain = findings[CHOOSE c \in Best : \A j \in Best : c <= j].area
  BY DEF FaultDomain, Best
<1>9. (CHOOSE c \in Best : \A j \in Best : c <= j) = b
  BY <1>6, <1>7
<1> QED
  BY <1>7, <1>8, <1>9

LEMMA HealthyMeansClean ==
  ASSUME FindingsInv, findings # <<>>, FaultDomain = "healthy", NEW i \in DOMAIN findings
  PROVE  findings[i].severity = "info"
<1>1. findings \in Seq(Findings) /\ \A j \in DOMAIN findings :
                                      SoundFinding(findings[j], facts, selected)
  BY FoundIsSupported DEF Sound, FindingsIn
<1>2. PICK b \in Best : FaultDomain = findings[b].area
  BY <1>1, FaultDomainIs
<1>3. b \in DOMAIN findings /\ Rank(findings[i]) <= Rank(findings[b])
  BY <1>2 DEF Best
<1>4. findings[b] \in Findings /\ findings[i] \in Findings /\ findings[b].severity = "info"
  BY <1>1, <1>2, <1>3 DEF SoundFinding
<1> QED
  BY <1>3, <1>4, RankIs

\* However certain an all-clear is, it never outranks a problem: a run is
\* healthy only when each of its findings is informational.
THEOREM HealthyOnlyWhenCleanHolds == GSpec => []HealthyOnlyWhenClean
<1>1. FindingsInv => HealthyOnlyWhenClean
  BY HealthyMeansClean DEF HealthyOnlyWhenClean
<1> QED
  BY <1>1, GuidedFindingsInvHolds, PTL
-----------------------------------------------------------------------------
(* Trouble is reported.                                                     *)

Problem(list) == \E x \in FindingsIn(list) : x.severity # "info"

\* A problem of either part is one of the whole.
LEMMA ProblemConcat ==
  ASSUME NEW f, NEW enabled, NEW s, NEW t, Sound(s, f, enabled), Sound(t, f, enabled)
  PROVE  Sound(s \o t, f, enabled) /\ (Problem(s) \/ Problem(t) => Problem(s \o t))
BY ConcatFindings, SoundConcat DEF Problem, Sound

LEMMA ProblemOne ==
  ASSUME NEW x \in Findings, x.severity # "info"
  PROVE  Problem(<<x>>)
BY OneFinding DEF Problem

LEMMA RulesReport ==
  ASSUME NEW f
  PROVE  /\ Mixed(f.tcp) => Problem(MixedTcpRule(f))
         /\ Mixed(f.services) => Problem(MixedServicesRule(f))
         /\ DevicesThat(f.devices, "failing") # {} => Problem(DeviceFailureRule(f))
         /\ (DevicesThat(f.devices, "failing") = {} /\ DevicesThat(f.devices, "degraded") # {})
              => Problem(DeviceWarningRule(f))
<1> USE DEF If, Finding, Findings, Ids, Areas
<1>1. Mixed(f.tcp) => Problem(MixedTcpRule(f))
  BY ProblemOne DEF MixedTcpRule, Mixed
<1>2. Mixed(f.services) => Problem(MixedServicesRule(f))
  BY ProblemOne DEF MixedServicesRule, Mixed
<1>3. DevicesThat(f.devices, "failing") # {} => Problem(DeviceFailureRule(f))
  BY ProblemOne DEF DeviceFailureRule, DeviceCondition
<1>4. (DevicesThat(f.devices, "failing") = {} /\ DevicesThat(f.devices, "degraded") # {})
        => Problem(DeviceWarningRule(f))
  BY ProblemOne DEF DeviceWarningRule, DeviceCondition
<1> QED
  BY <1>1, <1>2, <1>3, <1>4

\* Whatever group comes first, it has a finding.
LEMMA SpaceReported ==
  ASSUME NEW f, f.volumes \in SpaceGroups, f.volumes # <<>>
  PROVE  Problem(StorageSpace(f))
<1>1. DOMAIN f.volumes = 1..Len(f.volumes) /\ Len(f.volumes) \in Nat /\ Len(f.volumes) # 0
  BY LenProperties, EmptySeq DEF SpaceGroups
<1>2. 1 \in DOMAIN f.volumes
  BY <1>1
<1>3. StorageSpace(f)[1] = SpaceFinding(f.volumes[1]) /\ 1 \in DOMAIN StorageSpace(f)
  BY <1>2 DEF StorageSpace
<1>4. SpaceFinding(f.volumes[1]).severity # "info"
  BY DEF SpaceFinding, Finding
<1> QED
  BY <1>3, <1>4 DEF Problem, FindingsIn

LEMMA MixedTcpReported ==
  ASSUME NEW f, NEW enabled, Mixed(f.tcp)
  PROVE  Problem(NetworkPath(f))
<1>1. Problem(MixedTcpRule(f))
  BY RulesReport
<1> QED
  BY <1>1, NetworkPathRulesSound, SoundConcat, ProblemConcat DEF NetworkPath

LEMMA MixedServicesReported ==
  ASSUME NEW f, NEW enabled, Mixed(f.services)
  PROVE  Problem(ServicePath(f))
<1>1. Problem(MixedServicesRule(f))
  BY RulesReport
<1> QED
  BY <1>1, ServicePathRulesSound, ProblemConcat DEF ServicePath

LEMMA StorageReported ==
  ASSUME FactsInv, NEW kind, StorageTrouble
  PROVE  Problem(StorageAndHardware(facts, kind))
<1> DEFINE S(list) == Sound(list, facts, {})
           s1 == StorageSpace(facts)
           s2 == s1 \o NoStoragePressureRule(facts, kind)
           s3 == s2 \o BatteryRule(facts)
           s4 == s3 \o DeviceFailureRule(facts)
<1>0. /\ S(s1) /\ S(NoStoragePressureRule(facts, kind))
      /\ S(BatteryRule(facts)) /\ S(DeviceFailureRule(facts)) /\ S(DeviceWarningRule(facts))
  BY SpaceIsTyped, StorageSpaceSound, StorageRulesSound
<1>1. \/ Problem(s1) \/ Problem(DeviceFailureRule(facts)) \/ Problem(DeviceWarningRule(facts))
  <2>1. CASE facts.volumes # <<>>
    BY <2>1, SpaceIsTyped, SpaceReported
  <2>2. CASE \E i \in DOMAIN facts.devices : facts.devices[i] \in {"degraded", "failing"}
    <3>1. \/ DevicesThat(facts.devices, "failing") # {}
          \/ DevicesThat(facts.devices, "degraded") # {}
      BY <2>2 DEF DevicesThat
    <3> QED
      BY <3>1, RulesReport
  <2> QED
    BY <2>1, <2>2 DEF StorageTrouble
<1>2. S(s2) /\ (Problem(s1) => Problem(s2))
  BY <1>0, ProblemConcat
<1>3. S(s3) /\ (Problem(s2) => Problem(s3))
  BY <1>0, <1>2, ProblemConcat
<1>4. S(s4) /\ (Problem(s3) \/ Problem(DeviceFailureRule(facts)) => Problem(s4))
  BY <1>0, <1>3, ProblemConcat
<1>5. Problem(s4) \/ Problem(DeviceWarningRule(facts))
        => Problem(s4 \o DeviceWarningRule(facts))
  BY <1>0, <1>4, ProblemConcat
<1> QED
  BY <1>1, <1>2, <1>3, <1>4, <1>5 DEF StorageAndHardware

InTrouble == Mixed(facts.tcp) \/ Mixed(facts.services) \/ StorageTrouble

\* The rules that see the trouble are among those that are evaluated: the
\* facts of an unselected domain show none.
LEMMA GatedReports ==
  ASSUME FactsInv, InTrouble
  PROVE  Problem(Gated)
<1> DEFINE S(list) == Sound(list, facts, selected)
           r1 == Rules({"network", "routing", "connectivity"} \intersect selected # {},
                       NetworkPath(facts))
           r2 == Rules({"dns", "connectivity"} \subseteq selected, DnsPath(facts))
           r3 == Rules("time" \in selected, TimeState(facts))
           r4 == Rules({"resources", "storage"} \intersect selected # {},
                       HostPressure(facts, selected, category)
                         \o StorageAndHardware(facts, category))
           r5 == Rules("connectivity" \in selected, TraceResults(facts))
           r6 == Rules("services" \in selected, ServicePath(facts))
           r7 == Rules({"vpn", "services"} \subseteq selected, VpnPath(facts))
<1>1. S(r1) /\ S(r2) /\ S(r3) /\ S(r4) /\ S(r5) /\ S(r6) /\ S(r7)
  <2>1. S(r2)
    BY DnsPathSound, SoundEmpty DEF Rules
  <2>2. S(r4)
    BY SpaceIsTyped, HostPressureSound, StorageAndHardwareSound, SoundConcat, SoundEmpty
       DEF Rules
  <2>3. S(r7)
    BY VpnPathSound, SoundEmpty DEF Rules, FactsInv
  <2> QED
    BY <2>1, <2>2, <2>3, NetworkPathSound, TimeStateSound, TraceResultsSound, ServicePathSound,
       SoundEmpty DEF Rules, FactsInv
<1>2. ~Mixed(<<>>)
  BY EmptySeq DEF Mixed, PublicFailed, Failed
<1>3. Mixed(facts.tcp) => Problem(r1)
  <2>1. Mixed(facts.tcp) => {"network", "routing", "connectivity"} \intersect selected # {}
    BY <1>2 DEF FactsInv
  <2> QED
    BY <2>1, MixedTcpReported DEF Rules
<1>4. Mixed(facts.services) => Problem(r6)
  BY <1>2, MixedServicesReported DEF FactsInv, Rules
<1>5. StorageTrouble => Problem(r4)
  <2> SUFFICES ASSUME StorageTrouble
               PROVE  Problem(r4)
    OBVIOUS
  <2>1. "storage" \in selected
    BY EmptySeq DEF FactsInv, StorageTrouble
  <2>2. Problem(StorageAndHardware(facts, category))
    BY StorageReported
  <2>3. r4 = HostPressure(facts, selected, category) \o StorageAndHardware(facts, category)
    BY <2>1 DEF Rules
  <2> HIDE DEF r4
  <2> QED
    BY <2>2, <2>3, SpaceIsTyped, HostPressureSound, StorageAndHardwareSound, ProblemConcat
<1>6. Gated = r1 \o r2 \o r3 \o r4 \o r5 \o r6 \o r7
  BY DEF Gated
<1> HIDE DEF r1, r2, r3, r4, r5, r6, r7, S
<1> DEFINE t2 == r1 \o r2  t3 == t2 \o r3  t4 == t3 \o r4  t5 == t4 \o r5  t6 == t5 \o r6
<1>7. ASSUME NEW s, NEW t, S(s), S(t)
      PROVE  S(s \o t) /\ (Problem(s) \/ Problem(t) => Problem(s \o t))
  BY <1>7, ProblemConcat DEF S
<1>8. S(t2) /\ (Problem(r1) => Problem(t2))
  BY <1>1, <1>7
<1>9. S(t3) /\ (Problem(t2) => Problem(t3))
  BY <1>1, <1>7, <1>8
<1>10. S(t4) /\ (Problem(t3) \/ Problem(r4) => Problem(t4))
  BY <1>1, <1>7, <1>9
<1>11. S(t5) /\ (Problem(t4) => Problem(t5))
  BY <1>1, <1>7, <1>10
<1>12. S(t6) /\ (Problem(t5) \/ Problem(r6) => Problem(t6))
  BY <1>1, <1>7, <1>11
<1>13. Problem(t6) => Problem(t6 \o r7)
  BY <1>1, <1>7, <1>12
<1> QED
  BY <1>3, <1>4, <1>5, <1>6, <1>8, <1>9, <1>10, <1>11, <1>12, <1>13 DEF InTrouble

LEMMA TroubleReported ==
  ASSUME FindingsInv, findings # <<>>, InTrouble
  PROVE  FaultDomain # "healthy"
<1>1. PICK x \in FindingsIn(Gated) : x.severity # "info"
  BY GatedReports DEF FindingsInv, Problem
<1>2. Gated # <<>>
  BY <1>1, NoFindings
<1>3. findings = Gated
  BY <1>2 DEF FindingsInv, Baselined
<1>4. PICK i \in DOMAIN findings : x = findings[i]
  BY <1>1, <1>3 DEF FindingsIn
<1> QED
  BY <1>1, <1>4, HealthyMeansClean

LEMMA SaturationIsPressure ==
  ASSUME FindingsInv, CpuSaturation(facts.cpu) \in {"high", "elevated"}
  PROVE  "no-significant-host-pressure" \notin Found
<1>1. CpuPresent(facts.cpu)
  BY DEF CpuPresent, CpuStrong, CpuSaturation
<1>2. "no-significant-host-pressure" \in Found => HealthyHost(facts)
  BY FoundIsSupported DEF Supported
<1> QED
  BY <1>1, <1>2 DEF HealthyHost

\* A run that reached some public targets and not others, or that saw a volume
\* under pressure or a device that is not well, is not reported as healthy;
\* nor is a saturated processor called insignificant.
THEOREM TroubleIsNotHealthyHolds == GSpec => []TroubleIsNotHealthy
<1>1. FindingsInv => TroubleIsNotHealthy
  BY TroubleReported, SaturationIsPressure DEF TroubleIsNotHealthy, InTrouble
<1> QED
  BY <1>1, GuidedFindingsInvHolds, PTL
-----------------------------------------------------------------------------
(* The guided summary.                                                      *)

\* No rule needs the filter of the summary: what it reports is supported.
LEMMA EveryFindingIsSafe ==
  ASSUME FindingsInv, NEW i \in DOMAIN findings
  PROVE  Safe(findings[i])
<1>1. findings # <<>>
  BY EmptySeq
<1>2. Supported(facts, selected, findings[i].id)
  BY <1>1, FoundIsSupported DEF Found
<1>3. findings[i].id = "no-significant-storage-pressure" => ~StorageIssue
  <2> SUFFICES ASSUME findings[i].id = "no-significant-storage-pressure"
               PROVE  ~StorageIssue
    OBVIOUS
  <2>1. DOMAIN facts.volumes = {} /\ DeviceCondition(facts.devices) = "healthy"
    BY <1>2, EmptySeq DEF Supported
  <2>2. DevicesThat(facts.devices, "failing") = {} /\ DevicesThat(facts.devices, "degraded") = {}
    BY <2>1 DEF DeviceCondition
  <2> QED
    BY <2>1, <2>2 DEF StorageIssue, GroupAt, DevicesThat
<1> QED
  BY <1>2, <1>3 DEF Safe, Supported, GroupAt

\* What the choices of FirstThree come to
LEMMA FirstIs ==
  ASSUME findings \in Seq(Findings), NEW K \in SUBSET DOMAIN findings, K # {}
  PROVE  First(K) \in K /\ \A j \in K \ {First(K)} : Before(First(K), j)
<1>1. /\ DOMAIN findings \subseteq Nat
      /\ \A i \in DOMAIN findings : findings[i] \in Findings
  BY LenProperties, ElementOfSeq
<1>2. \A i \in K : i \in Nat /\ Rank(findings[i]) \in Nat /\ Rank(findings[i]) <= 399
  BY <1>1, RankIs
<1> DEFINE gaps == {399 - Rank(findings[i]) : i \in K}
<1>3. gaps \in SUBSET Nat /\ gaps # {}
  BY <1>2
<1>4. PICK k \in gaps : \A l \in gaps : k <= l
  BY <1>3, LeastOf
<1> DEFINE top == {i \in K : 399 - Rank(findings[i]) = k}
<1>5. top \in SUBSET Nat /\ top # {}
  BY <1>2, <1>4
<1>6. PICK i \in top : \A j \in top : i <= j
  BY <1>5, LeastOf
<1>7. ASSUME NEW j \in K \ {i} PROVE Before(i, j)
  <2>1. k <= 399 - Rank(findings[j]) /\ k = 399 - Rank(findings[i])
    BY <1>4, <1>6
  <2>2. Rank(findings[j]) = Rank(findings[i]) => i < j
    BY <1>2, <1>6
  <2> QED
    BY <1>2, <2>1, <2>2 DEF Before
<1> QED
  BY <1>6, <1>7 DEF First

IsFirstThree(s, K) ==
  /\ s \in Seq(K)
  /\ K # {} => s # <<>> /\ \A j \in K \ {s[1]} : Before(s[1], j)
  /\ \A i \in K : (\A k \in DOMAIN s : s[k] # i) =>
       Len(s) = 3 /\ \A k \in 1..3 : Before(s[k], i)

LEMMA FirstThreeIs ==
  ASSUME findings \in Seq(Findings), NEW K \in SUBSET DOMAIN findings
  PROVE  IsFirstThree(FirstThree(K), K)
<1> DEFINE one   == First(K)
           two   == First(K \ {one})
           three == First(K \ {one, two})
<1>1. CASE K = {}
  <2>1. FirstThree(K) = <<>>
    BY <1>1 DEF FirstThree
  <2> QED
    BY <1>1, <2>1, EmptySeq DEF IsFirstThree
<1>2. CASE K # {} /\ K = {one}
  <2>1. FirstThree(K) = <<one>> /\ one \in K
    BY <1>2 DEF FirstThree
  <2>2. <<one>> \in Seq(K) /\ <<one>> # <<>> /\ <<one>>[1] = one /\ DOMAIN <<one>> = {1}
    BY <2>1
  <2> HIDE DEF one
  <2> QED
    BY <1>2, <2>1, <2>2 DEF IsFirstThree
<1>3. CASE K # {} /\ K # {one} /\ K = {one, two}
  <2>1. FirstThree(K) = <<one, two>> /\ one \in K /\ two \in K
    BY <1>3 DEF FirstThree
  <2>2. \A j \in K \ {one} : Before(one, j)
    BY <1>3, FirstIs
  <2>3. /\ <<one, two>> \in Seq(K) /\ <<one, two>> # <<>> /\ DOMAIN <<one, two>> = 1..2
        /\ <<one, two>>[1] = one /\ <<one, two>>[2] = two
    BY <2>1
  <2> DEFINE s == <<one, two>>
  <2>4. \A i \in K : \E k \in DOMAIN s : s[k] = i
    BY <1>3, <2>3
  <2> HIDE DEF one, two, s
  <2> QED
    BY <1>3, <2>1, <2>2, <2>3, <2>4 DEF IsFirstThree, s
<1>4. CASE K # {} /\ K # {one} /\ K # {one, two}
  <2>1. FirstThree(K) = <<one, two, three>>
    BY <1>4 DEF FirstThree
  <2>2. one \in K /\ \A j \in K \ {one} : Before(one, j)
    BY <1>4, FirstIs
  <2>3. K \ {one} # {}
    BY <1>4, <2>2
  <2>4. two \in K \ {one} /\ \A j \in (K \ {one}) \ {two} : Before(two, j)
    <3>1. K \ {one} \in SUBSET DOMAIN findings
      OBVIOUS
    <3> QED
      BY <2>3, <3>1, FirstIs
  <2>5. K \ {one, two} # {}
    BY <1>4, <2>2, <2>4
  <2>6. three \in K \ {one, two} /\ \A j \in (K \ {one, two}) \ {three} : Before(three, j)
    <3>1. K \ {one, two} \in SUBSET DOMAIN findings
      OBVIOUS
    <3> QED
      BY <2>5, <3>1, FirstIs
  <2> DEFINE s == <<one, two, three>>
  <2>7. one \in K /\ two \in K /\ three \in K
    BY <2>2, <2>4, <2>6
  <2> HIDE DEF one, two, three
  <2>8. /\ s \in Seq(K) /\ Len(s) = 3 /\ DOMAIN s = 1..3 /\ s # <<>>
        /\ s[1] = one /\ s[2] = two /\ s[3] = three
    BY <2>7
  <2>9. FirstThree(K) = s
    BY <2>1
  <2>10. ASSUME NEW i \in K, \A k \in DOMAIN s : s[k] # i
         PROVE  \A k \in 1..3 : Before(s[k], i)
    <3>1. i \notin {one, two, three}
      BY <2>8, <2>10
    <3>2. Before(one, i) /\ Before(two, i) /\ Before(three, i)
      BY <2>2, <2>4, <2>6, <3>1
    <3> QED
      BY <2>8, <3>2
  <2> HIDE DEF s
  <2> QED
    BY <2>2, <2>8, <2>9, <2>10 DEF IsFirstThree
<1> QED
  BY <1>1, <1>2, <1>3, <1>4

\* What the summary explains, once there is one
GuideInv ==
  guide # NoGuide =>
    /\ findings # <<>>
    /\ \E s \in Seq(KeptPlaces) :
         IsFirstThree(s, KeptPlaces) /\ guide.explained = [k \in DOMAIN s |-> findings[s[k]]]

LEMMA ExplainEstablishes ==
  ASSUME FindingsInv, Explain
  PROVE  GuideInv'
<1>1. /\ findings' = findings /\ facts' = facts /\ intent' = intent /\ findings # <<>>
      /\ guide'.explained = [k \in DOMAIN Explained |-> findings[Explained[k]]]
  BY DEF Explain, vars
<1>2. findings \in Seq(Findings)
  BY <1>1, FoundIsSupported DEF Sound
<1>3. KeptPlaces \in SUBSET DOMAIN findings
  BY DEF KeptPlaces
<1>4. IsFirstThree(Explained, KeptPlaces)
  BY <1>2, <1>3, FirstThreeIs DEF Explained
<1>5. KeptPlaces' = KeptPlaces
  BY <1>1 DEF KeptPlaces, Kept, Safe, GroupAt, StorageIssue, Relevance, WellSupported, Thin
<1>6. \A i, j : Before(i, j)' <=> Before(i, j)
  BY <1>1 DEF Before
<1> HIDE DEF Explained
<1>7. IsFirstThree(Explained, KeptPlaces) => \A s : s = Explained => IsFirstThree(s, KeptPlaces)'
  BY <1>5, <1>6 DEF IsFirstThree
<1>8. Explained \in Seq(KeptPlaces)
  BY <1>4 DEF IsFirstThree
<1> QED
  BY <1>1, <1>4, <1>5, <1>7, <1>8 DEF GuideInv

LEMMA OtherStepsKeepGuide ==
  ASSUME FindingsInv, GuideInv, UNCHANGED gvars, Next \/ UNCHANGED vars
  PROVE  GuideInv'
<1>1. SUFFICES ASSUME guide # NoGuide
               PROVE  GuideInv'
  BY DEF GuideInv, gvars
<1>2. findings # <<>> /\ todo = {}
  BY <1>1 DEF GuideInv, FindingsInv
<1>3. UNCHANGED vars
  BY <1>2 DEF Next, CollectTime, CollectResources, CollectStorage, CollectNetwork,
              CollectRouting, ResolveNames, CheckConnectivity, DetectVpn, CheckServices, Collect,
              Evaluate, Evaluated
<1>4. findings' = findings /\ facts' = facts /\ intent' = intent /\ guide' = guide
  BY <1>3 DEF vars, gvars
<1>5. KeptPlaces' = KeptPlaces
  BY <1>4 DEF KeptPlaces, Kept, Safe, GroupAt, StorageIssue, Relevance, WellSupported, Thin
<1>6. \A i, j : Before(i, j)' <=> Before(i, j)
  BY <1>4 DEF Before
<1>7. \A s : IsFirstThree(s, KeptPlaces) => IsFirstThree(s, KeptPlaces)'
  BY <1>5, <1>6 DEF IsFirstThree
<1> QED
  BY <1>1, <1>4, <1>5, <1>7 DEF GuideInv

\* A summary is made of the kept findings in their order, and stays what it was.
THEOREM GuideInvHolds == GSpec => []GuideInv
<1>1. GInit => GuideInv
  BY DEF GInit, GuideInv
<1>2. FindingsInv /\ GuideInv /\ [GNext]_<<vars, gvars>> => GuideInv'
  BY ExplainEstablishes, OtherStepsKeepGuide DEF GNext, Guided
<1> QED
  BY <1>1, <1>2, GuidedFindingsInvHolds, PTL DEF GSpec

LEMMA SummaryBeginsWithFaultDomain ==
  ASSUME FindingsInv, GuideInv
  PROVE  FaultDomainIsExplained
<1> SUFFICES ASSUME guide # NoGuide,
                    \/ intent \notin DOMAIN DirectAreas
                    \/ FaultDomain \in DirectAreas[intent] \cup AdjacentAreas[intent]
             PROVE  guide.explained # <<>> /\ guide.explained[1].area = FaultDomain
  BY DEF FaultDomainIsExplained
<1>1. findings \in Seq(Findings) /\ findings # <<>>
  BY FoundIsSupported DEF GuideInv, Sound
<1>2. PICK b \in Best : FaultDomain = findings[b].area /\ \A j \in Best : b <= j
  BY <1>1, FaultDomainIs
<1>3. Relevance(findings[b]) # "inconsistent"
  BY <1>2 DEF Relevance
<1>4. b \in KeptPlaces
  BY <1>2, <1>3, EveryFindingIsSafe DEF KeptPlaces, Kept, Best
<1>5. PICK s \in Seq(KeptPlaces) :
        IsFirstThree(s, KeptPlaces) /\ guide.explained = [k \in DOMAIN s |-> findings[s[k]]]
  BY DEF GuideInv
<1>6. 1 \in DOMAIN s /\ s[1] \in KeptPlaces
  BY <1>4, <1>5, LenProperties, EmptySeq, ElementOfSeq DEF IsFirstThree
<1>7. s[1] = b
  <2> SUFFICES ASSUME s[1] # b PROVE FALSE
    OBVIOUS
  <2>1. Before(s[1], b)
    BY <1>4, <1>5 DEF IsFirstThree
  <2>2. /\ \A i \in DOMAIN findings : i \in Nat /\ Rank(findings[i]) \in Nat
        /\ s[1] \in DOMAIN findings /\ b \in DOMAIN findings
    BY <1>1, <1>2, <1>6, LenProperties, ElementOfSeq, RankIs DEF KeptPlaces, Best
  <2>3. Rank(findings[s[1]]) = Rank(findings[b]) /\ s[1] < b
    BY <1>2, <2>1, <2>2 DEF Before, Best
  <2>4. s[1] \in Best
    BY <1>2, <2>2, <2>3 DEF Best
  <2> QED
    BY <1>2, <2>2, <2>3, <2>4
<1>8. /\ DOMAIN guide.explained = DOMAIN s
      /\ guide.explained[1] = findings[b]
  BY <1>5, <1>6, <1>7
<1> QED
  BY <1>2, <1>6, <1>8, EmptySeq

\* The result page and the guided summary name the same fault domain first,
\* whenever it lies in the scope that the operator chose.
THEOREM FaultDomainIsExplainedHolds == GSpec => []FaultDomainIsExplained
BY SummaryBeginsWithFaultDomain, GuidedFindingsInvHolds, GuideInvHolds, PTL

\* No confidence makes up for a severity.
LEMMA SeverityFirst ==
  ASSUME NEW a \in 0..3, NEW b \in 0..3, NEW c \in 0..99, NEW d \in 0..99,
         100 * a + c >= 100 * b + d
  PROVE  a >= b
OBVIOUS

LEMMA ScopedProblems ==
  ASSUME FindingsInv, GuideInv
  PROVE  ScopedProblemIsExplained
<1> SUFFICES ASSUME guide # NoGuide, NEW i \in DOMAIN findings,
                    Relevance(findings[i]) = "direct", findings[i].severity # "info",
                    findings[i].id \notin ExplainedIds
             PROVE  /\ Len(guide.explained) = 3
                    /\ \A k \in 1..3 : Severity(guide.explained[k]) >= Severity(findings[i])
  BY DEF ScopedProblemIsExplained
<1>1. findings \in Seq(Findings) /\ findings # <<>>
  BY FoundIsSupported DEF GuideInv, Sound
<1>2. i \in KeptPlaces
  BY EveryFindingIsSafe DEF KeptPlaces, Kept
<1>3. PICK s \in Seq(KeptPlaces) :
        IsFirstThree(s, KeptPlaces) /\ guide.explained = [k \in DOMAIN s |-> findings[s[k]]]
  BY DEF GuideInv
<1>4. /\ DOMAIN guide.explained = DOMAIN s
      /\ \A k \in DOMAIN s : guide.explained[k] = findings[s[k]]
  BY <1>3
<1>5. \A k \in DOMAIN s : s[k] # i
  BY <1>4 DEF ExplainedIds
<1>6. Len(s) = 3 /\ \A k \in 1..3 : Before(s[k], i)
  BY <1>2, <1>3, <1>5 DEF IsFirstThree
<1>7. DOMAIN s = 1..3 /\ \A k \in 1..3 : s[k] \in DOMAIN findings
  BY <1>3, <1>6, LenProperties, ElementOfSeq DEF KeptPlaces
<1>8. Len(guide.explained) = 3
  BY <1>3, <1>7
<1>9. ASSUME NEW k \in 1..3 PROVE Severity(guide.explained[k]) >= Severity(findings[i])
  <2>1. findings[s[k]] \in Findings /\ findings[i] \in Findings
    BY <1>1, <1>7, ElementOfSeq, LenProperties
  <2>2. Rank(findings[s[k]]) >= Rank(findings[i])
    BY <1>6, <2>1, RankIs DEF Before
  <2>3. /\ Severity(findings[s[k]]) \in 0..3 /\ Severity(findings[i]) \in 0..3
        /\ findings[s[k]].confidence \in 0..99 /\ findings[i].confidence \in 0..99
    BY <2>1, RankIs DEF Findings
  <2>4. Severity(findings[s[k]]) >= Severity(findings[i])
    BY <2>2, <2>3, SeverityFirst DEF Rank
  <2>5. guide.explained[k] = findings[s[k]]
    BY <1>4, <1>7
  <2> QED
    BY <2>4, <2>5
<1> QED
  BY <1>8, <1>9

\* A problem in the scope that the operator chose is explained, or three
\* findings that are at least as severe are.
THEOREM ScopedProblemIsExplainedHolds == GSpec => []ScopedProblemIsExplained
BY ScopedProblems, GuidedFindingsInvHolds, GuideInvHolds, PTL
=============================================================================

------------------------------ MODULE MCFindings ------------------------------
(* Guidance for selections of checks that the shipped profiles and the      *)
(* intake make: two network-facing ones with every network fact, two        *)
(* host-facing ones with every host fact, the plans of the intake with      *)
(* outcomes that bring every fault domain into play, and checks that an     *)
(* operator ticks.                                                          *)
EXTENDS Guidance

NoInternet   == {"time", "resources", "network", "routing", "dns", "connectivity"}
VpnIssue     == {"time", "network", "routing", "dns", "connectivity", "vpn", "services"}
DeviceSlow   == {"resources", "storage", "network", "routing", "dns", "connectivity"}
LowDiskSpace == {"resources", "storage"}
TimeIssue    == {"time", "storage"}

PrivatePlan == VpnIssue \ {"time"}
SlowPlan    == {"time", "resources", "storage", "dns", "connectivity"}
OwnChoice   == {"resources", "network", "routing", "connectivity", "vpn", "services"}

Profiles  == {NoInternet, VpnIssue, DeviceSlow, LowDiskSpace, TimeIssue, PrivatePlan, SlowPlan,
              OwnChoice}
NoOutage  == {NoInternet}

NetworkProfile == {NoInternet, VpnIssue}
HostProfile    == {DeviceSlow, LowDiskSpace, TimeIssue}

Link(up, addressed, usable) ==
  [listed |-> up \union {"en0", "tun0"}, up |-> up, addressed |-> addressed, usable |-> usable]

\* Beside the interface of the network: none, an idle one, one with an address
\* that is or is not link-local, and for the VPN every kind of tunnel
LinksOf(checks) ==
  CASE checks \in NetworkProfile ->
         {Link({"en0"}, {"en0"}, {"en0"}), Link({"en0"}, {}, {}), Link({}, {}, {})}
           \union (IF "vpn" \notin checks THEN {}
                   ELSE {Link({"en0", t}, {"en0", t}, {"en0", t}) : t \in Tunnels}
                        \union {Link({"en0", "tun0"}, {"en0"}, {"en0"}),
                                Link({"en0", "utun3"}, {"en0", "utun3"}, {"en0"})})
    [] checks \in HostProfile -> {Link({"en0"}, {"en0"}, {"en0"})}
    [] OTHER -> {Link({"en0"}, {}, {}), Link({"en0", "tun0"}, {"en0", "tun0"}, {"en0", "tun0"})}

Route(interface, observations, owners) ==
  [route |-> TRUE, interface |-> interface, observations |-> observations, owners |-> owners]

NoRoute == [route |-> FALSE, interface |-> "none", observations |-> 0, owners |-> {}]

RoutesOf(checks) ==
  CASE checks \in NetworkProfile ->
         {Route("en0", 0, {}), Route("en0", 1, {}), Route("none", 2, {}), NoRoute}
           \union (IF "vpn" \notin checks THEN {}
                   ELSE {Route("en0", 0, {"tun0", "tailscale0"}), Route("tun0", 0, {})})
    [] checks \in HostProfile -> {Route("en0", 0, {})}
    [] OTHER -> {Route("en0", 0, {}), NoRoute}

LookupsOf(checks) ==
  CASE checks \in NetworkProfile ->
         {<<"ok", "ok">>, <<"ok", "failed">>, <<"failed", "failed">>, <<"failed", "timeout">>,
          <<"timeout", "timeout">>}
    [] checks \in HostProfile -> {<<"ok">>}
    [] OTHER -> {<<"ok">>, <<"ok", "failed">>, <<"failed">>}

\* Two public targets, one of them an address, and a private one
TcpOf(checks) ==
  CASE checks \in NetworkProfile -> {[github |-> a, quad1 |-> b] : a, b \in BOOLEAN}
                                        \union {[quad1 |-> b, intranet |-> c] : b, c \in BOOLEAN}
                                        \union {[github |-> FALSE, quad1 |-> FALSE, intranet |-> TRUE]}
    [] checks \in HostProfile -> {[quad1 |-> a] : a \in BOOLEAN}
    [] OTHER -> {[github |-> a, quad1 |-> b] : a, b \in BOOLEAN}

ServicesOf(checks) ==
  IF checks = PrivatePlan THEN {[intranet |-> a, pypi |-> b, npm |-> TRUE] : a, b \in BOOLEAN}
  ELSE {[intranet |-> a, pypi |-> FALSE, npm |-> b] : a, b \in BOOLEAN}
         \union {[intranet |-> a, pypi |-> TRUE, npm |-> TRUE] : a \in BOOLEAN}

ClockState(check, skew, zone) == [check |-> check, skew |-> skew, zone |-> zone]

ClocksOf(checks) ==
  CASE checks \in NetworkProfile -> {ClockState("not_run", 0, "unknown")}
    [] checks \in HostProfile ->
         {ClockState("failed", 0, "consistent")}
           \union {ClockState("checked", skew, zone) : skew \in {119, 120, 299, 300, 899, 900},
                                                  zone \in {"consistent", "inconsistent", "unknown"}}
    [] OTHER -> {ClockState("checked", skew, "consistent") : skew \in {0, 900}}

Load(one, five) == [load1 |-> one, load5 |-> five]

LoadsOf(checks) ==
  CASE checks \in NetworkProfile -> {Load(50, 50)}
    [] checks \in HostProfile ->
         {Load(Unknown, Unknown), Load(50, 50), Load(85, 50), Load(125, 75), Load(125, 100)}
    [] OTHER -> {Load(50, 50), Load(130, 110)}

Memory(available, swap, commit) == [available |-> available, swap |-> swap, commit |-> commit]

MemoriesOf(checks) ==
  IF checks \in HostProfile
  THEN {Memory(a, s, c) : a \in {Unknown, 5, 9, 20, 50}, s \in {Unknown, 25}, c \in {50, 85, 95}}
  ELSE {Memory(50, 0, Unknown)}

Disk(volumes, devices) == [volumes |-> volumes, devices |-> devices]

Group(level, operational) == [level |-> level, operational |-> operational]

DisksOf(checks) ==
  IF checks \in HostProfile
  THEN {Disk(v, d) : v \in {<<>>, <<Group("low", FALSE)>>,
                            <<Group("low", TRUE), Group("critical", FALSE)>>},
                     d \in {<<"degraded">>, <<"ok", "degraded">>, <<"ok", "failing">>}}
         \union {Disk(<<>>, <<>>)}
  ELSE {Disk(<<>>, d) : d \in {<<"ok">>, <<"failing">>, <<"failing", "unknown", "failing">>}}
         \union {Disk(<<Group("critical", TRUE)>>, <<"failing">>),
                 Disk(<<Group("critical", FALSE), Group("low", TRUE)>>, <<"ok">>)}

KindsOf(checks) ==
  IF checks \in HostProfile THEN {"device slow", "low disk space"} ELSE {"device slow"}

OutageKind(checks) == {"no internet"}

IntentsOf(checks) ==
  IF checks \in {PrivatePlan, SlowPlan} THEN DOMAIN DirectAreas \union {"none", "general_triage"}
  ELSE {"none"}
=============================================================================

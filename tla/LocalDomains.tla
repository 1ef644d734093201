----------------------------- MODULE LocalDomains -----------------------------
(***************************************************************************)
(* The endpoint side of a run: the host, resources, time and storage       *)
(* collectors step by step, what each of their commands and system calls   *)
(* may answer, and the execution record the result shows.                  *)
(***************************************************************************)
EXTENDS CollectorState, StoragePolicy

CONSTANTS
  PathsOf,       \* [platform -> the mount points it lists, in sorted order]
  ContainerOf,   \* [mount point -> the container that holds it]
  Totals,        \* capacities of a container
  Frees,         \* amounts of free space
  MaxActivity    \* bound on the changes other programs make during a run

ASSUME CapacityAssumption ==
  Totals \subseteq Nat /\ Frees \subseteq Nat /\ MaxActivity \in Nat

MountsOf(p) == {PathsOf[p][i] : i \in DOMAIN PathsOf[p]} \union {"/"}

\* Each mount point is listed once. The data volume is one of macOS; it and
\* "/" share one container, as the members of an APFS volume group do.
ASSUME MountsAssumption ==
  \A p \in Platform :
    /\ PathsOf[p] \in Seq(MountsOf(p))
    /\ \A i, j \in DOMAIN PathsOf[p] : PathsOf[p][i] = PathsOf[p][j] => i = j
    /\ \A path \in MountsOf(p) : ContainerOf[path] \in Containers
    /\ "/System/Volumes/Data" \in MountsOf(p) => p = "macos"
    /\ \A path, other \in MountsOf(p) \intersect PrimaryMacPaths :
         ContainerOf[path] = ContainerOf[other]

Battery == {"unread", "absent", "present"}            \* None, present = False, present = True
Devices == {"unread", "none", "silent", "reported"}   \* None, [], without or with a status
Skew    == {"not_run", "checked", "failed"}
Answer  == {"date", "no date", "http error", "bad certificate", "unreachable", "bad date",
            "broken off"}                             \* of the clock reference

Step(d, i) == Collecting(d) /\ steps = i /\ steps' = i + 1

Unread(condition, code) == Code(condition /\ platform \in KnownPlatform, code)

\* collect_host_basics; getpass.getuser raises KeyError before Python 3.13
\* when the user has no passwd entry, which is not caught.
CollectHostBasics ==
  /\ Step("host", 0)
  /\ \E uptime \in BOOLEAN, user \in {"name", "OSError", "KeyError"} :
       /\ codes' = Code(platform = "other", "unsupported-platform")
                     \union Unread(~uptime, "uptime-unavailable")
                     \union Code(user = "OSError", "user-unavailable")
       /\ outcome' = IF user = "KeyError" THEN "raised" ELSE "done"
  /\ UNCHANGED <<facts, diskVars>> /\ Unchanged

\* collect_resource_state up to progress_callback(1): Windows has no load
\* average and is not warned about it.
CollectLoadAverage ==
  /\ Step("resources", 0)
  /\ \E cpus \in BOOLEAN, load \in {"measured", "failed", "missing"} :
       /\ platform = "windows" => load = "missing"
       /\ facts' = [facts EXCEPT !.cpus = cpus, !.load = (load = "measured")]
       /\ codes' = Code(load = "failed", "load-average-unavailable") \union
                   Code(load = "missing" /\ platform # "windows", "load-average-unsupported")
  /\ UNCHANGED <<outcome, diskVars>> /\ Unchanged

BatteryCodes(battery) == Unread(battery = "unread", "battery-unavailable")

\* ... up to progress_callback(2). Only the total decides on the warning; on
\* macOS the available memory comes from a second command, vm_stat.
CollectMemoryAndBattery ==
  /\ Step("resources", 1)
  /\ \E total, available \in BOOLEAN, battery \in Battery :
       /\ platform = "other" => ~total /\ ~available /\ battery = "unread"
       /\ platform \in {"linux", "windows"} => available = total
       /\ facts' = [facts EXCEPT !.total = total, !.available = available, !.battery = battery]
       /\ codes' = codes \union Code(platform = "other", "memory-unsupported")
                         \union Unread(~total, "memory-unavailable")
                         \union BatteryCodes(battery)
  /\ UNCHANGED <<outcome, diskVars>> /\ Unchanged

\* ... and its end
CollectProcessSnapshot ==
  /\ Step("resources", 2)
  /\ \E snapshot \in BOOLEAN :
       /\ platform = "other" => ~snapshot
       /\ facts' = [facts EXCEPT !.snapshot = snapshot]
       /\ codes' = codes \union Unread(~snapshot, "process-snapshot-unavailable")
  /\ outcome' = "done"
  /\ UNCHANGED diskVars /\ Unchanged

\* collect_time_state up to progress_callback(1); no warning is possible here.
CollectLocalClock ==
  /\ Step("time", 0)
  /\ DoneIf(~options.skew)
  /\ UNCHANGED <<facts, codes, diskVars>> /\ Unchanged

\* _perform_clock_skew_check: every answer that is not a valid date over a
\* validated connection is a failed check. A connection that is lost or times
\* out after the request was sent is none of the errors it catches.
CheckClockSkew ==
  /\ Step("time", 1)
  /\ \E answer \in Answer :
       /\ facts' = [facts EXCEPT !.skew = IF answer = "broken off" THEN "not_run"
                                          ELSE IF answer = "date" THEN "checked" ELSE "failed"]
       /\ codes' = Code(answer \notin {"date", "broken off"}, "clock-skew-check-failed")
       /\ outcome' = IF answer = "broken off" THEN "raised" ELSE "done"
  /\ UNCHANGED diskVars /\ Unchanged

\* _discover_mount_points: "/" when df fails. From here on the disks matter.
DiscoverMountPoints ==
  /\ Step("storage", 0)
  /\ pending' \in {PathsOf[platform]} \union (IF platform = "windows" THEN {} ELSE {<<"/">>})
  /\ facts' = [facts EXCEPT !.mounted = pending']
  /\ capacity' \in [Containers -> Totals]
  /\ free' \in {f \in [Containers -> Frees] : \A c \in Containers : f[c] <= capacity'[c]}
  /\ UNCHANGED <<outcome, codes, activity>> /\ Unchanged

\* Other programs write and delete while the volumes are measured.
OtherProgramsUseSpace ==
  /\ Collecting("storage") /\ steps = 1 /\ activity < MaxActivity
  /\ activity' = activity + 1
  /\ \E c \in Containers, f \in Frees : f <= capacity[c] /\ free' = [free EXCEPT ![c] = f]
  /\ UNCHANGED <<steps, outcome, facts, codes, pending, capacity>> /\ Unchanged

VolumeCodes(measured) == codes \union Code(~measured, "disk-usage-failed")

\* One turn of the loop of collect_storage_state; an OSError drops the volume.
MeasureVolume ==
  /\ Collecting("storage") /\ steps = 1 /\ pending # <<>>
  /\ pending' = Tail(pending)
  /\ LET path == Head(pending)
         c == ContainerOf[path] IN
     \E measured \in BOOLEAN :
       /\ facts' = [facts EXCEPT !.disks =
                      IF measured THEN Append(@, Volume(platform, path, capacity[c], free[c])) ELSE @]
       /\ codes' = VolumeCodes(measured)
  /\ UNCHANGED <<steps, outcome, capacity, free, activity>> /\ Unchanged

\* The orders of sorted(disks, key=_disk_sort_key), which is stable: place i of
\* the sorted list shows the volume that was at place order[i].
SortingOrders(disks) ==
  {order \in [DOMAIN disks -> DOMAIN disks] :
     \A i, j \in DOMAIN disks :
       i < j => /\ order[i] # order[j]
                /\ ~ComesFirst(disks[order[j]], disks[order[i]])
                /\ ComesFirst(disks[order[i]], disks[order[j]]) \/ order[i] < order[j]}

\* ... and the rest of it: Linux exposes no device health, other platforms
\* none that could be missed; the volumes are sorted for display.
CollectDeviceHealth ==
  /\ Step("storage", 1) /\ pending = <<>>
  /\ \E devices \in Devices, order \in SortingOrders(facts.disks) :
       /\ platform = "linux" => devices = "none"
       /\ platform = "other" => devices = "unread"
       /\ facts' = [facts EXCEPT !.devices = devices,
                                !.disks = [i \in DOMAIN @ |-> @[order[i]]]]
       /\ codes' = codes \union Code(facts.disks = <<>>, "no-disk-data")
                         \union Code(devices = "unread" /\ platform \in {"macos", "windows"},
                                     "storage-health-unavailable")
  /\ outcome' = "done"
  /\ UNCHANGED diskVars /\ Unchanged

LocalNext ==
  \/ CollectHostBasics
  \/ CollectLoadAverage \/ CollectMemoryAndBattery \/ CollectProcessSnapshot
  \/ CollectLocalClock \/ CheckClockSkew
  \/ DiscoverMountPoints \/ OtherProgramsUseSpace \/ MeasureVolume \/ CollectDeviceHealth
-----------------------------------------------------------------------------
\* _host_execution
HostProbes == <<Probe("host-basics", "", IF codes = {} THEN "passed" ELSE "partial")>>

ResourceCodes == codes \ {"battery-unavailable", "process-snapshot-unavailable"}

\* _resources_execution: the snapshot probe
SnapshotStatus ==
  CASE ResourceCodes = {} -> "passed"
    [] ResourceCodes # {} /\ ~facts.cpus /\ ~facts.total ->
         IF ResourceCodes \intersect {"memory-unsupported", "load-average-unsupported"} # {}
         THEN "unsupported" ELSE "failed"
    [] OTHER -> "partial"

\* _battery_probe
BatteryStatus ==
  CASE "battery-unavailable" \in codes -> "partial"
    [] "battery-unavailable" \notin codes /\ facts.battery = "present" -> "passed"
    [] OTHER -> "skipped"

\* _process_snapshot_probe
ProcessStatus ==
  CASE "process-snapshot-unavailable" \in codes -> "partial"
    [] "process-snapshot-unavailable" \notin codes /\ facts.snapshot -> "passed"
    [] OTHER -> "skipped"

\* _time_skew_probe
SkewStatus ==
  CASE ~options.skew -> "skipped"
    [] options.skew /\ "clock-skew-check-failed" \in codes -> "partial"
    [] OTHER -> Outcome(facts.skew = "checked")

HealthCodes == codes \intersect {"storage-health-unavailable"}

\* _storage_execution: the disk-usage probe
DiskStatus ==
  CASE facts.disks = <<>> -> "failed"
    [] facts.disks # <<>> -> IF codes \ HealthCodes = {} THEN "passed" ELSE "partial"

\* _storage_device_probe
DeviceStatus ==
  CASE HealthCodes # {} \/ facts.devices = "silent" -> "partial"
    [] HealthCodes = {} /\ facts.devices = "reported" -> "passed"
    [] OTHER -> "skipped"

\* inventory_only_health_limit: full capacity data, and devices whose health
\* the operating system does not expose
InventoryOnlyHealthLimit ==
  DiskStatus = "passed" /\ DeviceStatus = "partial" /\ HealthCodes = {}
    /\ facts.devices = "silent"

\* The probes of the domain's execution record
LocalProbes ==
  CASE domain = "host" -> HostProbes
    [] domain = "resources" -> <<Probe("resource-snapshot", "", SnapshotStatus),
                                 Probe("battery-health", "", BatteryStatus),
                                 Probe("bounded-process-snapshot", "", ProcessStatus)>>
    [] domain = "time" -> <<Probe("local-time-state", "",
                                  IF codes \ {"clock-skew-check-failed"} = {} THEN "passed"
                                  ELSE "partial"),
                            Probe("clock-skew-check", "", SkewStatus)>>
    [] domain = "storage" -> <<Probe("disk-usage", "", DiskStatus),
                               Probe("storage-device-health", "", DeviceStatus)>>

\* _storage_execution: capacity counts when health is not exposed
LocalStatus ==
  IF domain = "storage" /\ InventoryOnlyHealthLimit THEN "passed"
  ELSE Aggregate(StatusesOf(LocalProbes))
-----------------------------------------------------------------------------
\* What collecting a local domain may leave behind
LocalFactsOK ==
  /\ {facts.cpus, facts.load, facts.total, facts.available, facts.snapshot} \subseteq BOOLEAN
  /\ facts.battery \in Battery /\ facts.skew \in Skew /\ facts.devices \in Devices
  /\ \A i \in DOMAIN facts.disks :
       LET d == facts.disks[i] IN
       d.role \in Roles /\ d.level \in Levels /\ d.free <= d.total

LocalCodes ==
  {"unsupported-platform", "uptime-unavailable", "user-unavailable",
   "load-average-unavailable", "load-average-unsupported", "memory-unsupported",
   "memory-unavailable", "battery-unavailable", "process-snapshot-unavailable",
   "clock-skew-check-failed", "disk-usage-failed", "no-disk-data",
   "storage-health-unavailable"}

\* Whether the domain collected all it set out to collect: the user and the
\* uptime, the load and the memory, every mount point, a conclusive comparison
\* of the clock. Nothing looks at whether vm_stat could be read on macOS, so
\* the available memory may be missing there (and the pressure with it).
LocalWorked ==
  CASE domain = "host" -> codes = {}
    [] domain = "resources" -> /\ facts.load \/ platform = "windows"
                               /\ facts.total /\ (facts.available \/ platform = "macos")
                               /\ facts.snapshot
                               /\ facts.battery # "unread"
    [] domain = "time" -> options.skew => facts.skew = "checked"
    [] domain = "storage" -> /\ Len(facts.disks) = Len(facts.mounted)
                             /\ facts.disks # <<>>
                             /\ facts.devices = "unread" => platform = "other"

\* Whether it has anything to show
SomeLocalWorked ==
  CASE domain = "resources" -> \/ facts.cpus \/ facts.total \/ facts.snapshot
                               \/ facts.battery = "present"
    [] domain = "storage" -> facts.disks # <<>> \/ facts.devices \notin {"none", "unread"}
    [] OTHER -> TRUE
=============================================================================

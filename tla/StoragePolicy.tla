---------------------------- MODULE StoragePolicy ----------------------------
(***************************************************************************)
(* Which storage incidents a run reports: the measured volumes are          *)
(* classified by role and free space, grouped into capacity pools and      *)
(* turned into findings (storage_policy.py, findings_resources.py).        *)
(* Capacities count units of 512 MiB.                                      *)
(***************************************************************************)
EXTENDS Naturals, Sequences, FiniteSets

Roles  == {"system", "user_data", "other", "auxiliary", "ephemeral"}
Levels == {"critical", "low", "normal", "unknown"}

\* classify_volume_role, on the mount points a platform can list
Role(p, path) ==
  CASE p = "windows" -> IF path = "C:" THEN "system" ELSE "other"
    [] p = "macos"   -> (CASE path = "/" -> "system"
                           [] path \in {"/System/Volumes/Data", "/Users", "/home"} -> "user_data"
                           [] path = "/System/Volumes/Data/home" -> "ephemeral"
                           [] path \in {"/System/Volumes/VM", "/System/Volumes/Preboot"} -> "auxiliary"
                           [] OTHER -> "other")
    [] p \in {"linux", "other"} ->
                          (CASE path \in {"/", "/var", "/tmp", "/usr", "/opt"} -> "system"
                           [] path \in {"/home", "/Users"} -> "user_data"
                           [] OTHER -> "other")

\* _disk_pressure_policy: percentages, and units of 512 MiB
Policy(role) ==
  CASE role \in {"system", "user_data"} -> [critical |-> 5, low |-> 10, floor |-> 30]
    [] role = "other"                   -> [critical |-> 5, low |-> 10, floor |-> 20]
    [] role = "auxiliary"               -> [critical |-> 2, low |-> 5,  floor |-> 2]
    [] role = "ephemeral"               -> [critical |-> 1, low |-> 3,  floor |-> 1]

\* Mutant: the low level is tested first.
LevelLowFirst(size, left, role) ==
  LET policy == Policy(role) IN
  CASE size = 0 -> "unknown"
    [] size > 0 /\ 100 * left <= policy.low * size /\ left <= policy.floor -> "low"
    [] OTHER -> IF 100 * left <= policy.critical * size THEN "critical" ELSE "normal"

\* classify_disk_pressure
Level(size, left, role) ==
  LET policy   == Policy(role)
      Critical == 100 * left <= policy.critical * size
      Low      == 100 * left <= policy.low * size /\ left <= policy.floor IN
  CASE size = 0                        -> "unknown"
    [] size > 0 /\ Critical            -> "critical"
    [] size > 0 /\ ~Critical /\ Low    -> "low"
    [] size > 0 /\ ~Critical /\ ~Low   -> "normal"

\* The DiskVolume of a mount point
Volume(platform, path, size, left) ==
  LET role == Role(platform, path) IN
  [path |-> path, role |-> role, total |-> size, free |-> left, level |-> Level(size, left, role)]

RoleRank(role) ==
  CASE role = "system" -> 0 [] role = "user_data" -> 1 [] role = "other" -> 2
    [] role = "auxiliary" -> 3 [] role = "ephemeral" -> 4

LevelRank(level) ==
  CASE level = "critical" -> 0 [] level = "low" -> 1 [] level = "normal" -> 2 [] level = "unknown" -> 3

\* _disk_sort_key
ComesFirst(d, e) ==
  \/ RoleRank(d.role) < RoleRank(e.role)
  \/ RoleRank(d.role) = RoleRank(e.role) /\ LevelRank(d.level) < LevelRank(e.level)
  \/ /\ RoleRank(d.role) = RoleRank(e.role) /\ LevelRank(d.level) = LevelRank(e.level)
     /\ d.free * e.total < e.free * d.total

-----------------------------------------------------------------------------
\* is_actionable_volume_role, for volumes with capacity data
Actionable(d) == d.total > 0 /\ d.role \in {"system", "user_data", "other"}

PrimaryMacPaths == {"/", "/System/Volumes/Data"}

\* Mutant: the primary volumes always count as one pool.
PoolOfPath(d) == IF d.path \in PrimaryMacPaths THEN <<"container">> ELSE <<"mount", d.path>>

\* Mutant: every mount point is a pool of its own.
PoolEach(d) == <<"mount", d.path>>

\* _capacity_group_key; the used bytes, which the key also holds, are on a Mac
\* what total and free leave.
Pool(d) ==
  IF d.path \in PrimaryMacPaths /\ d.role \in {"system", "user_data"}
  THEN <<"container", d.total, d.free>>
  ELSE <<"mount", d.path>>

\* distinct_capacity_groups, actionable_only
Groups(disks) ==
  LET volumes == {disks[i] : i \in {j \in DOMAIN disks : Actionable(disks[j])}} IN
  {{e \in volumes : Pool(e) = Pool(d)} : d \in volumes}

Preference(d) ==
  (CASE d.role = "user_data" -> 0 [] d.role = "system" -> 1 [] OTHER -> 2) * 10
    + (CASE d.path = "/System/Volumes/Data" -> 0 [] d.path = "/" -> 1 [] OTHER -> 2)

\* capacity_group_representative
Representative(group) ==
  CHOOSE d \in group : \A e \in group : Preference(d) <= Preference(e)

\* storage_space_findings: one incident for each eligible group
Incidents(disks) ==
  {[paths |-> {d.path : d \in g}, level |-> Representative(g).level] :
     g \in {h \in Groups(disks) : Representative(h).level \in {"critical", "low"}}}

Severity(level) == CASE level = "critical" -> 2 [] level = "low" -> 1 [] OTHER -> 0
=============================================================================

------------------------- MODULE StoragePolicy_proofs -------------------------
(***************************************************************************)
(* What the storage policy promises for every capacity, every amount of     *)
(* free space and every list of volumes.                                   *)
(***************************************************************************)
EXTENDS StoragePolicy, FiniteSetTheorems, WellFoundedInduction, TLAPS

LEMMA PolicyIsOrdered ==
  ASSUME NEW role \in Roles
  PROVE  /\ Policy(role).critical \in Nat /\ Policy(role).low \in Nat /\ Policy(role).floor \in Nat
         /\ Policy(role).critical <= Policy(role).low
  BY DEF Roles, Policy

\* A volume with less free space never has a better level: neither at the
\* percentages of its role nor where the floor takes over from them, for any
\* capacity. (storage_policy.py: classify_disk_pressure)
THEOREM LevelIsMonotone ==
  ASSUME NEW role \in Roles, NEW size \in Nat, NEW left \in Nat, NEW less \in 0..left
  PROVE  Severity(Level(size, less, role)) >= Severity(Level(size, left, role))
<1> DEFINE policy      == Policy(role)
           Critical(f) == 100 * f <= policy.critical * size
           Low(f)      == 100 * f <= policy.low * size /\ f <= policy.floor
<1>1. (Critical(left) => Critical(less)) /\ (Low(left) => Low(less))
  <2> DEFINE c == policy.critical * size
             l == policy.low * size
  <2>1. c \in Nat /\ l \in Nat /\ policy.floor \in Nat
    BY PolicyIsOrdered
  <2> HIDE DEF c, l
  <2>2. (100 * left <= c => 100 * less <= c) /\ (100 * left <= l => 100 * less <= l)
    BY <2>1
  <2>3. left <= policy.floor => less <= policy.floor
    BY <2>1
  <2> QED
    BY <2>2, <2>3 DEF c, l
<1>2. \A f \in Nat : /\ size = 0 => Severity(Level(size, f, role)) = 0
                     /\ size > 0 /\ Critical(f) => Severity(Level(size, f, role)) = 2
                     /\ size > 0 /\ ~Critical(f) /\ Low(f) => Severity(Level(size, f, role)) = 1
                     /\ size > 0 /\ ~Critical(f) /\ ~Low(f) => Severity(Level(size, f, role)) = 0
  <2> TAKE f \in Nat
  <2>1. /\ size = 0 => Level(size, f, role) = "unknown"
        /\ size > 0 /\ Critical(f) => Level(size, f, role) = "critical"
        /\ size > 0 /\ ~Critical(f) /\ Low(f) => Level(size, f, role) = "low"
        /\ size > 0 /\ ~Critical(f) /\ ~Low(f) => Level(size, f, role) = "normal"
    <3> HIDE DEF policy
    <3> QED
      BY DEF Level, policy
  <2> QED
    BY <2>1 DEF Severity
<1> HIDE DEF Critical, Low
<1> QED
  BY <1>1, <1>2
-----------------------------------------------------------------------------
\* The capacity groups are a partition of the actionable volumes: each of
\* them is counted in one group, with all that share its capacity.
\* (storage_policy.py: distinct_capacity_groups)
THEOREM GroupsPartitionVolumes ==
  ASSUME NEW disks, NEW i \in DOMAIN disks, Actionable(disks[i])
  PROVE  /\ \E g \in Groups(disks) : disks[i] \in g
         /\ \A g, h \in Groups(disks) : disks[i] \in g /\ disks[i] \in h => g = h
<1> DEFINE volumes == {disks[k] : k \in {j \in DOMAIN disks : Actionable(disks[j])}}
           Group(d) == {e \in volumes : Pool(e) = Pool(d)}
<1>1. Groups(disks) = {Group(d) : d \in volumes}
  BY DEF Groups
<1>2. disks[i] \in volumes
  OBVIOUS
<1> HIDE DEF volumes
<1>3. disks[i] \in Group(disks[i])
  BY <1>2
<1>4. \A d \in volumes : disks[i] \in Group(d) => Group(d) = Group(disks[i])
  OBVIOUS
<1> QED
  BY <1>1, <1>2, <1>3, <1>4
-----------------------------------------------------------------------------
LEMMA PreferenceIsNumber ==
  ASSUME NEW d
  PROVE  Preference(d) \in Nat
<1> DEFINE role == CASE d.role = "user_data" -> 0 [] d.role = "system" -> 1 [] OTHER -> 2
           path == CASE d.path = "/System/Volumes/Data" -> 0 [] d.path = "/" -> 1 [] OTHER -> 2
<1>1. role \in Nat /\ path \in Nat
  OBVIOUS
<1>2. Preference(d) = role * 10 + path
  BY DEF Preference
<1> HIDE DEF role, path
<1> QED
  BY <1>1, <1>2

\* A pool is represented by one of its volumes, whichever they are.
\* (storage_policy.py: capacity_group_representative)
LEMMA RepresentativeIsMember ==
  ASSUME NEW group, group # {}
  PROVE  Representative(group) \in group
<1> DEFINE values == {Preference(d) : d \in group}
<1>1. values \subseteq Nat /\ values # {}
  BY PreferenceIsNumber
<1>2. PICK least \in values : \A v \in values : <<v, least>> \notin OpToRel(<, Nat)
  BY <1>1, NatLessThanWellFounded, WFMin
<1>3. \A v \in values : least <= v
  <2> HIDE DEF values
  <2>1. least \in Nat /\ \A v \in values : v \in Nat /\ ~(v < least)
    BY <1>1, <1>2 DEF OpToRel
  <2> QED
    BY <2>1
<1>4. PICK d \in group : Preference(d) = least
  OBVIOUS
<1>5. \A e \in group : Preference(d) <= Preference(e)
  BY <1>3, <1>4
<1> QED
  BY <1>5 DEF Representative

\* Two volumes of one pool have one level: the mount points of a container
\* differ in their role, never in its policy.
LEMMA PoolSharesLevel ==
  ASSUME NEW d, NEW e, Pool(d) = Pool(e), d.path = e.path => d = e,
         d.level = Level(d.total, d.free, d.role), e.level = Level(e.total, e.free, e.role)
  PROVE  d.level = e.level
<1> DEFINE Primary(v) == v.path \in PrimaryMacPaths /\ v.role \in {"system", "user_data"}
<1>1. \A v : Pool(v) = IF Primary(v) THEN <<"container", v.total, v.free>> ELSE <<"mount", v.path>>
  BY DEF Pool
<1>2. CASE Primary(d) /\ Primary(e)
  <2>1. d.total = e.total /\ d.free = e.free
    BY <1>1, <1>2
  <2>2. Policy(d.role) = Policy(e.role)
    BY <1>2 DEF Policy
  <2> QED
    BY <2>1, <2>2 DEF Level
<1>3. CASE ~Primary(d) /\ ~Primary(e)
  <2>1. d.path = e.path
    BY <1>1, <1>3
  <2> QED
    BY <2>1
<1>4. \A v, w : Pool(v) = Pool(w) => (Primary(v) <=> Primary(w))
  <2>1. \A a, b, c : <<"container", a, b>> # <<"mount", c>>
    OBVIOUS
  <2> QED
    BY <1>1, <2>1
<1> QED
  BY <1>2, <1>3, <1>4

\* An actionable volume under pressure is part of one incident, which has its
\* level, for every list of volumes on different mount points.
\* (finding-rules.md and storage_space_findings)
THEOREM PressureIsReportedOnce ==
  ASSUME NEW disks,
         \A i, j \in DOMAIN disks : disks[i].path = disks[j].path => i = j,
         \A i \in DOMAIN disks :
           disks[i].level = Level(disks[i].total, disks[i].free, disks[i].role),
         NEW i \in DOMAIN disks, Actionable(disks[i]), disks[i].level \in {"critical", "low"}
  PROVE  /\ Cardinality({n \in Incidents(disks) : disks[i].path \in n.paths}) = 1
         /\ \A n \in Incidents(disks) : disks[i].path \in n.paths => n.level = disks[i].level
<1> DEFINE d           == disks[i]
           volumes     == {disks[k] : k \in {j \in DOMAIN disks : Actionable(disks[j])}}
           Incident(g) == [paths |-> {v.path : v \in g}, level |-> Representative(g).level]
           mine        == {n \in Incidents(disks) : d.path \in n.paths}
<1>1. \A g \in Groups(disks) :
        /\ g \subseteq volumes /\ g # {}
        /\ \A v, w \in g : Pool(v) = Pool(w)
  BY DEF Groups
<1>2. \A v, w \in volumes : v.path = w.path => v = w
  OBVIOUS
<1>3. \A v \in volumes : v.level = Level(v.total, v.free, v.role)
  OBVIOUS
<1>4. d \in volumes
  OBVIOUS
<1>5. PICK g \in Groups(disks) : d \in g /\ \A h \in Groups(disks) : d \in h => h = g
  BY GroupsPartitionVolumes
<1>6. \A n : n \in Incidents(disks) <=>
        \E h \in Groups(disks) : /\ Representative(h).level \in {"critical", "low"}
                                 /\ n = Incident(h)
  BY DEF Incidents
<1> HIDE DEF volumes, d
<1>7. Representative(g).level = d.level
  <2>1. Representative(g) \in g /\ Representative(g) \in volumes
    BY <1>1, RepresentativeIsMember
  <2> QED
    BY <1>1, <1>2, <1>3, <1>4, <1>5, <2>1, PoolSharesLevel
<1>8. Incident(g) \in Incidents(disks) /\ Incident(g).paths = {v.path : v \in g}
      /\ Incident(g).level = d.level
  BY <1>6, <1>7 DEF d
<1>9. ASSUME NEW n \in Incidents(disks), d.path \in n.paths PROVE n = Incident(g)
  <2>1. PICK h \in Groups(disks) : n = Incident(h)
    BY <1>6
  <2>2. PICK v \in h : v.path = d.path
    BY <1>9, <2>1
  <2>3. v = d
    BY <1>1, <1>2, <1>4, <2>2
  <2> QED
    BY <1>5, <2>1, <2>2, <2>3
<1>10. mine = {Incident(g)}
  <2>1. d.path \in Incident(g).paths
    BY <1>5, <1>8
  <2> HIDE DEF Incident
  <2> QED
    BY <1>8, <1>9, <2>1
<1>11. Cardinality(mine) = 1
  BY <1>10, FS_Singleton
<1> QED
  BY <1>8, <1>9, <1>11 DEF d

\* Volumes that share one container are one incident at most.
\* (finding-rules.md: "Shared-capacity APFS mounts are deduplicated")
THEOREM SharedCapacityIsOneIncident ==
  ASSUME NEW disks,
         \A i, j \in DOMAIN disks :
           (disks[i].path \in PrimaryMacPaths /\ disks[j].path \in PrimaryMacPaths)
             => Pool(disks[i]) = Pool(disks[j])
  PROVE  Cardinality({n \in Incidents(disks) : n.paths \intersect PrimaryMacPaths # {}}) <= 1
<1> DEFINE volumes     == {disks[k] : k \in {j \in DOMAIN disks : Actionable(disks[j])}}
           Incident(g) == [paths |-> {v.path : v \in g}, level |-> Representative(g).level]
           primary     == {n \in Incidents(disks) : n.paths \intersect PrimaryMacPaths # {}}
<1>1. \A g \in Groups(disks) : \A v \in g : v \in volumes /\ g = {e \in volumes : Pool(e) = Pool(v)}
  BY DEF Groups
<1>2. \A v, w \in volumes :
        (v.path \in PrimaryMacPaths /\ w.path \in PrimaryMacPaths) => Pool(v) = Pool(w)
  OBVIOUS
<1>3. \A n \in Incidents(disks) : \E g \in Groups(disks) : n = Incident(g)
  BY DEF Incidents
<1> HIDE DEF volumes
<1>4. ASSUME NEW n \in primary, NEW m \in primary PROVE n = m
  <2>1. PICK g \in Groups(disks) : n = Incident(g)
    BY <1>3
  <2>2. PICK h \in Groups(disks) : m = Incident(h)
    BY <1>3
  <2>3. PICK v \in g : v.path \in PrimaryMacPaths
    BY <1>4, <2>1
  <2>4. PICK w \in h : w.path \in PrimaryMacPaths
    BY <1>4, <2>2
  <2>5. Pool(v) = Pool(w)
    BY <1>1, <1>2, <2>3, <2>4
  <2>6. /\ g = {e \in volumes : Pool(e) = Pool(v)}
        /\ h = {e \in volumes : Pool(e) = Pool(w)}
    BY <1>1, <2>3, <2>4
  <2>7. g = h
    BY <2>5, <2>6
  <2> QED
    BY <2>1, <2>2, <2>7
<1> HIDE DEF primary
<1>5. primary = {} \/ \E n : primary = {n}
  BY <1>4
<1>6. Cardinality(primary) \in {0, 1}
  BY <1>5, FS_EmptySet, FS_Singleton
<1> QED
  BY <1>6 DEF primary
=============================================================================

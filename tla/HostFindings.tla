----------------------------- MODULE HostFindings -----------------------------
(***************************************************************************)
(* The deterministic rules about time, resources, storage and hardware     *)
(* (findings_time.py, findings_resources.py) with the classifications they *)
(* read (collectors/system.py). Ratios are in percent; Unknown stands for  *)
(* None.                                                                   *)
(***************************************************************************)
EXTENDS NetworkFindings

Unknown == 9999   \* larger than any ratio the rules compare with

\* _classify_cpu_saturation; load1 and load5 come from one getloadavg() call.
CpuSaturation(cpu) ==
  CASE cpu.load1 = Unknown -> "unknown"
    [] cpu.load1 # Unknown /\ cpu.load1 >= 125 /\ cpu.load5 >= 100 -> "high"
    [] cpu.load1 # Unknown /\ ~(cpu.load1 >= 125 /\ cpu.load5 >= 100) ->
         IF cpu.load1 >= 85 \/ cpu.load5 >= 75 THEN "elevated" ELSE "normal"

\* cpu_pressure_state
CpuStrong(cpu)  == cpu.load1 # Unknown /\ cpu.load1 >= 125 /\ cpu.load5 >= 100

CpuPresent(cpu) == CpuStrong(cpu) \/ CpuSaturation(cpu) = "elevated"

\* _classify_memory_pressure
MemoryLevel(memory) ==
  CASE memory.available = Unknown -> "unknown"
    [] memory.available <= 10 -> "high"
    [] memory.available \in 11..20 -> "elevated"
    [] memory.available \in 21..100 -> "normal"

\* _classify_commit_pressure
CommitLevel(memory) ==
  CASE memory.commit = Unknown -> "unknown"
    [] memory.commit # Unknown /\ memory.commit >= 95 -> "high"
    [] memory.commit \in 85..94 -> "elevated"
    [] memory.commit < 85 -> "normal"

\* has_swap_pressure
SwapPressure(memory) == memory.swap # Unknown /\ memory.swap >= 25

\* memory_pressure_state
MemoryStrong(memory) ==
  MemoryLevel(memory) = "high"
    /\ (memory.available <= 8 \/ SwapPressure(memory) \/ CommitLevel(memory) = "high")

MemoryPresent(memory) ==
  MemoryStrong(memory) \/ MemoryLevel(memory) = "elevated"
    \/ CommitLevel(memory) \in {"high", "elevated"} \/ SwapPressure(memory)

MemorySevere(memory) == memory.available <= 5 \/ CommitLevel(memory) = "high"

\* has_degraded_connectivity
DegradedConnectivity(f) == ~Reachable(f.tcp) \/ Cardinality(Failed(f.tcp) \ Private) >= 2

HealthyHost(f) == ~CpuPresent(f.cpu) /\ ~MemoryPresent(f.memory)

Strong(f)   == CpuStrong(f.cpu) \/ MemoryStrong(f.memory)
Combined(f) == CpuPresent(f.cpu) /\ MemoryPresent(f.memory)

\* The host-pressure rules of evaluate_resource_pressure
DeviceSlowRule(f, category) ==
  If(Strong(f) /\ category = "device slow",
     Finding("device-slow-local-host-pressure",
             IF CpuStrong(f.cpu) /\ MemoryStrong(f.memory) THEN "high" ELSE "medium",
             "local_host", IF Combined(f) THEN 93 ELSE 87))

HighMemoryRule(f) ==
  If(MemoryStrong(f.memory),
     Finding("high-memory-pressure", IF MemorySevere(f.memory) THEN "high" ELSE "medium",
             "local_host", IF CommitLevel(f.memory) = "high" THEN 90 ELSE 84))

CpuRule(f) ==
  If(CpuStrong(f.cpu),
     Finding("sustained-cpu-saturation", IF Combined(f) THEN "high" ELSE "medium",
             "local_host", IF Combined(f) THEN 90 ELSE 83))

NoDominantSourceRule(f) ==
  If(/\ CpuPresent(f.cpu) \/ MemoryPresent(f.memory)
     /\ ~Strong(f) /\ (Combined(f) \/ f.vectors),
     Finding("local-resource-pressure-no-dominant-source", "medium", "local_host", 70))

HostAndConnectivityRule(f) ==
  If(Strong(f) /\ DegradedConnectivity(f),
     Finding("host-pressure-with-connectivity-degradation", "medium", "local_host", 67))

NoHostPressureRule(f, category) ==
  If(category = "device slow" /\ HealthyHost(f),
     Finding("no-significant-host-pressure", "info", "healthy", 76))

NetworkNotToBlameRule(f, enabled, category) ==
  If(category = "device slow" /\ NetworkNotToBlame(f, enabled),
     Finding("network-explanation-not-supported", "info", "healthy", 80))

HostPressure(f, enabled, category) ==
  DeviceSlowRule(f, category) \o HighMemoryRule(f) \o CpuRule(f) \o NoDominantSourceRule(f)
    \o HostAndConnectivityRule(f) \o NoHostPressureRule(f, category)
    \o NetworkNotToBlameRule(f, enabled, category)

\* The devices of a status, by their places in the inventory
DevicesThat(devices, status) == {i \in DOMAIN devices : devices[i] = status}

\* Mutant: one healthy device speaks for all of them.
DeviceConditionAny(devices) ==
  CASE DevicesThat(devices, "ok") # {} -> "healthy"
    [] DevicesThat(devices, "ok") = {} /\ DevicesThat(devices, "failing") # {} -> "failure"
    [] DevicesThat(devices, "ok") \union DevicesThat(devices, "failing") = {} ->
         IF DevicesThat(devices, "degraded") # {} THEN "warning" ELSE "healthy"

\* evaluate_hardware_health over storage_device_status: a failing device
\* hides a degraded one
DeviceCondition(devices) ==
  CASE DevicesThat(devices, "failing") # {} -> "failure"
    [] DevicesThat(devices, "failing") = {} /\ DevicesThat(devices, "degraded") # {} -> "warning"
    [] DevicesThat(devices, "failing") \union DevicesThat(devices, "degraded") = {} -> "healthy"

\* The finding of a capacity group under pressure; operational: a system or
\* user-data volume
SpaceFinding(group) ==
  IF group.level = "critical"
  THEN Finding("critical-disk-space-exhaustion", "high", "local_host",
               IF group.operational THEN 95 ELSE 88)
  ELSE Finding("low-disk-space-operational-risk", "medium", "local_host",
               IF group.operational THEN 90 ELSE 80)

\* storage_space_findings: one finding per actionable group under pressure;
\* the groups that are not, which it passes over, are left out of the facts
StorageSpace(f) == [i \in DOMAIN f.volumes |-> SpaceFinding(f.volumes[i])]

\* The low-disk-space baseline and the hardware rules
NoStoragePressureRule(f, category) ==
  If(/\ category = "low disk space" /\ f.volumes = <<>>
     /\ DeviceCondition(f.devices) = "healthy",
     Finding("no-significant-storage-pressure", "info", "healthy", 78))

BatteryRule(f) ==
  If(f.battery = "degraded", Finding("battery-health-degraded", "medium", "local_host", 87))

DeviceFailureRule(f) ==
  If(DeviceCondition(f.devices) = "failure",
     Finding("storage-device-health-failure", "high", "local_host", 93))

DeviceWarningRule(f) ==
  If(DeviceCondition(f.devices) = "warning",
     Finding("storage-device-health-warning", "medium", "local_host", 82))

StorageAndHardware(f, category) ==
  StorageSpace(f) \o NoStoragePressureRule(f, category) \o BatteryRule(f)
    \o DeviceFailureRule(f) \o DeviceWarningRule(f)

\* The rules of evaluate_time_state; the skew is known when the check succeeded.
Checked(f) == f.time.check = "checked"

ClockInaccurateRule(f) ==
  If(Checked(f) /\ f.time.skew >= 300,
     Finding("system-clock-materially-inaccurate",
             IF f.time.skew >= 900 THEN "high" ELSE "medium",
             "local_host", IF f.time.skew >= 900 THEN 93 ELSE 87))

ClockRiskRule(f) ==
  If(Checked(f) /\ f.time.skew \in 120..299,
     Finding("local-time-may-impact-secure-service-access", "medium", "local_host", 82))

TimezoneRule(f) ==
  If(f.time.zone = "inconsistent",
     Finding("timezone-configuration-inconsistent", "low", "local_host", 85))

NoEvidenceRule(f) ==
  If(f.time.check = "failed",
     Finding("insufficient-clock-drift-evidence", "info", "healthy", 72))

NoTimeIssueRule(f) ==
  If(Checked(f) /\ f.time.skew < 120 /\ f.time.zone # "inconsistent",
     Finding("no-significant-time-issue", "info", "healthy", 84))

\* evaluate_time_state
TimeState(f) ==
  ClockInaccurateRule(f) \o ClockRiskRule(f) \o TimezoneRule(f) \o NoEvidenceRule(f)
    \o NoTimeIssueRule(f)
=============================================================================

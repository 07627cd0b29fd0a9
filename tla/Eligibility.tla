----------------------------- MODULE Eligibility ----------------------------
(***************************************************************************)
(* evaluate_offload (src/eligibility.cpp): which device, if any, an        *)
(* OffloadRequest is placed on.  It is a function of the published         *)
(* snapshot, here of the engine's present state; the requests are Asks.    *)
(*                                                                         *)
(* Facts about a device that every report of it repeats (its class,        *)
(* health, architecture, isolation, ports ...) are the constant Hardware.  *)
(* Fractions are counted in units of 1 / Unit, which the capacities must   *)
(* divide.                                                                 *)
(***************************************************************************)
EXTENDS Engine, FiniteSetsExt

CONSTANTS
  Hardware,        \* the DeviceRecord fields that do not change
  ServiceNeeds,    \* what a ServiceDefinition asks of a device
  ArtifactNeeds,   \* what a ProgramArtifact asks of a device
  Asks,            \* OffloadRequests
  Policy,          \* Policy, without its weights
  QueueDim, SlotDim,
  Unit

ASSUME EligibilityAssumption ==
  /\ Unit \in Nat \ {0}
  /\ QueueDim \in Dims
  /\ SlotDim \in Dims
  /\ \A d \in Devices :
       /\ Hardware[d].health \in {"HEALTHY", "WARN", "DEGRADED", "FAILED",
                                 "UNKNOWN"}
       /\ Hardware[d].locality \in {"SAME_DEVICE", "SAME_FUNCTION", "SAME_NIC",
                                   "SAME_ROOT", "REMOTE", "UNKNOWN"}
  /\ \A ask \in Asks : /\ ask.required_program \in Programs \cup {Null}
                       /\ ask.min_headroom <= 100
                       /\ ask.max_queue_pressure <= 100

-----------------------------------------------------------------------------
(* Measures of a device *)

health_severity(h) ==
  [HEALTHY |-> 1, WARN |-> 2, DEGRADED |-> 3, FAILED |-> 4, UNKNOWN |-> 5][h]

Tenths(n) == (n * Unit) \div 10

locality_value(q) ==
  Tenths([SAME_DEVICE |-> 10, SAME_FUNCTION |-> 9, SAME_NIC |-> 8,
          SAME_ROOT |-> 6, REMOTE |-> 3, UNKNOWN |-> 2][q])

cap(d) == devices[d].resource_capacity
usage(d) == ledgers[d].used

\* The used share of dimension i; a dimension without a limit has none.
Share(d, i) ==
  IF cap(d)[i] = 0 THEN 0
  ELSE IF usage(d)[i] >= cap(d)[i] THEN Unit
  ELSE (usage(d)[i] * Unit) \div cap(d)[i]

queue_pressure(d) == Share(d, QueueDim)

\* Without a limit on slots the load counts as one half.
device_load(d) == IF cap(d)[SlotDim] = 0 THEN Tenths(5) ELSE Share(d, SlotDim)

\* The least headroom of all dimensions.
headroom(d) == Unit - Max({Share(d, i) : i \in Dims})

\* Fault: the request itself is not counted.
Mut_can_admit(d, rr) ==
  \A i \in Dims : cap(d)[i] # 0 => usage(d)[i] <= cap(d)[i]

\* can_admit, against the capacity in the device's record.
can_admit(d, rr) ==
  \A i \in Dims : cap(d)[i] # 0 => Plus(usage(d)[i], rr[i]) <= cap(d)[i]

\* CapabilitySet::state_of
state_of(d, k) ==
  IF devices[d].capabilities[k] = "ABSENT" THEN "UNSUPPORTED"
  ELSE devices[d].capabilities[k]

-----------------------------------------------------------------------------
(* What a request asks for *)

\* The registered service; one that is not registered is not found.
ServiceOf(ask) == IF ask.service \in services THEN ask.service ELSE Null

\* The program of the service takes precedence.
wanted_program(ask) ==
  LET s == ServiceOf(ask)
  IN  IF s # Null /\ ServiceDef[s].required_program # Null
      THEN ServiceDef[s].required_program ELSE ask.required_program

\* find_current_program: a retired program has no current artifact.  Its
\* generation is the key it is found by.
Artifact(ask) ==
  LET p == wanted_program(ask)
  IN  IF p # Null /\ current_program_gen[p] \in programs[p] THEN p ELSE Null

\* collect_required_caps, without those marked optional.  A service's
\* required_caps and optional_caps are one list here: it is the mark of an
\* entry that counts, not the list it is in.
RequiredCaps(ask) ==
  LET s == ServiceOf(ask)
      p == Artifact(ask)
  IN  {c \in ask.required_caps
             \cup (IF s # Null THEN ServiceNeeds[s].caps ELSE {})
             \cup (IF p # Null THEN ArtifactNeeds[p].required_caps ELSE {}) :
         ~c.optional}

\* A service's isolation and resources replace those of the request.
Isolation(ask) ==
  IF ServiceOf(ask) # Null THEN ServiceNeeds[ServiceOf(ask)].isolation
  ELSE ask.isolation

Resources(ask) ==
  IF ServiceOf(ask) # Null THEN ServiceDef[ServiceOf(ask)].resource
  ELSE ask.resource

\* Two bindings conflict when both are set and differ.
Conflict(x, y) == x # Null /\ y # Null /\ x # y

\* IsolationSpec::satisfied_by
satisfied_by(iso, proven, hw) ==
  CASE iso.level = "NONE" -> TRUE
    [] iso.level = "SECURITY_DOMAIN" ->
         iso.security \in {"SECURE", "ISOLATED"} /\ proven
    [] iso.level = "DEDICATED_DEVICE" ->
         hw.tenant = Null \/ hw.tenant = iso.tenant
    [] OTHER ->
         /\ proven
         /\ ~Conflict(iso.isolation_domain, hw.isolation_domain)
         /\ ~Conflict(iso.tenant, hw.tenant)

-----------------------------------------------------------------------------
(* Hard constraints *)

EvidenceStale(d) ==
  devices[d].lifecycle = "REVALIDATION_REQUIRED" \/ ~devices[d].evidence_fresh

IsolationProven(d) ==
  /\ Hardware[d].hardware_isolation
  /\ Hardware[d].isolation_proven
  /\ devices[d].evidence_fresh

\* What a hard constraint adds to the reasons.
When(reason, holds) == IF holds THEN {reason} ELSE {}

\* The reasons, named as in RejectionReason, for which device d is rejected:
\* those of its state,
DeviceReasons(d, ask) ==
  LET hw == Hardware[d]
      lc == devices[d].lifecycle
  IN  UNION {
      When("DEVICE_CLASS_MISMATCH",
           ask.required_device_class \notin {Null, hw.device_class}),
      When("PINNED_DEVICE_MISMATCH", ask.pinned_device \notin {Null, d}),
      When("DEVICE_DRAINING", lc = "DRAINING"),
      When("DEVICE_FAILED", lc = "FAILED"),
      When("DEVICE_EVIDENCE_STALE",
           lc \notin {"DRAINING", "FAILED"} /\ EvidenceStale(d)),
      When("DEVICE_NOT_READY",
           /\ lc \notin {"DRAINING", "FAILED", "READY"}
           /\ ~EvidenceStale(d)),
      When("DEVICE_HEALTH_THRESHOLD",
           /\ lc = "READY"
           /\ health_severity(hw.health) >
                health_severity(Policy.min_device_health))}

\* of its capabilities,
CapabilityReasons(d, ask) ==
  LET hw == Hardware[d]
      caps == RequiredCaps(ask)
  IN  UNION {
      When("REQUIRED_CAPABILITY_UNSUPPORTED",
           \/ /\ ask.offload_class # "CUSTOM_INFRASTRUCTURE_SERVICE"
              /\ ask.offload_class \notin hw.offload_classes
           \/ \E c \in caps : state_of(d, c.key) = "UNSUPPORTED"
           \/ \E k \in Policy.hard_caps : state_of(d, k) # "SUPPORTED"),
      When("REQUIRED_CAPABILITY_UNKNOWN",
           \E c \in caps : state_of(d, c.key) = "UNKNOWN"),
      When("REQUIRED_CAPABILITY_STALE",
           \E c \in caps : state_of(d, c.key) = "REVALIDATION_REQUIRED"),
      When("CAPABILITY_VERSION_MISMATCH",
           \E c \in caps : /\ state_of(d, c.key) = "SUPPORTED"
                           /\ hw.version[c.key] < c.min_version)}

\* of the program and the service,
CatalogReasons(d, ask) ==
  LET hw == Hardware[d]
      s == ServiceOf(ask)
      p == Artifact(ask)
  IN  UNION {
      When("ARTIFACT_INCOMPATIBLE", wanted_program(ask) # Null /\ p = Null),
      When("ARCHITECTURE_INCOMPATIBLE",
           /\ p # Null
           /\ ArtifactNeeds[p].target_architecture # "any"
           /\ Conflict(hw.architecture, ArtifactNeeds[p].target_architecture)),
      When("ABI_INCOMPATIBLE",
           /\ p # Null
           /\ Conflict(ask.required_abi, ArtifactNeeds[p].runtime_abi)),
      When("FIRMWARE_INCOMPATIBLE",
           \/ s # Null /\ hw.firmware_gen < ServiceNeeds[s].min_firmware_gen
           \/ p # Null /\ hw.firmware_gen < ArtifactNeeds[p].min_firmware_gen),
      When("RUNTIME_INCOMPATIBLE",
           s # Null /\ hw.runtime_gen < ServiceNeeds[s].min_runtime_gen),
      When("DEPENDENCY_UNAVAILABLE",
           s # Null /\ ~(ServiceNeeds[s].dependencies \subseteq services))}

\* of its isolation,
IsolationReasons(d, ask) ==
  UNION {
    When("ISOLATION_UNPROVEN",
         ~satisfied_by(Isolation(ask), IsolationProven(d), Hardware[d])),
    When("SECURITY_MODE_INCOMPATIBLE",
         ask.security \in {"SECURE", "ISOLATED"} /\ ~IsolationProven(d))}

\* of where it is and whose,
BindingReasons(d, ask) ==
  LET hw == Hardware[d]
  IN  UNION {
      When("ISOLATION_DOMAIN_MISMATCH",
           Conflict(ask.isolation_domain, hw.isolation_domain)),
      When("TENANT_MISMATCH", Conflict(ask.tenant, hw.tenant)),
      When("PORT_MISMATCH", ask.required_port \notin {Null} \cup hw.ports),
      When("FUNCTION_MISMATCH",
           ask.required_function \notin {Null} \cup hw.functions),
      When("LOCALITY_INSUFFICIENT",
           /\ ask.min_locality # "UNKNOWN"
           /\ locality_value(hw.locality) < locality_value(ask.min_locality))}

\* and of what is left of it.
LoadReasons(d, ask) ==
  UNION {
    When("HEADROOM_LOW", headroom(d) * 100 < Policy.min_headroom * Unit),
    When("QUEUE_PRESSURE_HIGH",
         queue_pressure(d) * 100 > Policy.max_queue_pressure * Unit),
    When("RESOURCE_INSUFFICIENT", ~can_admit(d, Resources(ask)))}

Rejections(d, ask) ==
  DeviceReasons(d, ask) \cup CapabilityReasons(d, ask)
    \cup CatalogReasons(d, ask) \cup IsolationReasons(d, ask)
    \cup BindingReasons(d, ask) \cup LoadReasons(d, ask)

-----------------------------------------------------------------------------
(* Ranking *)

\* Fault: headroom counts for more.
Mut_weight_of == [WARM_SERVICE |-> 4, LOCALITY |-> 3, HEADROOM |-> 3,
                  QUEUE_PRESSURE |-> 2, DEVICE_LOAD |-> 1,
                  STATE_TRANSFER |-> 1, HOST_CPU_SAVINGS |-> 2,
                  OFFLOAD_VALUE |-> 1, FAILURE_RISK |-> -3, ENERGY |-> 0,
                  POLICY_PREFERENCE |-> 3]

\* Policy::defaults; the tie-break factor always scores 0.
weight_of == [WARM_SERVICE |-> 4, LOCALITY |-> 3, HEADROOM |-> 2,
              QUEUE_PRESSURE |-> 2, DEVICE_LOAD |-> 1,
              STATE_TRANSFER |-> 1, HOST_CPU_SAVINGS |-> 2,
              OFFLOAD_VALUE |-> 1, FAILURE_RISK |-> -3, ENERGY |-> 0,
              POLICY_PREFERENCE |-> 3]

\* A deployment of the same service, or of any when none is asked for, is
\* ACTIVE on the device.
warm(d, ask) ==
  \E x \in OnDevice(d, {"ACTIVE"}) :
    ServiceOf(ask) \in {Null, deployments[x].service}

normalized(d, ask) ==
  [WARM_SERVICE |-> IF warm(d, ask) THEN Unit ELSE 0,
   LOCALITY |-> locality_value(Hardware[d].locality),
   HEADROOM |-> headroom(d),
   QUEUE_PRESSURE |-> Unit - queue_pressure(d),
   DEVICE_LOAD |-> Unit - device_load(d),
   STATE_TRANSFER |-> IF warm(d, ask) THEN Unit ELSE Tenths(4),
   HOST_CPU_SAVINGS |-> IF ask.offload_class \in {"ENCRYPTION", "COMPRESSION"}
                        THEN Tenths(8) ELSE Tenths(5),
   OFFLOAD_VALUE |-> IF warm(d, ask) THEN Tenths(7) ELSE Tenths(5),
   FAILURE_RISK |-> Tenths(2 * health_severity(Hardware[d].health)),
   ENERGY |-> Tenths(5),
   POLICY_PREFERENCE |-> IF d \in Policy.preferred_devices THEN Unit ELSE 0]

total(d, ask) ==
  LET n == normalized(d, ask)
      w == weight_of
  IN  n.WARM_SERVICE * w.WARM_SERVICE + n.LOCALITY * w.LOCALITY
      + n.HEADROOM * w.HEADROOM + n.QUEUE_PRESSURE * w.QUEUE_PRESSURE
      + n.DEVICE_LOAD * w.DEVICE_LOAD + n.STATE_TRANSFER * w.STATE_TRANSFER
      + n.HOST_CPU_SAVINGS * w.HOST_CPU_SAVINGS
      + n.OFFLOAD_VALUE * w.OFFLOAD_VALUE + n.FAILURE_RISK * w.FAILURE_RISK
      + n.ENERGY * w.ENERGY + n.POLICY_PREFERENCE * w.POLICY_PREFERENCE

\* The places in device_order of the devices that pass.
passed(ask) ==
  {i \in DOMAIN device_order : /\ device_order[i] \in DOMAIN devices
                               /\ Rejections(device_order[i], ask) = {}}

\* The front of the stable sort: the highest total, and of equal ones the
\* device that was registered first.
front(places, ask) ==
  LET score == [i \in places |-> total(device_order[i], ask)]
  IN  device_order[CHOOSE i \in places :
                     \A j \in places : \/ score[i] > score[j]
                                       \/ score[i] = score[j] /\ i <= j]

execution_of(class) ==
  CASE class = "DPU" -> "DPU_OFFLOAD"
    [] class = "SMARTNIC" -> "SMARTNIC_OFFLOAD"
    [] class = "INFRA_PROCESSOR" -> "INFRA_PROCESSOR_OFFLOAD"
    [] OTHER -> "HOST_FALLBACK"

\* What evaluate_offload returns, without scores and explanations.
evaluate_offload(ask) ==
  LET places == passed(ask)
      best == front(places, ask)
      fallback == ask.mode # "OFFLOAD_REQUIRED" /\ ask.allow_host_fallback
  IN  IF places # {}
      THEN [selected |-> best,
            execution |-> execution_of(Hardware[best].device_class),
            fallback_used |-> FALSE]
      ELSE [selected |-> Null,
            execution |-> IF fallback THEN "HOST_FALLBACK" ELSE "UNSUPPORTED",
            fallback_used |-> fallback]

-----------------------------------------------------------------------------

\* The calls between which requests are evaluated: those that report, fence
\* and qualify devices, the catalog and the deployments.  Any lifecycle may
\* be reported.
PlacementCall ==
  \/ \E rec \in Registrations : register_device(rec)
  \/ \E rec \in Updates : update_device(rec)
  \/ \E d \in Devices :
       \/ fence_device(d)
       \/ \E s \in CapabilityState, k \in Keys : set_device_state(d, s, k)
  \/ CatalogCall
  \/ DeploymentCall

PlacementSpec == Init /\ [][PlacementCall]_vars

-----------------------------------------------------------------------------
(* Properties *)

\* The program that reserve_deployment binds: here the request's takes
\* precedence.
BoundProgram(ask) ==
  IF ask.required_program # Null \/ ask.service = Null
  THEN ask.required_program ELSE ServiceDef[ask.service].required_program

\* evaluate and the deployment calls decide by code of their own, one on the
\* record and the usage in the snapshot, the others on the ledger and the
\* program table: a device that evaluate selects is one on which a
\* reservation at once is not refused, and whose commit does not fail for
\* the program.  The service must be registered, the request must not name a
\* program beside it, and reports of a device agree on its capacity (the
\* ledger keeps the one it was created with).
EligibleIsDeployable ==
  \A ask \in Asks :
    LET d == evaluate_offload(ask).selected
        p == BoundProgram(ask)
    IN  /\ d # Null
        /\ ask.service \in services \cup {Null}
        /\ ask.service = Null \/ ask.required_program = Null
        => /\ is_ready_for_offload(d)
           /\ can_reserve(ledgers[d].cap, ledgers[d].used, Resources(ask))
           /\ p # Null => ProgramCurrent(p, current_program_gen[p])

\* Policy::prefer_warm_deployments: of two devices that pass and have the
\* same hardware, the one that already runs what is asked for is never
\* passed over for one that does not, although it is the fuller one: what
\* load, queues and headroom can cost below the headroom limit is less than
\* warmth earns.
WarmPreferred ==
  \A ask \in Asks, d, e \in DOMAIN devices :
    /\ Hardware[d] = Hardware[e]
    /\ d \in Policy.preferred_devices <=> e \in Policy.preferred_devices
    /\ Rejections(d, ask) = {}
    /\ warm(d, ask) /\ ~warm(e, ask)
    => evaluate_offload(ask).selected # e
=============================================================================

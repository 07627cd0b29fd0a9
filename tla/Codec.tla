-------------------------------- MODULE Codec --------------------------------
(***************************************************************************)
(* The two encodings of the program: put_device and get_device of          *)
(* tools/mpproto.h, by which a worker reports a device, and the payload    *)
(* that PersistenceStore::save writes and load reads (src/persistence.cpp).*)
(*                                                                         *)
(* A Writer appends values to a stream and a Reader takes them off it.     *)
(* What they append or take is a layout, a sequence of items: a value or a *)
(* structure, a vector after its length, an optional after a flag.  Writer *)
(* and reader have a layout each.  The bytes of a value, and the bounds    *)
(* and enumerators that a reader checks, are left out; Accepted in Restart *)
(* has the bounds that a legal state can exceed.                           *)
(***************************************************************************)
EXTENDS Integers, SequencesExt

CONSTANTS
  Null,
  HalfRange    \* a weight is written as one of -HalfRange .. HalfRange - 1

-----------------------------------------------------------------------------
(* Writer and Reader *)

Item(field, kind, of) == <<[field |-> field, kind |-> kind, of |-> of]>>

Values(fields) ==
  [i \in DOMAIN fields |-> [field |-> fields[i], kind |-> "one", of |-> <<>>]]
One(field, of) == Item(field, "one", of)
Many(field, of) == Item(field, "many", of)
Maybe(field) == Item(field, "maybe", <<>>)

\* A value, a structure of values (a requirement, a resource), a structure of
\* those (an artifact, a device), and so on (a generation, a program), up to
\* the payload.
Write0(layout, v) == <<v>>
Read0(layout, cells) == [value |-> Head(cells), rest |-> Tail(cells)]
Fits0(layout, v) == layout = <<>>

L1 == INSTANCE Layout WITH
        WriteInner <- Write0, ReadInner <- Read0, FitsInner <- Fits0
Write1(layout, v) == L1!Write(layout, v)
Read1(layout, cells) == L1!Read(layout, cells)
Fits1(layout, v) == L1!Fits(layout, v)

L2 == INSTANCE Layout WITH
        WriteInner <- Write1, ReadInner <- Read1, FitsInner <- Fits1
Write2(layout, v) == L2!Write(layout, v)
Read2(layout, cells) == L2!Read(layout, cells)
Fits2(layout, v) == L2!Fits(layout, v)

L3 == INSTANCE Layout WITH
        WriteInner <- Write2, ReadInner <- Read2, FitsInner <- Fits2
Write3(layout, v) == L3!Write(layout, v)
Read3(layout, cells) == L3!Read(layout, cells)
Fits3(layout, v) == L3!Fits(layout, v)

L4 == INSTANCE Layout WITH
        WriteInner <- Write3, ReadInner <- Read3, FitsInner <- Fits3
Write4(layout, v) == L4!Write(layout, v)
Read4(layout, cells) == L4!Read(layout, cells)
Fits4(layout, v) == L4!Fits(layout, v)

L5 == INSTANCE Layout WITH
        WriteInner <- Write4, ReadInner <- Read4, FitsInner <- Fits4
Write(layout, v) == L5!Write(layout, v)
Read(layout, cells) == L5!Read(layout, cells)
Fits(layout, v) == L5!Fits(layout, v)

\* A structure, and what another has beside its members.
Over(f, g) ==
  [x \in DOMAIN f \cup DOMAIN g |-> IF x \in DOMAIN f THEN f[x] ELSE g[x]]

-----------------------------------------------------------------------------
(* A report on the wire *)

resource == Values(<<"memory_bytes", "queues", "functions", "slots",
                     "contexts">>)

put_cap == Values(<<"key", "state", "version", "requires_isolation",
                    "source">>)

get_cap == Values(<<"key", "state", "version", "requires_isolation",
                    "source">>)

put_device ==
  Values(<<"device_id", "generation", "boot_id", "vendor", "model",
           "device_class", "pci_reference", "firmware_gen", "runtime_gen",
           "architecture", "memory_bytes">>)
  \o One("resource_capacity", resource)
  \o Many("ports", <<>>) \o Many("functions", <<>>)
  \o Many("capabilities", put_cap) \o Many("offload_classes", <<>>)
  \o Values(<<"health", "lifecycle", "evidence_fresh", "discovery_source",
              "evidence_gen", "isolation_domain", "tenant",
              "isolation_proven", "locality", "discovery_detail">>)

\* Fault: the generations in the order of the store.
Mut_get_device ==
  Values(<<"device_id", "generation", "boot_id", "vendor", "model",
           "device_class", "pci_reference", "runtime_gen", "firmware_gen",
           "architecture", "memory_bytes">>)
  \o SubSeq(put_device, 12, Len(put_device))

get_device ==
  Values(<<"device_id", "generation", "boot_id", "vendor", "model",
           "device_class", "pci_reference", "firmware_gen", "runtime_gen",
           "architecture", "memory_bytes">>)
  \o One("resource_capacity", resource)
  \o Many("ports", <<>>) \o Many("functions", <<>>)
  \o Many("capabilities", get_cap) \o Many("offload_classes", <<>>)
  \o Values(<<"health", "lifecycle", "evidence_fresh", "discovery_source",
              "evidence_gen", "isolation_domain", "tenant",
              "isolation_proven", "locality", "discovery_detail">>)

\* The members of a DeviceRecord and of a Capability that are not on the wire
\* keep their initial values.
UnreportedDevice ==
  [parent_nic_reference |-> "", parent_function |-> Null,
   firmware_version |-> "", runtime_version |-> "", processing_units |-> 0,
   available_programmable_memory |-> 0, execution_models |-> <<>>,
   program_formats |-> <<>>, supports_dma |-> FALSE, rdma_adjacent |-> FALSE,
   host_comm |-> "", hardware_isolation |-> FALSE, owning_worker |-> Null,
   owner_worker_boot |-> Null]

UnreportedCap ==
  [evidence_gen |-> 0, min_firmware_gen |-> 0, min_runtime_gen |-> 0,
   max_scale |-> 0, detail |-> ""]

\* The device that the coordinator reads from the stream.
Reported(cells) ==
  LET d == Over(Read(get_device, cells).value, UnreportedDevice)
  IN  [d EXCEPT !.capabilities =
         [i \in DOMAIN d.capabilities |->
            Over(d.capabilities[i], UnreportedCap)]]

-----------------------------------------------------------------------------
(* The state file *)

write_cap == Values(<<"key", "state", "evidence_gen", "version",
                      "min_firmware_gen", "min_runtime_gen", "max_scale",
                      "requires_isolation", "source", "detail">>)

read_cap == Values(<<"key", "state", "evidence_gen", "version",
                     "min_firmware_gen", "min_runtime_gen", "max_scale",
                     "requires_isolation", "source", "detail">>)

write_capreq == Values(<<"key", "optional", "min_version">>)

read_capreq == Values(<<"key", "optional", "min_version">>)

write_isolation == Values(<<"level", "isolation_domain", "tenant",
                            "trust_domain", "security_domain", "security">>)

read_isolation == Values(<<"level", "isolation_domain", "tenant",
                           "trust_domain", "security_domain", "security">>)

write_device ==
  Values(<<"device_id", "generation", "boot_id", "vendor", "model",
           "device_class", "pci_reference", "parent_nic_reference",
           "parent_function", "firmware_version", "firmware_gen",
           "runtime_version", "runtime_gen", "architecture",
           "processing_units", "memory_bytes",
           "available_programmable_memory">>)
  \o One("resource_capacity", resource)
  \o Many("ports", <<>>) \o Many("functions", <<>>)
  \o Many("capabilities", write_cap) \o Many("offload_classes", <<>>)
  \o Many("execution_models", <<>>) \o Many("program_formats", <<>>)
  \o Values(<<"supports_dma", "rdma_adjacent", "host_comm",
              "hardware_isolation", "isolation_domain", "tenant",
              "isolation_proven", "locality", "health", "lifecycle",
              "discovery_source", "evidence_gen", "evidence_fresh",
              "discovery_detail", "owning_worker", "owner_worker_boot">>)

read_device ==
  Values(<<"device_id", "generation", "boot_id", "vendor", "model",
           "device_class", "pci_reference", "parent_nic_reference",
           "parent_function", "firmware_version", "firmware_gen",
           "runtime_version", "runtime_gen", "architecture",
           "processing_units", "memory_bytes",
           "available_programmable_memory">>)
  \o One("resource_capacity", resource)
  \o Many("ports", <<>>) \o Many("functions", <<>>)
  \o Many("capabilities", read_cap) \o Many("offload_classes", <<>>)
  \o Many("execution_models", <<>>) \o Many("program_formats", <<>>)
  \o Values(<<"supports_dma", "rdma_adjacent", "host_comm",
              "hardware_isolation", "isolation_domain", "tenant",
              "isolation_proven", "locality", "health", "lifecycle",
              "discovery_source", "evidence_gen", "evidence_fresh",
              "discovery_detail", "owning_worker", "owner_worker_boot">>)

write_service ==
  Values(<<"service_id", "service_gen", "offload_class">>)
  \o Many("required_caps", write_capreq) \o Many("optional_caps", write_capreq)
  \o One("isolation", write_isolation) \o One("resource", resource)
  \o Values(<<"execution_model", "min_firmware_gen", "min_runtime_gen",
              "required_program", "required_abi", "statefulness",
              "recoverable">>)
  \o Many("allowed_fallback_classes", <<>>)
  \o Values(<<"failure_policy">>) \o Many("dependencies", <<>>)

\* Fault: the two floors are read in the wrong order.
Mut_read_service ==
  [i \in DOMAIN write_service |->
     CASE write_service[i].field = "min_firmware_gen" -> write_service[i + 1]
       [] write_service[i].field = "min_runtime_gen" -> write_service[i - 1]
       [] OTHER -> write_service[i]]

read_service ==
  Values(<<"service_id", "service_gen", "offload_class">>)
  \o Many("required_caps", read_capreq) \o Many("optional_caps", read_capreq)
  \o One("isolation", read_isolation) \o One("resource", resource)
  \o Values(<<"execution_model", "min_firmware_gen", "min_runtime_gen",
              "required_program", "required_abi", "statefulness",
              "recoverable">>)
  \o Many("allowed_fallback_classes", <<>>)
  \o Values(<<"failure_policy">>) \o Many("dependencies", <<>>)

write_program ==
  Values(<<"program_id", "program_gen", "artifact_id", "artifact_gen",
           "artifact_type", "version", "content_hash", "target_architecture",
           "runtime_abi">>)
  \o Many("required_caps", write_capreq)
  \o Values(<<"min_firmware_gen", "provenance", "size_hint">>)

read_program ==
  Values(<<"program_id", "program_gen", "artifact_id", "artifact_gen",
           "artifact_type", "version", "content_hash", "target_architecture",
           "runtime_abi">>)
  \o Many("required_caps", read_capreq)
  \o Values(<<"min_firmware_gen", "provenance", "size_hint">>)

write_deployment ==
  Values(<<"deployment_id", "generation", "attempt_id", "service",
           "service_gen", "program", "program_gen", "artifact",
           "artifact_gen", "device", "device_gen", "device_boot", "tenant",
           "isolation_domain">>)
  \o One("resources", resource) \o Values(<<"state">>) \o Maybe("activation")
  \o Values(<<"activation_gen", "epoch", "worker_boot", "evidence_gen",
              "policy_gen", "authoritative", "created_ms", "updated_ms">>)

read_deployment ==
  Values(<<"deployment_id", "generation", "attempt_id", "service",
           "service_gen", "program", "program_gen", "artifact",
           "artifact_gen", "device", "device_gen", "device_boot", "tenant",
           "isolation_domain">>)
  \o One("resources", resource) \o Values(<<"state">>) \o Maybe("activation")
  \o Values(<<"activation_gen", "epoch", "worker_boot", "evidence_gen",
              "policy_gen", "authoritative", "created_ms", "updated_ms">>)

\* The payload, in the order of save and in that of load.
save_policy ==
  Values(<<"generation", "version", "allow_host_fallback",
           "require_authoritative_evidence", "prefer_warm_deployments",
           "prefer_dedicated_isolation", "require_offload_for_required",
           "min_headroom", "max_queue_pressure", "min_device_health">>)
  \o Many("weights", Values(<<"factor", "weight">>))

load_policy ==
  Values(<<"generation", "version", "allow_host_fallback",
           "require_authoritative_evidence", "prefer_warm_deployments",
           "prefer_dedicated_isolation", "require_offload_for_required",
           "min_headroom", "max_queue_pressure", "min_device_health">>)
  \o Many("weights", Values(<<"factor", "weight">>))

save_generation ==
  Values(<<"program_gen">>) \o One("artifact", write_program)
  \o Values(<<"current">>)

load_generation ==
  Values(<<"program_gen">>) \o One("artifact", read_program)
  \o Values(<<"current">>)

save_programs ==
  Values(<<"program_id">>) \o Many("generations", save_generation)
load_programs ==
  Values(<<"program_id">>) \o Many("generations", load_generation)

save_usage == Values(<<"device_id">>) \o One("used", resource)

\* Fault: the last counter is not taken off the stream.
Mut_load_usage ==
  Values(<<"device_id">>) \o One("used", SubSeq(resource, 1, 4))

load_usage == Values(<<"device_id">>) \o One("used", resource)

save_layout ==
  Values(<<"epoch">>) \o One("policy", save_policy)
  \o Many("devices", write_device) \o Many("services", write_service)
  \o Many("programs", save_programs) \o Many("deployments", write_deployment)
  \o Many("usage", save_usage)

load_layout ==
  Values(<<"epoch">>) \o One("policy", load_policy)
  \o Many("devices", read_device) \o Many("services", read_service)
  \o Many("programs", load_programs) \o Many("deployments", read_deployment)
  \o Many("usage", load_usage)

\* static_cast<int32_t>(wt.weight)
i32(w) == ((w + HalfRange) % (2 * HalfRange)) - HalfRange

\* A policy as save writes it.
WrittenPolicy(policy) ==
  [f \in L5!Fields(save_policy) |->
     IF f = "weights"
     THEN [i \in DOMAIN policy.weights |->
             [policy.weights[i] EXCEPT !.weight = i32(@)]]
     ELSE policy[f]]

\* The programs, each generation with the mark of the current one.
Marked(programs, current) ==
  [i \in DOMAIN programs |->
     [program_id |-> programs[i].program_id,
      generations |->
        [g \in DOMAIN programs[i].generations |->
           LET p == programs[i].program_id
               gen == programs[i].generations[g]
           IN  [program_gen |-> gen.program_gen, artifact |-> gen.artifact,
                current |-> /\ p \in DOMAIN current
                            /\ current[p] = gen.program_gen]]]]

\* What save writes of a LiveState, whose maps are functions (devices,
\* current_program_gen) or else sequences in the order of their keys.  The
\* count written for the devices is that of the map: the length of
\* device_order as long as DevicesOnce of Snapshots holds.
Payload(live) ==
  [epoch |-> live.epoch,
   policy |-> WrittenPolicy(live.policy),
   devices |-> [i \in DOMAIN live.device_order |->
                  live.devices[live.device_order[i]]],
   services |-> live.services,
   programs |-> Marked(live.programs, live.current_program_gen),
   deployments |-> live.deployments,
   usage |-> live.usage]

Saved(live) == Write(save_layout, Payload(live))

\* The members of a Policy that save does not write.
UnsavedPolicy == {"hard_caps", "preferred_devices", "preferred_statefulness"}

\* The program table without the marks, and the marks as a map.
Unmarked(programs) ==
  [i \in DOMAIN programs |->
     [program_id |-> programs[i].program_id,
      generations |->
        [g \in DOMAIN programs[i].generations |->
           [program_gen |-> programs[i].generations[g].program_gen,
            artifact |-> programs[i].generations[g].artifact]]]]

MarksOf(programs) ==
  LET current ==
        UNION {{<<prog.program_id, g.program_gen>> :
                  g \in {x \in ToSet(prog.generations) : x.current}} :
                 prog \in ToSet(programs)}
  IN  [p \in {c[1] : c \in current} |-> (CHOOSE c \in current : c[1] = p)[2]]

\* The devices by their ids.
ById(devices) ==
  [id \in {d.device_id : d \in ToSet(devices)} |->
     CHOOSE d \in ToSet(devices) : d.device_id = id]

\* Fault: the weights that were read replace those that are there.
Mut_LoadedPolicy(read, policy) == Over(read, policy)

\* What load makes of the policy that is there: it assigns the members that
\* it reads, appends the weights and leaves the other members.
LoadedPolicy(read, policy) ==
  [Over(read, policy) EXCEPT !.weights = policy.weights \o @]

\* What load makes of the stream, in a LiveState that has a policy and
\* nothing else.  The fencing that follows is RecoveredDevice and
\* RecoveredDeployment of Restart.
Loaded(cells, policy) ==
  LET b == Read(load_layout, cells).value
  IN  [epoch |-> IF b.epoch > 1 THEN b.epoch ELSE 1,
       policy |-> LoadedPolicy(b.policy, policy),
       devices |-> ById(b.devices),
       device_order |-> [i \in DOMAIN b.devices |-> b.devices[i].device_id],
       services |-> b.services,
       programs |-> Unmarked(b.programs),
       current_program_gen |-> MarksOf(b.programs),
       deployments |-> b.deployments,
       usage |-> b.usage]

=============================================================================

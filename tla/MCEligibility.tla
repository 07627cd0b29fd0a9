--------------------------- MODULE MCEligibility ----------------------------
(***************************************************************************)
(* A small instance of Eligibility for TLC.                                *)
(***************************************************************************)
EXTENDS Eligibility, MCEngine

\* Two equal devices with ten slots and one capability.
ReportedDevices ==
  {[Record(d, "READY", TRUE, 1, 10, Null) EXCEPT
      !.capabilities = [k \in Keys |-> "SUPPORTED"]] : d \in Devices}

EqualHardware ==
  [d \in Devices |->
     [device_class |-> "DPU", health |-> "HEALTHY",
      offload_classes |-> {"ENCRYPTION"}, version |-> [k \in Keys |-> 1],
      architecture |-> "arm64", firmware_gen |-> 1, runtime_gen |-> 1,
      hardware_isolation |-> TRUE, isolation_proven |-> TRUE,
      isolation_domain |-> Null, tenant |-> "tenant", ports |-> {"port"},
      functions |-> {}, locality |-> "SAME_NIC"]]

NoIsolation == [level |-> "NONE", isolation_domain |-> Null, tenant |-> Null,
                security |-> "UNVERIFIED"]

OneServiceNeeds ==
  [s \in Services |->
     [caps |-> {[key |-> k, optional |-> FALSE, min_version |-> 1] : k \in Keys},
      isolation |-> NoIsolation, min_firmware_gen |-> 1, min_runtime_gen |-> 1,
      dependencies |-> {s}]]

OneArtifactNeeds ==
  [p \in Programs |->
     [required_caps |-> {}, target_architecture |-> "any",
      runtime_abi |-> "abi", min_firmware_gen |-> 1]]

\* Policy::defaults
DefaultPolicy ==
  [hard_caps |-> {}, preferred_devices |-> {}, min_headroom |-> 10,
   max_queue_pressure |-> 90, min_device_health |-> "WARN"]

\* A default constructed OffloadRequest, which asks for one slot.
AnyDevice ==
  [offload_class |-> "CUSTOM_INFRASTRUCTURE_SERVICE", required_caps |-> {},
   required_device_class |-> Null, pinned_device |-> Null,
   required_port |-> Null, required_function |-> Null,
   min_locality |-> "UNKNOWN", tenant |-> Null, isolation_domain |-> Null,
   isolation |-> NoIsolation, resource |-> Amount(1),
   security |-> "UNVERIFIED", service |-> Null, required_program |-> Null,
   required_abi |-> Null, mode |-> "OFFLOAD_REQUIRED",
   allow_host_fallback |-> FALSE, min_headroom |-> 0,
   max_queue_pressure |-> 0]

\* A request through the service, a large one of a tenant that needs the
\* program and proven isolation, and a small one.
ThreeAsks ==
  {[AnyDevice EXCEPT !.service = s1],
   [AnyDevice EXCEPT
      !.offload_class = "ENCRYPTION", !.resource = Amount(9),
      !.required_program = p1, !.required_abi = "abi",
      !.security = "SECURE", !.tenant = "tenant", !.required_port = "port",
      !.isolation = [level |-> "TENANT_COMPATIBLE_SHARED",
                     isolation_domain |-> Null, tenant |-> "tenant",
                     security |-> "SECURE"]],
   [AnyDevice EXCEPT !.mode = "OFFLOAD_PREFERRED",
                     !.allow_host_fallback = TRUE]}

\* What reserve_deployment reads of them.
AskRequests ==
  {[service |-> ask.service, required_program |-> ask.required_program,
    resource |-> ask.resource] : ask \in ThreeAsks}
=============================================================================

------------------------------ MODULE MCJourney ------------------------------
(***************************************************************************)
(* A small instance of Journey for TLC.                                    *)
(***************************************************************************)
EXTENDS Journey

CONSTANTS s1, s2, p1, k1, k2, w1, b1

\* A structure in which every member holds its own name, every vector n
\* elements and every optional its name or nothing.
RECURSIVE Named(_, _)
Named(layout, n) ==
  LET field == [f \in {layout[i].field : i \in DOMAIN layout} |->
                  CHOOSE it \in ToSet(layout) : it.field = f]
      Member(it, tag) == IF it.of = <<>> THEN tag ELSE Named(it.of, n)
  IN  [f \in DOMAIN field |->
         CASE field[f].kind = "one" -> Member(field[f], f)
           [] field[f].kind = "many" ->
                [i \in 1 .. n |-> Member(field[f], f)]
           [] field[f].kind = "maybe" -> IF n = 0 THEN Null ELSE f]

Cap(k, state, version) ==
  [key |-> k, state |-> state, version |-> version, evidence_gen |-> 1,
   min_firmware_gen |-> 0, min_runtime_gen |-> 0, max_scale |-> 7,
   requires_isolation |-> FALSE, source |-> "SYNTHETIC", detail |-> "detail"]

\* make_dpu and scenario_ab of the synthetic backend, with what differs from
\* one device to another.
Device ==
  [Named(write_device, 1) EXCEPT
     !.device_class = "DPU", !.firmware_gen = 2, !.runtime_gen = 3,
     !.resource_capacity = [i \in Dims |-> 4],
     !.offload_classes = <<"SECURITY_SERVICE", "ENCRYPTION">>,
     !.capabilities = <<Cap(k1, "SUPPORTED", 1), Cap(k2, "SUPPORTED", 2)>>,
     !.hardware_isolation = TRUE, !.isolation_domain = Null,
     !.tenant = Null, !.isolation_proven = TRUE, !.locality = "SAME_FUNCTION",
     !.health = "HEALTHY", !.lifecycle = "READY", !.evidence_fresh = TRUE,
     !.owning_worker = Null, !.owner_worker_boot = Null]

\* Generations on both sides of what the service asks for, bindings, ports
\* and evidence that fit a request and that do not.
VariedReports ==
  {[Device EXCEPT
      !.firmware_gen = fw, !.runtime_gen = rt, !.tenant = tenant,
      !.isolation_domain = domain, !.hardware_isolation = hw,
      !.isolation_proven = proven, !.ports = ports,
      !.capabilities = caps] :
     fw \in 1 .. 3, rt \in 1 .. 3, tenant \in {Null, "tenant", "other"},
     domain \in {Null, "domain"}, hw \in BOOLEAN, proven \in BOOLEAN,
     ports \in {<<>>, <<"port", "wire">>},
     caps \in {<<Cap(k1, "SUPPORTED", 1)>>,
               <<Cap(k1, "UNKNOWN", 2), Cap(k2, "SUPPORTED", 1)>>}}

\* A Policy, with what the file has no room for.
PolicyWith(weights, caps, preferred, statefulness) ==
  [Named(load_policy, 0) EXCEPT !.weights = weights]
  @@ [hard_caps |-> caps, preferred_devices |-> preferred,
      preferred_statefulness |-> statefulness]

\* The weights of Policy::defaults, of which two stand for all, at the ends of
\* their range.
TwoWeights == <<[factor |-> "WARM_SERVICE", weight |-> HalfRange - 1],
                [factor |-> "FAILURE_RISK", weight |-> -HalfRange]>>

ConstructedPolicy == PolicyWith(TwoWeights, <<>>, <<>>, "STATELESS")

\* A coordinator with n services, programs, generations and deployments, of
\* which the program has a current one or was retired.  It is the first, or
\* was itself recovered once or twice.
State(n, epoch, current) ==
  [epoch |-> epoch,
   policy |->
     PolicyWith(FlattenSeq([i \in 1 .. epoch |-> TwoWeights]),
                <<k1>>, <<"device_id">>, "STATEFUL"),
   devices |-> <<>>, device_order |-> <<>>,
   services |-> [i \in 1 .. n |-> Named(write_service, i)],
   programs |->
     [i \in 1 .. n |->
        [program_id |-> i,
         generations |-> [g \in 1 .. i |->
                            [program_gen |-> g,
                             artifact |-> Named(write_program, n)]]]],
   current_program_gen |-> [i \in 1 .. current |-> i],
   deployments |-> [i \in 1 .. n |-> Named(write_deployment, i - 1)],
   usage |-> [i \in 1 .. n |-> [device_id |-> "device_id",
                                used |-> [d \in Dims |-> d]]]]

FourStates == {State(0, 1, 0), State(1, 2, 0), State(2, 3, 1), State(2, 1, 2)}

Shared(tenant, domain) ==
  [level |-> "TENANT_COMPATIBLE_SHARED", isolation_domain |-> domain,
   tenant |-> tenant, security |-> "SECURE"]

Unisolated == [level |-> "NONE", isolation_domain |-> Null, tenant |-> Null,
               security |-> "UNVERIFIED"]

\* One service of a tenant that needs isolation and one that does not.
TwoServices ==
  [s \in Services |->
     [caps |-> {[key |-> k1, optional |-> FALSE, min_version |-> 1],
                [key |-> k2, optional |-> s = s2, min_version |-> 2]},
      isolation |-> IF s = s1 THEN Shared("tenant", "domain") ELSE Unisolated,
      min_firmware_gen |-> 3, min_runtime_gen |-> 2, dependencies |-> {s}]]

OneOfEach == [i \in Dims |-> 1]
Definitions == [s \in Services |-> [service_gen |-> 1, resource |-> OneOfEach,
                                    required_program |-> Null]]

OneArtifact ==
  [p \in Programs |->
     [required_caps |-> {}, target_architecture |-> "architecture",
      runtime_abi |-> "abi", min_firmware_gen |-> 2]]

DefaultPolicy ==
  [hard_caps |-> {}, preferred_devices |-> {}, min_headroom |-> 10,
   max_queue_pressure |-> 90, min_device_health |-> "WARN"]

AnyDevice ==
  [offload_class |-> "CUSTOM_INFRASTRUCTURE_SERVICE", required_caps |-> {},
   required_device_class |-> Null, pinned_device |-> Null,
   required_port |-> Null, required_function |-> Null,
   min_locality |-> "UNKNOWN", tenant |-> Null, isolation_domain |-> Null,
   isolation |-> Unisolated, resource |-> OneOfEach,
   security |-> "UNVERIFIED", service |-> Null, required_program |-> Null,
   required_abi |-> Null, mode |-> "OFFLOAD_REQUIRED",
   allow_host_fallback |-> FALSE, min_headroom |-> 0,
   max_queue_pressure |-> 0]

VariedAsks ==
  {[AnyDevice EXCEPT !.service = s1, !.tenant = "tenant"],
   [AnyDevice EXCEPT !.service = s2, !.offload_class = "SECURITY_SERVICE",
                     !.required_device_class = "DPU"],
   [AnyDevice EXCEPT !.required_program = p1, !.required_port = "port",
                     !.security = "SECURE", !.min_locality = "SAME_NIC"],
   [AnyDevice EXCEPT
      !.required_function = "functions",
      !.isolation = [Shared("tenant", Null) EXCEPT
                       !.level = "DEDICATED_DEVICE"]]}
=============================================================================

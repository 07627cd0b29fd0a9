------------------------------- MODULE Engine -------------------------------
(***************************************************************************)
(* The coordinator engine, class DPUFabricEngine (src/engine.cpp), over    *)
(* its LiveState (include/dpufabric/registry.h).                           *)
(*                                                                         *)
(* Every mutator runs under the engine's one mutex and publishes a         *)
(* snapshot before it unlocks, so a call is one atomic step and threads    *)
(* interleave by calls: Next is the disjunction of the calls.  A call that *)
(* throws before it has changed anything is a stuttering step and has no   *)
(* action.  std::map is a function whose DOMAIN is the set of keys, id 0   *)
(* is the null id, and an empty std::optional<ActivationId> is 0.          *)
(***************************************************************************)
EXTENDS ResourceLedger, Sequences

CONSTANTS
  Devices, Keys, Services, Programs, Workers, WorkerBoots, Null,
  ServiceDef,      \* the definition each ServiceId is registered with
  Registrations,   \* DeviceRecords that callers pass to register_device
  Updates,         \* DeviceRecords that callers pass to update_device
  Requests,        \* OffloadRequests that callers reserve with
  MaxId,           \* bound on the id generator
  MaxProgramGen,   \* bound on program generations
  MaxEpoch         \* bound on advance_epoch

VARIABLES
  devices, device_order, ledgers,
  services, programs, current_program_gen,
  workers,
  deployments, activations,
  epoch, id_seq

vars == <<devices, device_order, ledgers, services, programs,
          current_program_gen, workers, deployments, activations, epoch,
          id_seq>>

-----------------------------------------------------------------------------
(* Types *)

Lifecycle == {"DISCOVERED", "AVAILABLE", "PROVISIONING", "READY", "DEGRADED",
              "DRAINING", "REVALIDATION_REQUIRED", "FAILED", "OFFLINE",
              "RETIRED"}

\* "ABSENT" is a key that is not in the CapabilitySet's map.
CapabilityState == {"SUPPORTED", "UNSUPPORTED", "UNKNOWN",
                    "REVALIDATION_REQUIRED"}

DeploymentState == {"PLANNED", "RESERVED", "STAGING", "LOADED", "VALIDATING",
                    "ACTIVATING", "ACTIVE", "DEGRADED", "DRAINING", "FAILED",
                    "ABORTED", "RETIRED", "REVALIDATION_REQUIRED"}

ActivationState == {"PENDING", "ACTIVE", "DRAINING", "RETIRED", "STALE",
                    "CANCELLED"}

\* boot_id stands for the pair (generation, boot_id); pci_reference 0 is the
\* empty string.
DeviceRecord ==
  [device_id : Devices, lifecycle : Lifecycle, evidence_fresh : BOOLEAN,
   boot_id : Nat, evidence_gen : Nat, pci_reference : Nat,
   resource_capacity : Usage, owning_worker : Workers \cup {Null},
   capabilities : [Keys -> CapabilityState \cup {"ABSENT"}]]

\* device_boot stands for the pair (device_gen, device_boot).
ActivationAuthority ==
  [epoch : Nat, worker : Workers \cup {Null},
   worker_boot : WorkerBoots \cup {Null}, device : Devices \cup {Null},
   device_boot : Nat, service_gen : Nat, program_gen : Nat,
   deployment_gen : Nat, activation_gen : Nat, policy_gen : Nat,
   evidence_gen : Nat]

NoAuthority ==
  [epoch |-> 0, worker |-> Null, worker_boot |-> Null, device |-> Null,
   device_boot |-> 0, service_gen |-> 0, program_gen |-> 0,
   deployment_gen |-> 0, activation_gen |-> 0, policy_gen |-> 0,
   evidence_gen |-> 0]

ActivationRecord ==
  [deployment_id : Nat, activation_gen : Nat, state : ActivationState,
   authority : ActivationAuthority]

Deployment ==
  [generation : Nat, device : Devices, device_boot : Nat,
   service : Services \cup {Null}, service_gen : Nat,
   program : Programs \cup {Null}, program_gen : Nat, resources : Usage,
   state : DeploymentState, authoritative : BOOLEAN, activation : Nat,
   activation_gen : Nat, epoch : Nat,
   worker_boot : WorkerBoots \cup {Null}]

Ledger == [cap : Usage, used : Usage]

ASSUME EngineAssumption ==
  /\ Registrations \subseteq DeviceRecord
  /\ Updates \subseteq DeviceRecord
  /\ ServiceDef \in [Services -> [service_gen : Nat, resource : Usage,
                                  required_program : Programs \cup {Null}]]
  /\ Requests \subseteq [service : Services \cup {Null},
                         required_program : Programs \cup {Null},
                         resource : Usage]
  /\ Null \notin Services
  /\ Null \notin Programs
  /\ Null \notin Devices
  /\ Null \notin Workers
  /\ Null \notin WorkerBoots
  /\ MaxId \in Nat
  /\ MaxProgramGen \in Nat
  /\ MaxEpoch \in Nat

EmptyMap == [x \in {} |-> 0]

\* state_.policy.generation: no call replaces the policy of the constructor.
policy_generation == 1

\* m[k] = v on a std::map
Put(m, k, v) == [x \in DOMAIN m \cup {k} |-> IF x = k THEN v ELSE m[x]]

\* m.erase(k)
Erase(m, k) == [x \in DOMAIN m \ {k} |-> m[x]]

\* Fault: a counter that saturates after its first value.
Mut_next_generation(g) == IF g = 1 THEN g ELSE g + 1

\* next_generation saturates at 2^64 - 1, which the bounds keep out of reach.
next_generation(g) == g + 1

-----------------------------------------------------------------------------
(* The transition tables *)

valid_device_transition(from, to) ==
  \/ /\ from = "DISCOVERED"
     /\ to \in {"AVAILABLE", "FAILED", "RETIRED", "OFFLINE"}
  \/ /\ from = "AVAILABLE"
     /\ to \in {"PROVISIONING", "READY", "REVALIDATION_REQUIRED", "FAILED",
                "OFFLINE", "RETIRED", "DEGRADED"}
  \/ /\ from = "PROVISIONING"
     /\ to \in {"READY", "AVAILABLE", "FAILED", "OFFLINE", "RETIRED",
                "DEGRADED"}
  \/ /\ from = "READY"
     /\ to \in {"DEGRADED", "FAILED", "DRAINING", "REVALIDATION_REQUIRED",
                "OFFLINE", "RETIRED"}
  \/ /\ from = "DEGRADED"
     /\ to \in {"READY", "FAILED", "DRAINING", "REVALIDATION_REQUIRED",
                "OFFLINE", "RETIRED"}
  \/ /\ from = "DRAINING"
     /\ to \in {"AVAILABLE", "OFFLINE", "RETIRED", "FAILED", "READY"}
  \/ /\ from = "REVALIDATION_REQUIRED"
     /\ to \in {"READY", "AVAILABLE", "FAILED", "OFFLINE", "RETIRED",
                "DEGRADED"}
  \/ /\ from = "FAILED"
     /\ to \in {"OFFLINE", "RETIRED", "AVAILABLE"}
  \/ /\ from = "OFFLINE"
     /\ to \in {"AVAILABLE", "RETIRED", "DISCOVERED"}

valid_deployment_transition(from, to) ==
  \/ /\ from = "PLANNED"
     /\ to \in {"RESERVED", "ABORTED", "FAILED"}
  \/ /\ from = "RESERVED"
     /\ to \in {"STAGING", "PLANNED", "ABORTED", "FAILED"}
  \/ /\ from = "STAGING"
     /\ to \in {"LOADED", "RESERVED", "ABORTED", "FAILED"}
  \/ /\ from = "LOADED"
     /\ to \in {"VALIDATING", "STAGING", "ABORTED", "FAILED"}
  \/ /\ from = "VALIDATING"
     /\ to \in {"ACTIVATING", "LOADED", "FAILED", "ABORTED",
                "REVALIDATION_REQUIRED"}
  \/ /\ from = "ACTIVATING"
     /\ to \in {"ACTIVE", "FAILED", "ABORTED", "REVALIDATION_REQUIRED",
                "DEGRADED"}
  \/ /\ from = "ACTIVE"
     /\ to \in {"DEGRADED", "DRAINING", "REVALIDATION_REQUIRED", "FAILED",
                "RETIRED"}
  \/ /\ from = "DEGRADED"
     /\ to \in {"ACTIVE", "DRAINING", "REVALIDATION_REQUIRED", "FAILED",
                "RETIRED"}
  \/ /\ from = "DRAINING"
     /\ to \in {"RETIRED", "ACTIVE", "REVALIDATION_REQUIRED", "FAILED"}
  \/ /\ from = "FAILED"
     /\ to \in {"PLANNED", "ABORTED", "RETIRED", "REVALIDATION_REQUIRED"}
  \/ /\ from = "ABORTED"
     /\ to \in {"PLANNED", "RETIRED"}
  \/ /\ from = "REVALIDATION_REQUIRED"
     /\ to \in {"VALIDATING", "ACTIVE", "FAILED", "RETIRED", "DRAINING"}

-----------------------------------------------------------------------------
(* Shared parts of the handlers *)

\* DeviceRecord::is_ready_for_offload, after the find() every caller makes.
is_ready_for_offload(d) ==
  /\ d \in DOMAIN devices
  /\ devices[d].lifecycle = "READY"
  /\ devices[d].evidence_fresh

\* Fault: the loop ends with the first deployment it finds.
Mut_OnDevice(d, states) ==
  {x \in DOMAIN deployments :
     /\ deployments[x].device = d
     /\ deployments[x].state \in states
     /\ \A y \in DOMAIN deployments :
          /\ deployments[y].device = d
          /\ deployments[y].state \in states
          => x <= y}

OnDevice(d, states) ==
  {x \in DOMAIN deployments : /\ deployments[x].device = d
                              /\ deployments[x].state \in states}

\* Fault: the activation table is forgotten.
Mut_Activations(S, to) == activations

\* The activation table after the activations of the deployments in S, where
\* they have one, are set to state `to`.
Activations(S, to) ==
  [a \in DOMAIN activations |->
     IF \E x \in S : deployments[x].activation = a
     THEN [activations[a] EXCEPT !.state = to]
     ELSE activations[a]]

\* The deployment table after the deployments in S went to state `to`
\* without authority.
Deployments(S, to) ==
  [x \in DOMAIN deployments |->
     IF x \in S
     THEN [deployments[x] EXCEPT !.state = to, !.authoritative = FALSE]
     ELSE deployments[x]]

\* The loops that fence the deployments in S.
Fence(S) ==
  /\ deployments' = Deployments(S, "REVALIDATION_REQUIRED")
  /\ activations' = Activations(S, "STALE")

\* release_resources(x)
release_resources(x) ==
  LET d == deployments[x].device
  IN  ledgers' = IF d \in DOMAIN ledgers
                 THEN [ledgers EXCEPT ![d].used =
                         release(ledgers[d].used, deployments[x].resources)]
                 ELSE ledgers

\* do_deploy_transition(x, to); its authoritative flag is (to == ACTIVE), and
\* no caller passes ACTIVE.
do_deploy_transition(x, to) ==
  /\ x \in DOMAIN deployments
  /\ valid_deployment_transition(deployments[x].state, to)
  /\ deployments' = [deployments EXCEPT ![x].state = to,
                                        ![x].authoritative = (to = "ACTIVE")]

registry == <<device_order, services, programs, current_program_gen>>

-----------------------------------------------------------------------------
(* Device registry *)

\* Fault: only the look without the mutex tells whether the device is known.
Mut_register_device(rec) ==
  LET d == rec.device_id
  IN  /\ devices' = Put(devices, d, rec)
      /\ device_order' = Append(device_order, d)
      /\ ledgers' = IF d \in DOMAIN ledgers THEN ledgers
                    ELSE Put(ledgers, d, [cap |-> rec.resource_capacity,
                                          used |-> NoUsage])
      /\ UNCHANGED <<services, programs, current_program_gen, workers,
                     deployments, activations, epoch, id_seq>>

register_device(rec) ==
  LET d == rec.device_id
  IN  /\ d \notin DOMAIN devices
      /\ devices' = Put(devices, d, rec)
      /\ device_order' = Append(device_order, d)
      \* emplace keeps a ledger that is already there
      /\ ledgers' = IF d \in DOMAIN ledgers THEN ledgers
                    ELSE Put(ledgers, d, [cap |-> rec.resource_capacity,
                                          used |-> NoUsage])
      /\ UNCHANGED <<services, programs, current_program_gen, workers,
                     deployments, activations, epoch, id_seq>>

\* The whole record is replaced; the ledger keeps its old capacity and the
\* deployments of the device are not looked at.
update_device(rec) ==
  LET d == rec.device_id
  IN  /\ d \in DOMAIN devices
      /\ \/ devices[d].pci_reference = 0
         \/ rec.pci_reference = 0
         \/ devices[d].pci_reference = rec.pci_reference
      /\ devices' = [devices EXCEPT ![d] = rec]
      /\ UNCHANGED <<registry, ledgers, workers, deployments, activations,
                     epoch, id_seq>>

retire_device(d) ==
  LET S == OnDevice(d, {"ACTIVE", "DEGRADED", "DRAINING"})
      req == [x \in S |-> deployments[x].resources]
  IN  /\ d \in DOMAIN devices
      /\ Fence(S)
      /\ ledgers' = IF d \in DOMAIN ledgers
                    THEN [ledgers EXCEPT ![d].used =
                            ReleaseEach(ledgers[d].used, req, S, MaxId)]
                    ELSE ledgers
      /\ devices' = [devices EXCEPT ![d].lifecycle = "RETIRED",
                                    ![d].evidence_fresh = FALSE]
      /\ UNCHANGED <<registry, workers, epoch, id_seq>>

\* The lifecycles whose entry invalidates the evidence and fences.
LosesEvidence == {"REVALIDATION_REQUIRED", "OFFLINE", "FAILED"}

transition_device(d, to) ==
  /\ d \in DOMAIN devices
  /\ valid_device_transition(devices[d].lifecycle, to)
  /\ IF to \in LosesEvidence
     THEN /\ Fence(OnDevice(d, {"ACTIVE", "DEGRADED"}))
          /\ devices' = [devices EXCEPT ![d].lifecycle = to,
                                        ![d].evidence_fresh = FALSE]
     ELSE /\ devices' = [devices EXCEPT ![d].lifecycle = to]
          /\ UNCHANGED <<deployments, activations>>
  /\ UNCHANGED <<registry, ledgers, workers, epoch, id_seq>>

\* CapabilitySet::set_state: a key that is absent is only added as SUPPORTED.
set_device_state(d, s, k) ==
  /\ d \in DOMAIN devices
  /\ devices[d].capabilities[k] = "ABSENT" => s = "SUPPORTED"
  /\ devices' = [devices EXCEPT ![d].capabilities[k] = s]
  /\ UNCHANGED <<registry, ledgers, workers, deployments, activations, epoch,
                 id_seq>>

fence_device(d) ==
  /\ d \in DOMAIN devices
  /\ devices' = [devices EXCEPT
       ![d].evidence_fresh = FALSE,
       ![d].lifecycle = IF @ \in {"RETIRED", "OFFLINE", "FAILED"} THEN @
                        ELSE "REVALIDATION_REQUIRED"]
  /\ Fence(OnDevice(d, {"ACTIVE", "DEGRADED"}))
  /\ UNCHANGED <<registry, ledgers, workers, epoch, id_seq>>

-----------------------------------------------------------------------------
(* Services and programs *)

register_service(s) ==
  /\ s \notin services
  /\ services' = services \cup {s}
  /\ UNCHANGED <<devices, device_order, ledgers, programs,
                 current_program_gen, workers, deployments, activations,
                 epoch, id_seq>>

\* 0 is "no current generation", so > also covers the first registration and
\* the one after retire_program, whatever its generation.
register_program(p, g) ==
  /\ programs' = [programs EXCEPT ![p] = @ \cup {g}]
  /\ current_program_gen' = [current_program_gen EXCEPT
                               ![p] = IF g > @ THEN g ELSE @]
  /\ UNCHANGED <<devices, device_order, ledgers, services, workers,
                 deployments, activations, epoch, id_seq>>

retire_program(p) ==
  /\ programs[p] # {}
  /\ current_program_gen' = [current_program_gen EXCEPT ![p] = 0]
  /\ UNCHANGED <<devices, device_order, ledgers, services, programs, workers,
                 deployments, activations, epoch, id_seq>>

-----------------------------------------------------------------------------
(* Workers *)

\* A second registration with the same boot returns, with another one throws.
register_worker(w, b) ==
  /\ w \notin DOMAIN workers
  /\ workers' = Put(workers, w, b)
  /\ UNCHANGED <<devices, registry, ledgers, deployments, activations, epoch,
                 id_seq>>

mark_worker_lost(w) ==
  /\ devices' = [d \in DOMAIN devices |->
       IF /\ devices[d].owning_worker = w
          /\ devices[d].lifecycle # "RETIRED"
       THEN [devices[d] EXCEPT !.evidence_fresh = FALSE,
                               !.lifecycle = "REVALIDATION_REQUIRED"]
       ELSE devices[d]]
  /\ Fence(IF w \in DOMAIN workers
           THEN {x \in DOMAIN deployments :
                   /\ deployments[x].worker_boot = workers[w]
                   /\ deployments[x].state = "ACTIVE"}
           ELSE {})
  /\ workers' = Erase(workers, w)
  /\ UNCHANGED <<registry, ledgers, epoch, id_seq>>

-----------------------------------------------------------------------------
(* Deployments *)

\* elig.selected is a parameter the caller obtained from an earlier
\* evaluate(), on whatever snapshot was published then: any device.  Both
\* ids (deployment and attempt) are drawn before the ledger is asked, so
\* RESOURCE_EXHAUSTED throws with the generator already advanced.
reserve_deployment(d, req) ==
  LET rr == IF req.service # Null THEN ServiceDef[req.service].resource
            ELSE req.resource
      prog == IF req.required_program # Null THEN req.required_program
              ELSE IF req.service # Null
                   THEN ServiceDef[req.service].required_program
              ELSE Null
      dep == [generation |-> 1,
              device |-> d, device_boot |-> devices[d].boot_id,
              service |-> req.service,
              service_gen |-> IF req.service # Null
                              THEN ServiceDef[req.service].service_gen
                              ELSE 0,
              program |-> prog,
              program_gen |-> IF prog # Null THEN current_program_gen[prog]
                              ELSE 0,
              resources |-> rr, state |-> "RESERVED",
              authoritative |-> FALSE, activation |-> 0,
              activation_gen |-> 0, epoch |-> 0, worker_boot |-> Null]
  IN  /\ id_seq + 1 <= MaxId
      /\ is_ready_for_offload(d)
      /\ req.service # Null => req.service \in services
      /\ d \in DOMAIN ledgers
      /\ id_seq' = id_seq + 2
      /\ \/ /\ can_reserve(ledgers[d].cap, ledgers[d].used, rr)
            /\ ledgers' = [ledgers EXCEPT ![d].used = apply(@, rr)]
            /\ deployments' = Put(deployments, id_seq, dep)
         \/ /\ ~can_reserve(ledgers[d].cap, ledgers[d].used, rr)
            /\ UNCHANGED <<ledgers, deployments>>
      /\ UNCHANGED <<devices, registry, workers, activations, epoch>>

stage_deployment(x) ==
  /\ do_deploy_transition(x, "STAGING")
  /\ UNCHANGED <<devices, registry, ledgers, workers, activations, epoch,
                 id_seq>>

load_deployment(x) ==
  /\ do_deploy_transition(x, "LOADED")
  /\ UNCHANGED <<devices, registry, ledgers, workers, activations, epoch,
                 id_seq>>

validate_deployment(x) ==
  /\ do_deploy_transition(x, "VALIDATING")
  /\ UNCHANGED <<devices, registry, ledgers, workers, activations, epoch,
                 id_seq>>

activate_deployment(x) ==
  /\ id_seq <= MaxId
  /\ x \in DOMAIN deployments
  /\ valid_deployment_transition(deployments[x].state, "ACTIVATING")
  /\ LET gen == next_generation(deployments[x].activation_gen)
     IN  /\ deployments' = [deployments EXCEPT
                              ![x].state = "ACTIVATING",
                              ![x].authoritative = FALSE,
                              ![x].activation = id_seq,
                              ![x].activation_gen = gen]
         /\ activations' = Put(activations, id_seq,
                               [deployment_id |-> x, activation_gen |-> gen,
                                state |-> "PENDING",
                                authority |-> NoAuthority])
  /\ id_seq' = id_seq + 1
  /\ UNCHANGED <<devices, registry, ledgers, workers, epoch>>

\* The authority that commit_deployment composes.  Its worker_boot is the
\* deployment's, which nothing assigns.
Authority(x) ==
  LET dep == deployments[x]
  IN  [epoch |-> epoch, worker |-> Null, worker_boot |-> dep.worker_boot,
       device |-> dep.device, device_boot |-> dep.device_boot,
       service_gen |-> dep.service_gen, program_gen |-> dep.program_gen,
       deployment_gen |-> dep.generation,
       activation_gen |-> dep.activation_gen,
       policy_gen |-> policy_generation,
       evidence_gen |-> devices[dep.device].evidence_gen]

\* *dep.activation.  Reading an empty optional is undefined: what comes out
\* may be any id.
ActivationRead(x) ==
  IF deployments[x].activation # 0 THEN {deployments[x].activation}
  ELSE 1 .. MaxId

\* Fault: only that the program was not retired is checked.
Mut_ProgramCurrent(p, gen) == current_program_gen[p] # 0

\* The program was not retired and no newer generation was registered.
ProgramCurrent(p, gen) ==
  /\ current_program_gen[p] # 0
  /\ current_program_gen[p] = gen

\* Fault: a fenced deployment is committed again.
Mut_Committable == {"ACTIVATING", "REVALIDATION_REQUIRED"}

Committable == {"ACTIVATING"}

commit_deployment(x) ==
  /\ x \in DOMAIN deployments
  /\ deployments[x].state \in Committable
  /\ is_ready_for_offload(deployments[x].device)
  /\ LET p == deployments[x].program
     IN  p # Null => ProgramCurrent(p, deployments[x].program_gen)
  /\ \E a \in ActivationRead(x) \cap DOMAIN activations :
       activations' = [activations EXCEPT ![a].authority = Authority(x),
                                          ![a].state = "ACTIVE"]
  /\ deployments' = [deployments EXCEPT ![x].state = "ACTIVE",
                                        ![x].authoritative = TRUE,
                                        ![x].epoch = epoch]
  /\ UNCHANGED <<devices, registry, ledgers, workers, epoch, id_seq>>

\* Fault: a draining deployment is cancelled.
Mut_Cancellable == {"PLANNED", "RESERVED", "STAGING", "LOADED", "VALIDATING",
                    "ACTIVATING", "DRAINING"}

Cancellable == {"PLANNED", "RESERVED", "STAGING", "LOADED", "VALIDATING",
                "ACTIVATING"}

cancel_deployment(x) ==
  /\ x \in DOMAIN deployments
  /\ deployments[x].state \in Cancellable
  /\ release_resources(x)
  /\ activations' = Activations({x}, "CANCELLED")
  /\ deployments' = Deployments({x}, "ABORTED")
  /\ UNCHANGED <<devices, registry, workers, epoch, id_seq>>

Rollbackable == {"FAILED", "RESERVED", "STAGING", "LOADED", "VALIDATING",
                 "ACTIVATING"}

rollback_deployment(x) ==
  /\ x \in DOMAIN deployments
  /\ deployments[x].state \in Rollbackable
  /\ release_resources(x)
  /\ activations' = Activations({x}, "CANCELLED")
  /\ deployments' = Deployments({x}, "ABORTED")
  /\ UNCHANGED <<devices, registry, workers, epoch, id_seq>>

Drainable == {"ACTIVE", "DEGRADED", "REVALIDATION_REQUIRED"}

drain_deployment(x) ==
  /\ x \in DOMAIN deployments
  /\ deployments[x].state \in Drainable
  /\ activations' = Activations({x}, "DRAINING")
  /\ deployments' = Deployments({x}, "DRAINING")
  /\ UNCHANGED <<devices, registry, ledgers, workers, epoch, id_seq>>

Retirable == {"ACTIVE", "DEGRADED", "DRAINING", "REVALIDATION_REQUIRED",
              "FAILED", "ABORTED"}

\* Fault: a fenced deployment is retired without giving back its resources.
Mut_HeldUntilRetired == {"ACTIVE", "DEGRADED", "DRAINING"}

\* The states from which retire_deployment still has something to give back.
HeldUntilRetired == {"ACTIVE", "DEGRADED", "DRAINING",
                     "REVALIDATION_REQUIRED"}

retire_deployment(x) ==
  /\ x \in DOMAIN deployments
  /\ deployments[x].state \in Retirable
  /\ IF deployments[x].state \in HeldUntilRetired
     THEN /\ activations' = Activations({x}, "RETIRED")
          /\ release_resources(x)
     ELSE UNCHANGED <<activations, ledgers>>
  /\ deployments' = Deployments({x}, "RETIRED")
  /\ UNCHANGED <<devices, registry, workers, epoch, id_seq>>

fail_deployment(x) ==
  /\ x \in DOMAIN deployments
  /\ valid_deployment_transition(deployments[x].state, "FAILED")
  /\ release_resources(x)
  /\ activations' = Activations({x}, "STALE")
  /\ deployments' = Deployments({x}, "FAILED")
  /\ UNCHANGED <<devices, registry, workers, epoch, id_seq>>

-----------------------------------------------------------------------------
(* Epoch and recovery policy *)

advance_epoch ==
  /\ epoch < MaxEpoch
  /\ epoch' = next_generation(epoch)
  /\ UNCHANGED <<devices, registry, ledgers, workers, deployments,
                 activations, id_seq>>

\* policy is a RecoveryPolicy.
apply_recovery(policy) ==
  /\ devices' = [d \in DOMAIN devices |->
       IF devices[d].lifecycle = "RETIRED" THEN devices[d]
       ELSE [devices[d] EXCEPT
               !.evidence_fresh = FALSE,
               !.lifecycle = IF @ \in {"FAILED", "OFFLINE"} THEN @
                             ELSE "REVALIDATION_REQUIRED",
               !.capabilities =
                 [k \in Keys |->
                    IF /\ policy = "FENCE_ALL_DYNAMIC"
                       /\ @[k] = "SUPPORTED"
                    THEN "REVALIDATION_REQUIRED" ELSE @[k]]]]
  /\ Fence({x \in DOMAIN deployments :
              deployments[x].state \in {"ACTIVE", "DEGRADED"}})
  /\ UNCHANGED <<registry, ledgers, workers, epoch, id_seq>>

-----------------------------------------------------------------------------

\* A coordinator is constructed with epoch 1 and an empty state.
Init ==
  /\ devices = EmptyMap
  /\ device_order = <<>>
  /\ ledgers = EmptyMap
  /\ services = {}
  /\ programs = [p \in Programs |-> {}]
  /\ current_program_gen = [p \in Programs |-> 0]
  /\ workers = EmptyMap
  /\ deployments = EmptyMap
  /\ activations = EmptyMap
  /\ epoch = 1
  /\ id_seq = 1

DeviceCall ==
  \/ \E rec \in Registrations : register_device(rec)
  \/ \E rec \in Updates : update_device(rec)
  \/ \E d \in Devices :
       \/ retire_device(d)
       \/ fence_device(d)
       \/ \E to \in Lifecycle : transition_device(d, to)
       \/ \E s \in CapabilityState, k \in Keys : set_device_state(d, s, k)

CatalogCall ==
  \/ \E s \in Services : register_service(s)
  \/ \E p \in Programs :
       \/ retire_program(p)
       \/ \E g \in 1 .. MaxProgramGen : register_program(p, g)

WorkerCall ==
  \E w \in Workers :
    \/ mark_worker_lost(w)
    \/ \E b \in WorkerBoots : register_worker(w, b)

DeploymentCall ==
  \/ \E d \in Devices, req \in Requests : reserve_deployment(d, req)
  \/ \E x \in DOMAIN deployments :
       \/ stage_deployment(x)
       \/ load_deployment(x)
       \/ validate_deployment(x)
       \/ activate_deployment(x)
       \/ commit_deployment(x)
       \/ cancel_deployment(x)
       \/ rollback_deployment(x)
       \/ drain_deployment(x)
       \/ retire_deployment(x)
       \/ fail_deployment(x)

RecoveryCall ==
  \/ advance_epoch
  \/ \E policy \in {"FENCE_ALL_DYNAMIC", "FENCE_AUTHORITY_ONLY"} :
       apply_recovery(policy)

Next == DeviceCall \/ CatalogCall \/ WorkerCall \/ DeploymentCall \/ RecoveryCall

Spec == Init /\ [][Next]_vars

-----------------------------------------------------------------------------
(* Properties *)

\* The shape of the state the handlers above may rely on: ids below the
\* generator, a ledger for exactly the registered devices, each device under
\* its own id.
TypeOK ==
  /\ DOMAIN devices \subseteq Devices
  /\ devices \in [DOMAIN devices -> DeviceRecord]
  /\ \A d \in DOMAIN devices : devices[d].device_id = d
  /\ device_order \in Seq(Devices)
  /\ ledgers \in [DOMAIN devices -> Ledger]
  /\ services \subseteq Services
  /\ programs \in [Programs -> SUBSET (1 .. MaxProgramGen)]
  /\ current_program_gen \in [Programs -> 0 .. MaxProgramGen]
  /\ DOMAIN workers \subseteq Workers
  /\ workers \in [DOMAIN workers -> WorkerBoots]
  /\ DOMAIN deployments \subseteq 1 .. (id_seq - 1)
  /\ deployments \in [DOMAIN deployments -> Deployment]
  /\ DOMAIN activations \subseteq 1 .. (id_seq - 1)
  /\ activations \in [DOMAIN activations -> ActivationRecord]
  /\ epoch \in Nat
  /\ id_seq \in 1 .. (MaxId + 1)

\* The one activation that a deployment names is the one that names it.
ActivationOf(x) ==
  LET a == deployments[x].activation
  IN  a # 0 => /\ a \in DOMAIN activations
               /\ activations[a].deployment_id = x
               /\ activations[a].activation_gen = deployments[x].activation_gen

\* The authority recorded for a deployment binds what the deployment was
\* reserved and activated with.
Binds(au, dep) ==
  /\ au.epoch = dep.epoch
  /\ au.device = dep.device
  /\ au.device_boot = dep.device_boot
  /\ au.program_gen = dep.program_gen
  /\ au.activation_gen = dep.activation_gen

\* A deployment carries the authoritative flag exactly while it is ACTIVE,
\* and what commit_deployment and the readers of the authority dereference
\* is there.
DeploymentBound(x) ==
  LET dep == deployments[x]
  IN  /\ dep.authoritative <=> dep.state = "ACTIVE"
      /\ ActivationOf(x)
      /\ dep.state = "ACTIVATING" =>
           /\ dep.activation # 0
           /\ activations[dep.activation].state = "PENDING"
      /\ dep.state = "ACTIVE" =>
           /\ dep.activation # 0
           /\ activations[dep.activation].state = "ACTIVE"
           /\ Binds(activations[dep.activation].authority, dep)

\* An ACTIVE activation belongs to an ACTIVE deployment that names it, a
\* PENDING one to a deployment that is still ACTIVATING.
ActivationBound(a) ==
  LET x == activations[a].deployment_id
  IN  /\ x \in DOMAIN deployments
      /\ activations[a].state = "ACTIVE" =>
           /\ deployments[x].state = "ACTIVE"
           /\ deployments[x].activation = a
      /\ activations[a].state = "PENDING" =>
           /\ deployments[x].state = "ACTIVATING"
           /\ deployments[x].activation = a

\* The deployment table and the activation table agree about authority,
\* although every handler updates the two by hand: an ACTIVE deployment and
\* its ACTIVE activation name each other, the recorded authority binds that
\* deployment, and no activation outlives its deployment's grant.
AuthorityBinding ==
  /\ \A x \in DOMAIN deployments : DeploymentBound(x)
  /\ \A a \in DOMAIN activations : ActivationBound(a)

\* The activation table is a history: the activations of a deployment have
\* distinct generations, the newest is the one the deployment names, and an
\* activation that was never committed carries no authority.
GenerationHistory ==
  /\ \A x \in DOMAIN deployments :
       deployments[x].activation = 0 => deployments[x].activation_gen = 0
  /\ \A a \in DOMAIN activations :
       LET x == activations[a].deployment_id
           gen == activations[a].activation_gen
       IN  /\ x \in DOMAIN deployments
           /\ gen \in 1 .. deployments[x].activation_gen
           /\ gen = deployments[x].activation_gen =>
                deployments[x].activation = a
           /\ activations[a].state = "PENDING" =>
                activations[a].authority.activation_gen = 0

\* Every handler that assigns a deployment's state moves it along the
\* table of deployment.h, although most of them test hand-written lists of
\* states instead of the table; deployments never disappear.
DeploymentTransitionsValid ==
  [][\A x \in DOMAIN deployments :
       /\ x \in DOMAIN deployments'
       /\ \/ deployments'[x].state = deployments[x].state
          \/ valid_deployment_transition(deployments[x].state,
                                         deployments'[x].state)]_vars

\* As long as device evidence is only invalidated by the engine's own calls
\* (update_device reports fresh evidence, no worker is lost), an ACTIVE
\* deployment stands on fresh evidence: every call that clears the flag
\* fences.
EvidenceFenced ==
  \A x \in DOMAIN deployments :
    deployments[x].state = "ACTIVE" =>
      /\ deployments[x].device \in DOMAIN devices
      /\ devices[deployments[x].device].evidence_fresh

\* A ledger's usage stays within its nonzero capacities, whatever
\* sequence of reservations and (possibly repeated) releases is applied,
\* sums that wrap included.
LedgerWithinCapacity ==
  \A d \in DOMAIN ledgers, i \in Dims :
    ledgers[d].cap[i] # 0 => ledgers[d].used[i] <= ledgers[d].cap[i]

-----------------------------------------------------------------------------
(* Refinement *)

\* What a deployment state means for authority.
PhaseOf(state) ==
  IF state = "ACTIVE" THEN "granted"
  ELSE IF state = "ACTIVATING" THEN "minted"
  ELSE IF state \in {"FAILED", "ABORTED", "RETIRED"} THEN "closed"
  ELSE "pending"

LeasePhase == [x \in 1 .. MaxId |-> IF x \in DOMAIN deployments
                                    THEN PhaseOf(deployments[x].state)
                                    ELSE "none"]

LeaseToken == [x \in 1 .. MaxId |-> IF x \in DOMAIN deployments
                                    THEN deployments[x].activation_gen
                                    ELSE 0]

\* The activations that were ever committed.
LeaseGrants ==
  {<<activations[a].deployment_id, activations[a].activation_gen>> :
     a \in {b \in DOMAIN activations :
              activations[b].authority.activation_gen # 0}}

Lease ==
  INSTANCE AuthorityLease WITH
    Ids <- 1 .. MaxId,
    phase <- LeasePhase,
    token <- LeaseToken,
    grants <- LeaseGrants

\* The engine implements the lease: authority comes and goes only as
\* AuthorityLease says, whichever handlers interleave.
ImplementsLease == Lease!LSpec
=============================================================================

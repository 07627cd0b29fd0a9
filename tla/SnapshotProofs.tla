--------------------------- MODULE SnapshotProofs ----------------------------
(***************************************************************************)
(* Proofs about the calls that are more than one step (Snapshots): they    *)
(* implement the atomic calls of Engine, and what a reader sees without a  *)
(* lock is bound.                                                          *)
(*                                                                         *)
(* The lemmas about Engine are used as they are, of the tables in which    *)
(* the first half of an activation is undone: Under is EngineProofs with   *)
(* that substitution, the one of Atomic.                                   *)
(***************************************************************************)
EXTENDS Snapshots, EngineProofs

\* The deployments without the first half of an activation.
Undone ==
  IF activating = 0 THEN deployments
  ELSE [deployments EXCEPT ![activating].state = "VALIDATING"]

Under == INSTANCE EngineProofs WITH deployments <- Undone

\* The constants are the same.
LEMMA UnderAssumptions == Under!EngineAssumption /\ Under!LedgerAssumption
  BY EngineAssumption, LedgerAssumption
     DEF Under!EngineAssumption, Under!LedgerAssumption,
         DeviceRecord, Under!DeviceRecord, Lifecycle, Under!Lifecycle,
         CapabilityState, Under!CapabilityState, Usage, Under!Usage,
         Quantity, Under!Quantity

-----------------------------------------------------------------------------
(* The steps of the calls *)

\* Nothing is undone, before the step and after it.
Plain == Undone = deployments /\ Undone' = deployments'

LEMMA DeviceCalls ==
  ASSUME Plain, NEW rec
  PROVE  /\ register_device(rec) => Under!register_device(rec)
         /\ update_device(rec) => Under!update_device(rec)
  BY DEF Plain, register_device, Under!register_device, update_device,
         Under!update_device, registry, Under!registry, Put, Under!Put,
         NoUsage, Under!NoUsage

\* The parts of the handlers are the same.
LEMMA SameParts ==
  ASSUME Plain
  PROVE  /\ \A d, states : Under!OnDevice(d, states) = OnDevice(d, states)
         /\ \A S, to : Under!Deployments(S, to) = Deployments(S, to)
         /\ \A S, to : Under!Activations(S, to) = Activations(S, to)
         /\ \A S : Under!Fence(S) <=> Fence(S)
         /\ \A x : Under!release_resources(x) <=> release_resources(x)
         /\ \A u, r, S, n :
              Under!ReleaseEach(u, r, S, n) = ReleaseEach(u, r, S, n)
  <1>1. \A d, states : Under!OnDevice(d, states) = OnDevice(d, states)
    BY DEF Plain, OnDevice, Under!OnDevice
  <1>2. \A S, to : Under!Deployments(S, to) = Deployments(S, to)
    BY DEF Plain, Deployments, Under!Deployments
  <1>3. \A S, to : Under!Activations(S, to) = Activations(S, to)
    BY DEF Plain, Activations, Under!Activations
  <1>4. \A S : Under!Fence(S) <=> Fence(S)
    BY <1>2, <1>3 DEF Plain, Fence, Under!Fence
  <1>5. \A u, r : Under!release(u, r) = release(u, r)
    BY DEF release, Under!release
  <1>6. \A x : Under!release_resources(x) <=> release_resources(x)
    BY <1>5 DEF Plain, release_resources, Under!release_resources
  <1>7. \A u, r, S, n :
          Under!ReleaseEach(u, r, S, n) = ReleaseEach(u, r, S, n)
    BY <1>5 DEF ReleaseEach, Under!ReleaseEach
  <1> QED BY <1>1, <1>2, <1>3, <1>4, <1>6, <1>7

LEMMA FenceCalls ==
  ASSUME Plain, NEW d
  PROVE  /\ fence_device(d) => Under!fence_device(d)
         /\ retire_device(d) => Under!retire_device(d)
  <1>1. fence_device(d) => Under!fence_device(d)
    BY SameParts DEF fence_device, Under!fence_device, registry,
                     Under!registry
  <1>2. ASSUME retire_device(d) PROVE Under!retire_device(d)
    <2> DEFINE S == OnDevice(d, {"ACTIVE", "DEGRADED", "DRAINING"})
               req == [x \in S |-> deployments[x].resources]
               same == [x \in S |-> Undone[x].resources]
    <2>1. /\ same = req
          /\ Under!OnDevice(d, {"ACTIVE", "DEGRADED", "DRAINING"}) = S
      BY SameParts DEF Plain
    <2>2. Under!ReleaseEach(ledgers[d].used, same, S, MaxId)
            = ReleaseEach(ledgers[d].used, req, S, MaxId)
      BY <2>1, SameParts
    <2>3. Fence(S) <=> Under!Fence(S)
      BY SameParts
    <2> HIDE DEF S
    <2> QED BY <1>2, <2>1, <2>2, <2>3
            DEF retire_device, Under!retire_device, registry, Under!registry, S
  <1> QED BY <1>1, <1>2

LEMMA ReserveCalls ==
  ASSUME Plain, NEW d, NEW req, reserve_deployment(d, req)
  PROVE  Under!reserve_deployment(d, req)
  BY DEF Plain, reserve_deployment, Under!reserve_deployment, registry,
         Under!registry, is_ready_for_offload, Under!is_ready_for_offload,
         can_reserve, Under!can_reserve, apply, Under!apply, Plus, Under!Plus,
         Put, Under!Put

LEMMA StageCalls ==
  ASSUME Plain, NEW x
  PROVE  /\ stage_deployment(x) => Under!stage_deployment(x)
         /\ load_deployment(x) => Under!load_deployment(x)
         /\ validate_deployment(x) => Under!validate_deployment(x)
  BY DEF Plain, stage_deployment, Under!stage_deployment, load_deployment,
         Under!load_deployment, validate_deployment,
         Under!validate_deployment, do_deploy_transition,
         Under!do_deploy_transition, valid_deployment_transition,
         Under!valid_deployment_transition, registry, Under!registry

LEMMA CommitCalls ==
  ASSUME Plain, NEW x, commit_deployment(x)
  PROVE  Under!commit_deployment(x)
  <1>1. Under!Authority(x) = Authority(x)
    BY DEF Plain, Authority, Under!Authority, policy_generation,
           Under!policy_generation
  <1>2. Under!ActivationRead(x) = ActivationRead(x)
    BY DEF Plain, ActivationRead, Under!ActivationRead
  <1> QED
    BY <1>1, <1>2
       DEF Plain, commit_deployment, Under!commit_deployment, registry,
           Under!registry, Committable, Under!Committable,
           is_ready_for_offload, Under!is_ready_for_offload, ProgramCurrent,
           Under!ProgramCurrent

LEMMA EndCalls ==
  ASSUME Plain, NEW x
  PROVE  /\ cancel_deployment(x) => Under!cancel_deployment(x)
         /\ drain_deployment(x) => Under!drain_deployment(x)
         /\ retire_deployment(x) => Under!retire_deployment(x)
         /\ fail_deployment(x) => Under!fail_deployment(x)
  <1>1. cancel_deployment(x) => Under!cancel_deployment(x)
    BY SameParts DEF Plain, cancel_deployment, Under!cancel_deployment,
                     Cancellable, Under!Cancellable, registry, Under!registry
  <1>2. drain_deployment(x) => Under!drain_deployment(x)
    BY SameParts DEF Plain, drain_deployment, Under!drain_deployment,
                     Drainable, Under!Drainable, registry, Under!registry
  <1>3. retire_deployment(x) => Under!retire_deployment(x)
    BY SameParts DEF Plain, retire_deployment, Under!retire_deployment,
                     Retirable, Under!Retirable, HeldUntilRetired,
                     Under!HeldUntilRetired, registry, Under!registry
  <1>4. fail_deployment(x) => Under!fail_deployment(x)
    BY SameParts DEF Plain, fail_deployment, Under!fail_deployment,
                     valid_deployment_transition,
                     Under!valid_deployment_transition, registry,
                     Under!registry
  <1> QED BY <1>1, <1>2, <1>3, <1>4

-----------------------------------------------------------------------------
(* Every step is a call or none *)

\* activate_deployment, between its two halves, has an id left to draw.
Between ==
  activating # 0 =>
    /\ activating \in DOMAIN deployments
    /\ deployments[activating] \in Deployment
    /\ deployments[activating].state = "ACTIVATING"
    /\ ~deployments[activating].authoritative
    /\ id_seq <= MaxId

\* A thread in run_all_backends has something left to register.
RunOK ==
  /\ run \in [Threads -> [pc : {"idle", "look", "apply"}, known : BOOLEAN,
                          found : Seq(Registrations \cap Updates)]]
  /\ \A t \in Threads : run[t].pc # "idle" => run[t].found # <<>>

SnapOK ==
  /\ Under!TypeOK
  /\ Under!AuthorityBinding
  /\ Between
  /\ RunOK
  /\ view = Snapshot

LEMMA CallIsCall ==
  ASSUME Plain, Call
  PROVE  Under!Next
  <1>1. DOMAIN Undone = DOMAIN deployments
    BY DEF Plain
  <1>2. CASE \/ \E rec \in Registrations : register_device(rec)
             \/ \E rec \in Updates : update_device(rec)
             \/ \E d \in Devices : fence_device(d) \/ retire_device(d)
    BY <1>2, DeviceCalls, FenceCalls DEF Under!Next, Under!DeviceCall
  <1>3. CASE \E d \in Devices, req \in Requests : reserve_deployment(d, req)
    BY <1>3, ReserveCalls DEF Under!Next, Under!DeploymentCall
  <1>4. ASSUME NEW x \in DOMAIN deployments,
               \/ stage_deployment(x)
               \/ load_deployment(x)
               \/ validate_deployment(x)
               \/ commit_deployment(x)
               \/ cancel_deployment(x)
               \/ drain_deployment(x)
               \/ retire_deployment(x)
               \/ fail_deployment(x)
        PROVE  Under!Next
    BY <1>1, <1>4, StageCalls, CommitCalls, EndCalls
       DEF Under!Next, Under!DeploymentCall
  <1> QED BY <1>2, <1>3, <1>4 DEF Call

\* The first half of an activation is a step of nothing.
LEMMA BeginIsNone ==
  ASSUME SnapOK, NEW x \in DOMAIN deployments, BeginActivate(x)
  PROVE  UNCHANGED Under!vars /\ Between'
  <1>1. /\ activating = 0
        /\ activating' = x
        /\ id_seq <= MaxId
        /\ deployments[x].state = "VALIDATING"
        /\ deployments' = [deployments EXCEPT ![x].state = "ACTIVATING",
                                              ![x].authoritative = FALSE]
        /\ UNCHANGED <<devices, registry, ledgers, workers, activations,
                       epoch, id_seq>>
    BY DEF BeginActivate, Unlocked, do_deploy_transition,
           valid_deployment_transition
  <1>2. /\ Undone = deployments
        /\ deployments \in [DOMAIN deployments -> Under!Deployment]
        /\ DOMAIN deployments \subseteq 1 .. (id_seq - 1)
        /\ id_seq \in Nat
    BY <1>1, UnderAssumptions
       DEF Undone, SnapOK, Under!TypeOK, Under!EngineAssumption
  <1>3. Under!Deployment = Deployment
    BY DEF Under!Deployment, Deployment, Under!DeploymentState,
           DeploymentState, Under!Usage, Usage, Under!Quantity, Quantity
  <1>4. deployments[x] \in Deployment /\ x # 0
    BY <1>2, <1>3
  <1>5. ~deployments[x].authoritative
    BY <1>1, <1>2
       DEF SnapOK, Under!AuthorityBinding, Under!DeploymentBound
  <1> DEFINE half == [deployments[x] EXCEPT !.state = "ACTIVATING",
                                            !.authoritative = FALSE]
  <1>6. /\ half \in Deployment
        /\ half.state = "ACTIVATING"
        /\ ~half.authoritative
        /\ [half EXCEPT !.state = "VALIDATING"] = deployments[x]
    BY <1>1, <1>4, <1>5 DEF Deployment, DeploymentState
  <1>7. /\ DOMAIN deployments' = DOMAIN deployments
        /\ deployments'[x] = half
        /\ \A y \in DOMAIN deployments \ {x} :
             deployments'[y] = deployments[y]
    BY <1>1
  <1> HIDE DEF half
  <1>8. Undone' = [deployments' EXCEPT ![x].state = "VALIDATING"]
    BY <1>1, <1>4 DEF Undone
  <1>9. Undone' = deployments
    BY <1>2, <1>6, <1>7, <1>8
  <1>10. UNCHANGED Under!vars
    BY <1>1, <1>2, <1>9 DEF Under!vars, registry
  <1>11. Between'
    BY <1>1, <1>6, <1>7 DEF Between
  <1> QED BY <1>10, <1>11

\* The second half is the call.
LEMMA EndIsActivate ==
  ASSUME SnapOK, EndActivate
  PROVE  Under!Next
  <1>0. PICK x : x = activating
    OBVIOUS
  <1> DEFINE gen == next_generation(deployments[x].activation_gen)
             old == deployments[x]
  <1>1. /\ x # 0
        /\ x \in DOMAIN deployments
        /\ old \in Deployment
        /\ old.state = "ACTIVATING"
        /\ ~old.authoritative
        /\ id_seq <= MaxId
        /\ Undone = [deployments EXCEPT ![x].state = "VALIDATING"]
    BY <1>0 DEF SnapOK, Between, EndActivate, NewActivation, Undone
  <1>2. /\ deployments' = [deployments EXCEPT ![x].activation = id_seq,
                                              ![x].activation_gen = gen]
        /\ Undone' = deployments'
        /\ activations' = Put(activations, id_seq,
                              [deployment_id |-> x, activation_gen |-> gen,
                               state |-> "PENDING", authority |-> NoAuthority])
        /\ id_seq' = id_seq + 1
        /\ UNCHANGED <<devices, registry, ledgers, workers, epoch>>
    BY <1>0 DEF EndActivate, NewActivation, Undone
  <1> DEFINE under == Undone[x]
             new == [under EXCEPT !.state = "ACTIVATING",
                                  !.authoritative = FALSE,
                                  !.activation = id_seq,
                                  !.activation_gen = gen]
  <1>3. /\ under = [old EXCEPT !.state = "VALIDATING"]
        /\ DOMAIN Undone = DOMAIN deployments
        /\ \A y \in DOMAIN deployments \ {x} : Undone[y] = deployments[y]
    BY <1>1
  <1>4. /\ under.state = "VALIDATING"
        /\ Under!next_generation(under.activation_gen) = gen
        /\ new = [old EXCEPT !.activation = id_seq, !.activation_gen = gen]
    BY <1>1, <1>3
       DEF Deployment, next_generation, Under!next_generation
  <1>5. /\ DOMAIN deployments' = DOMAIN deployments
        /\ deployments'[x] = [old EXCEPT !.activation = id_seq,
                                         !.activation_gen = gen]
        /\ \A y \in DOMAIN deployments \ {x} :
             deployments'[y] = deployments[y]
        /\ deployments' = [y \in DOMAIN deployments |-> deployments'[y]]
    BY <1>1, <1>2
  <1>6. Undone' = [Undone EXCEPT ![x] = new]
    <2> HIDE DEF new, under, old, gen
    <2> DEFINE put == [Undone EXCEPT ![x] = new]
    <2>1. /\ DOMAIN put = DOMAIN deployments
          /\ put[x] = new
          /\ \A y \in DOMAIN deployments \ {x} : put[y] = deployments[y]
          /\ put = [y \in DOMAIN deployments |-> put[y]]
      BY <1>1, <1>3
    <2> HIDE DEF put
    <2>2. put = deployments'
      BY <1>4, <1>5, <2>1
    <2> QED BY <1>2, <2>2 DEF put
  <1>7. Undone' = [Undone EXCEPT ![x].state = "ACTIVATING",
                                 ![x].authoritative = FALSE,
                                 ![x].activation = id_seq,
                                 ![x].activation_gen = gen]
    BY <1>1, <1>3, <1>6
  <1>8. /\ x \in DOMAIN Undone
        /\ Under!valid_deployment_transition(Undone[x].state, "ACTIVATING")
        /\ gen = Under!next_generation(Undone[x].activation_gen)
    BY <1>1, <1>3, <1>4 DEF Under!valid_deployment_transition
  <1> HIDE DEF gen, new, under, old
  <1>9. Under!activate_deployment(x)
    BY <1>1, <1>2, <1>7, <1>8
       DEF Under!activate_deployment, Put, Under!Put, NoAuthority,
           Under!NoAuthority, registry, Under!registry
  <1> QED BY <1>8, <1>9 DEF Under!Next, Under!DeploymentCall

\* What run_all_backends found is registered or updates what is there.
LEMMA AppliesIsCall ==
  ASSUME SnapOK, NEW t \in Threads, Applies(t)
  PROVE  (Under!Next \/ UNCHANGED Under!vars) /\ RunOK'
  <1>1. /\ activating = 0
        /\ activating' = 0
        /\ Plain
    BY DEF Applies, Unlocked, Plain, Undone
  <1>2. /\ run[t].found \in Seq(Registrations \cap Updates)
        /\ run[t].found # <<>>
    BY DEF Applies, SnapOK, RunOK
  <1>3. Head(run[t].found) \in Registrations \cap Updates
    BY <1>2
  <1>4. Under!Next \/ UNCHANGED Under!vars
    BY <1>1, <1>3, DeviceCalls
       DEF Applies, Under!Next, Under!DeviceCall, Under!vars, vars, Plain
  <1>5. Tail(run[t].found) \in Seq(Registrations \cap Updates)
    BY <1>2
  <1>6. RunOK'
    BY <1>5 DEF Applies, Rest, NotRunning, SnapOK, RunOK
  <1> QED BY <1>4, <1>6

LEMMA SnapStep ==
  ASSUME SnapOK, [SNext]_svars
  PROVE  [Under!Next]_(Under!vars) /\ SnapOK'
  <1>1. CASE Call
    <2>1. activating = 0 /\ activating' = 0 /\ Plain
      BY <1>1 DEF Call, Unlocked, Quiet, Plain, Undone
    <2>2. Under!Next
      BY <1>1, <2>1, CallIsCall
    <2>3. Between' /\ RunOK' /\ (view = Snapshot)'
      BY <1>1, <2>1 DEF Call, Quiet, Publish, SnapOK, Between, RunOK
    <2> QED BY <2>2, <2>3, UnderAssumptions, Under!NextType,
               Under!NextBinding DEF SnapOK
  <1>2. CASE EndActivate
    <2>1. Under!Next
      BY <1>2, EndIsActivate
    <2>2. Between' /\ RunOK' /\ (view = Snapshot)'
      BY <1>2 DEF EndActivate, NewActivation, Publish, SnapOK, Between, RunOK
    <2> QED BY <2>1, <2>2, UnderAssumptions, Under!NextType,
               Under!NextBinding DEF SnapOK
  <1>3. ASSUME NEW x \in DOMAIN deployments, BeginActivate(x)
        PROVE  [Under!Next]_(Under!vars) /\ SnapOK'
    <2>1. UNCHANGED Under!vars /\ Between'
      BY <1>3, BeginIsNone
    <2>2. RunOK' /\ (view = Snapshot)'
      BY <1>3 DEF BeginActivate, Publish, SnapOK, RunOK
    <2> QED BY <2>1, <2>2, UnderAssumptions, Under!NextType,
               Under!NextBinding DEF SnapOK
  <1>4. ASSUME NEW t \in Threads, Applies(t)
        PROVE  [Under!Next]_(Under!vars) /\ SnapOK'
    <2>1. (Under!Next \/ UNCHANGED Under!vars) /\ RunOK'
      BY <1>4, AppliesIsCall
    <2>2. Between' /\ (view = Snapshot)'
      BY <1>4 DEF Applies, Unlocked, Publish, Between
    <2> QED BY <2>1, <2>2, UnderAssumptions, Under!NextType,
               Under!NextBinding DEF SnapOK
  <1>5. ASSUME UNCHANGED <<vars, view, activating>>, RunOK'
        PROVE  [Under!Next]_(Under!vars) /\ SnapOK'
    <2>1. UNCHANGED Under!vars
      BY <1>5 DEF vars, Under!vars, Undone
    <2>2. Between' /\ (view = Snapshot)'
      BY <1>5 DEF vars, SnapOK, Between, Snapshot
    <2> QED BY <1>5, <2>1, <2>2, UnderAssumptions, Under!NextType,
               Under!NextBinding DEF SnapOK
  <1>6. ASSUME NEW t \in Threads, Discovers(t) \/ Looks(t)
        PROVE  [Under!Next]_(Under!vars) /\ SnapOK'
    <2>1. CASE Discovers(t)
      <3>1. PICK found \in Discoveries \ {<<>>} :
              run' = [run EXCEPT ![t] = [pc |-> "look", found |-> found,
                                         known |-> FALSE]]
        BY <2>1 DEF Discovers
      <3>2. found \in Seq(Registrations \cap Updates) /\ found # <<>>
        BY SnapshotsAssumption
      <3>3. RunOK'
        BY <3>1, <3>2 DEF SnapOK, RunOK
      <3> QED BY <1>5, <2>1, <3>3 DEF Discovers
    <2>2. CASE Looks(t)
      <3>1. PICK known \in BOOLEAN :
              run' = [run EXCEPT ![t].pc = "apply", ![t].known = known]
        BY <2>2, Zenon DEF Looks
      <3>2. run[t].pc = "look"
        BY <2>2 DEF Looks
      <3>3. RunOK'
        BY <3>1, <3>2 DEF SnapOK, RunOK
      <3> QED BY <1>5, <2>2, <3>3 DEF Looks
    <2> QED BY <1>6, <2>1, <2>2
  <1>7. CASE UNCHANGED svars
    BY <1>5, <1>7 DEF svars, SnapOK, RunOK
  <1> QED BY <1>1, <1>2, <1>3, <1>4, <1>6, <1>7 DEF SNext

LEMMA SnapStart == SInit => Under!Init /\ SnapOK
  <1> SUFFICES ASSUME SInit PROVE Under!Init /\ SnapOK
    OBVIOUS
  <1>1. Under!Init
    BY DEF SInit, Init, Under!Init, Undone, EmptyMap, Under!EmptyMap
  <1>2. Under!TypeOK
    BY <1>1, UnderAssumptions, Under!InitType
  <1>3. Under!AuthorityBinding
    BY <1>1 DEF Under!Init, Under!EmptyMap, Under!AuthorityBinding
  <1>4. RunOK
    BY DEF SInit, NotRunning, RunOK
  <1> QED BY <1>1, <1>2, <1>3, <1>4 DEF SInit, SnapOK, Between

-----------------------------------------------------------------------------
(* The theorems *)

\* Atomic is Under, without its theorems.
LEMMA AtomicIsUnder ==
  /\ Under!Init => Atomic!Init
  /\ [Under!Next]_(Under!vars) => [Atomic!Next]_(Atomic!vars)
  BY DEF
     Undone, Under!Init, Atomic!Init, Under!Next, Atomic!Next,
         Under!vars, Atomic!vars, Under!DeviceCall, Atomic!DeviceCall,
         Under!CatalogCall, Atomic!CatalogCall, Under!WorkerCall,
         Atomic!WorkerCall, Under!DeploymentCall,
         Atomic!DeploymentCall, Under!RecoveryCall,
         Atomic!RecoveryCall, Under!register_device,
         Atomic!register_device, Under!update_device,
         Atomic!update_device, Under!retire_device,
         Atomic!retire_device, Under!fence_device,
         Atomic!fence_device, Under!transition_device,
         Atomic!transition_device, Under!set_device_state,
         Atomic!set_device_state, Under!register_service,
         Atomic!register_service, Under!retire_program,
         Atomic!retire_program, Under!register_program,
         Atomic!register_program, Under!mark_worker_lost,
         Atomic!mark_worker_lost, Under!register_worker,
         Atomic!register_worker, Under!reserve_deployment,
         Atomic!reserve_deployment, Under!stage_deployment,
         Atomic!stage_deployment, Under!load_deployment,
         Atomic!load_deployment, Under!validate_deployment,
         Atomic!validate_deployment, Under!activate_deployment,
         Atomic!activate_deployment, Under!commit_deployment,
         Atomic!commit_deployment, Under!cancel_deployment,
         Atomic!cancel_deployment, Under!rollback_deployment,
         Atomic!rollback_deployment, Under!drain_deployment,
         Atomic!drain_deployment, Under!retire_deployment,
         Atomic!retire_deployment, Under!fail_deployment,
         Atomic!fail_deployment, Under!advance_epoch,
         Atomic!advance_epoch, Under!apply_recovery,
         Atomic!apply_recovery, Under!EmptyMap, Atomic!EmptyMap,
         Under!Put, Atomic!Put, Under!Erase, Atomic!Erase,
         Under!next_generation, Atomic!next_generation,
         Under!valid_device_transition,
         Atomic!valid_device_transition,
         Under!valid_deployment_transition,
         Atomic!valid_deployment_transition,
         Under!is_ready_for_offload, Atomic!is_ready_for_offload,
         Under!OnDevice, Atomic!OnDevice, Under!Activations,
         Atomic!Activations, Under!Deployments, Atomic!Deployments,
         Under!Fence, Atomic!Fence, Under!release_resources,
         Atomic!release_resources, Under!do_deploy_transition,
         Atomic!do_deploy_transition, Under!registry, Atomic!registry,
         Under!LosesEvidence, Atomic!LosesEvidence, Under!Authority,
         Atomic!Authority, Under!policy_generation,
         Atomic!policy_generation, Under!ActivationRead,
         Atomic!ActivationRead, Under!ProgramCurrent,
         Atomic!ProgramCurrent, Under!Committable, Atomic!Committable,
         Under!Cancellable, Atomic!Cancellable, Under!Rollbackable,
         Atomic!Rollbackable, Under!Drainable, Atomic!Drainable,
         Under!Retirable, Atomic!Retirable, Under!HeldUntilRetired,
         Atomic!HeldUntilRetired, Under!NoAuthority,
         Atomic!NoAuthority, Under!Lifecycle, Atomic!Lifecycle,
         Under!CapabilityState, Atomic!CapabilityState, Under!NoUsage,
         Atomic!NoUsage, Under!Plus, Atomic!Plus, Under!can_reserve,
         Atomic!can_reserve, Under!apply, Atomic!apply, Under!release,
         Atomic!release, Under!ReleaseEach, Atomic!ReleaseEach

\* A call is one step of Engine whatever is interleaved with it: the first
\* half of activate_deployment is none, and so is what run_all_backends does
\* without the lock.
THEOREM CallsAreAtomic == SSpec => ImplementsEngine
  <1>1. SInit => Atomic!Init /\ SnapOK
    BY SnapStart, AtomicIsUnder
  <1>2. SnapOK /\ [SNext /\ ReleasesOnce]_svars
          => SnapOK' /\ [Atomic!Next]_(Atomic!vars)
    BY SnapStep, AtomicIsUnder
  <1> QED BY <1>1, <1>2, PTL DEF SSpec, ImplementsEngine, Atomic!Spec

\* What a reader finds in the snapshot is bound, in the middle of an
\* activation too.
THEOREM ReadersSeeBound == SSpec => []ViewIsBound
  <1>1. SInit => SnapOK
    BY SnapStart
  <1>2. SnapOK /\ [SNext /\ ReleasesOnce]_svars => SnapOK'
    BY SnapStep
  <1>3. SnapOK => ViewIsBound
    <2> SUFFICES ASSUME SnapOK PROVE ViewIsBound
      OBVIOUS
    <2>1. /\ view.deployments = deployments
          /\ view.activations = activations
      BY DEF SnapOK, Snapshot
    <2>2. /\ DOMAIN Undone = DOMAIN deployments
          /\ \A x \in DOMAIN deployments :
               x # activating => Undone[x] = deployments[x]
          /\ activating \in DOMAIN deployments =>
               /\ ~deployments[activating].authoritative
               /\ Undone[activating].state = "VALIDATING"
      <3>1. DOMAIN Undone = DOMAIN deployments
        BY DEF Undone
      <3>2. 0 \notin DOMAIN deployments
        BY <3>1, UnderAssumptions
           DEF SnapOK, Under!TypeOK, Under!EngineAssumption
      <3>3. activating \in DOMAIN deployments => activating # 0
        BY <3>2
      <3> QED BY <3>1, <3>3 DEF Undone, SnapOK, Between, Deployment
    <2>3. ASSUME NEW x \in DOMAIN view.deployments
          PROVE  IF x = activating THEN ~view.deployments[x].authoritative
                 ELSE Seen!DeploymentBound(x)
      <3>1. CASE x = activating
        BY <2>1, <2>2, <2>3, <3>1
      <3>2. CASE x # activating
        <4>1. Under!DeploymentBound(x) /\ Undone[x] = deployments[x]
          BY <2>1, <2>2, <2>3, <3>2 DEF SnapOK, Under!AuthorityBinding
        <4>2. Seen!DeploymentBound(x)
          BY <2>1, <4>1
             DEF Under!DeploymentBound, Under!ActivationOf, Under!Binds,
                 Seen!DeploymentBound, Seen!ActivationOf, Seen!Binds
        <4> QED BY <3>2, <4>2
      <3> QED BY <3>1, <3>2
    <2>4. ASSUME NEW a \in DOMAIN view.activations
          PROVE  Seen!ActivationBound(a)
      <3>1. Under!ActivationBound(a)
        BY <2>1, <2>4 DEF SnapOK, Under!AuthorityBinding
      <3> QED BY <2>1, <2>2, <2>4, <3>1
              DEF Under!ActivationBound, Seen!ActivationBound
    <2> QED BY <2>3, <2>4 DEF ViewIsBound
  <1> QED BY <1>1, <1>2, <1>3, PTL DEF SSpec

\* A device comes into the order as it comes into the table.
LEMMA RegisterOnce ==
  ASSUME device_order \in Seq(Devices), DevicesOnce, NEW rec,
         register_device(rec)
  PROVE  DevicesOnce'
  <1> DEFINE d == rec.device_id
             n == Len(device_order) + 1
  <1>1. /\ d \notin DOMAIN devices
        /\ DOMAIN devices' = DOMAIN devices \cup {d}
        /\ device_order' = Append(device_order, d)
    BY DEF register_device, Put
  <1>2. /\ DOMAIN device_order' = DOMAIN device_order \cup {n}
        /\ n \notin DOMAIN device_order
        /\ device_order'[n] = d
        /\ \A i \in DOMAIN device_order : device_order'[i] = device_order[i]
    BY <1>1
  <1>3. \A i \in DOMAIN device_order : device_order[i] \in DOMAIN devices
    BY DEF DevicesOnce
  <1>4. ASSUME NEW i \in DOMAIN device_order', NEW j \in DOMAIN device_order',
               device_order'[i] = device_order'[j]
        PROVE  i = j
    BY <1>1, <1>2, <1>3, <1>4 DEF DevicesOnce
  <1>5. \A e \in DOMAIN devices :
          \E i \in DOMAIN device_order : device_order[i] = e
    BY DEF DevicesOnce
  <1>6. {device_order'[i] : i \in DOMAIN device_order'} = DOMAIN devices'
    BY <1>1, <1>2, <1>3, <1>5
  <1> QED BY <1>4, <1>6 DEF DevicesOnce

LEMMA OrderStep ==
  ASSUME SnapOK, DevicesOnce, [SNext]_svars
  PROVE  DevicesOnce'
  <1>1. device_order \in Seq(Devices)
    BY DEF SnapOK, Under!TypeOK
  <1>2. ASSUME device_order' = device_order, DOMAIN devices' = DOMAIN devices
        PROVE  DevicesOnce'
    BY <1>2 DEF DevicesOnce
  <1>3. CASE \E rec : register_device(rec)
    BY <1>1, <1>3, RegisterOnce
  <1>4. CASE \E rec : update_device(rec)
    BY <1>2, <1>4 DEF update_device, registry
  <1>5. CASE \E d : fence_device(d) \/ retire_device(d)
    BY <1>2, <1>5 DEF fence_device, retire_device, registry
  <1>6. CASE UNCHANGED <<devices, registry>>
    BY <1>2, <1>6 DEF registry
  <1>7. CASE Call
    BY <1>3, <1>4, <1>5, <1>6, <1>7
       DEF Call, reserve_deployment, stage_deployment, load_deployment,
           validate_deployment, commit_deployment, cancel_deployment,
           drain_deployment, retire_deployment, fail_deployment
  <1>8. CASE \E t \in Threads : Applies(t)
    BY <1>3, <1>4, <1>6, <1>8 DEF Applies, vars, registry
  <1> QED BY <1>6, <1>7, <1>8
          DEF SNext, EndActivate, NewActivation, BeginActivate, Discovers,
              Looks, svars, vars, registry

\* The order names each device once, although the look that decides to
\* register it is made without the lock.
THEOREM OrderIsOnce == SSpec => []DevicesOnce
  <1>1. SInit => SnapOK /\ DevicesOnce
    <2>1. SInit => DevicesOnce
      BY DEF SInit, Init, EmptyMap, DevicesOnce
    <2> QED BY <2>1, SnapStart
  <1>2. SnapOK /\ DevicesOnce /\ [SNext /\ ReleasesOnce]_svars
          => SnapOK' /\ DevicesOnce'
    BY SnapStep, OrderStep
  <1> QED BY <1>1, <1>2, PTL DEF SSpec
=============================================================================

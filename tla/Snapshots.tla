------------------------------ MODULE Snapshots ------------------------------
(***************************************************************************)
(* What the atomic calls of Engine leave out: the snapshots that readers   *)
(* load without a lock (rebuild_snapshot and snap_ in src/engine.cpp,      *)
(* make_snapshot in registry.h), a call that publishes twice, and threads  *)
(* in run_all_backends, which ask a backend and look at the device table   *)
(* without the mutex and take it for each device anew.                     *)
(***************************************************************************)
EXTENDS EngineClaims

CONSTANTS
  Threads,       \* threads that call run_all_backends
  Discoveries    \* what a backend's discover() may return, in order

\* What a backend finds is registered, or updates what is.
ASSUME SnapshotsAssumption == Discoveries \subseteq Seq(Registrations \cap Updates)

VARIABLES
  view,         \* the published snapshot, as far as it is about authority
  activating,   \* the deployment activate_deployment is in the middle of, or 0
  run           \* where each thread is in run_all_backends

svars == <<vars, view, activating, run>>

\* Fault: activate_deployment lets go of the mutex after its first half.
Mut_Unlocked == TRUE

\* The mutex is free: activate_deployment is the one call with an inside.
Unlocked == activating = 0

\* make_snapshot
Snapshot == [deployments |-> deployments, activations |-> activations]

\* rebuild_snapshot, at the end of a call.
Publish == view' = Snapshot'

-----------------------------------------------------------------------------
(* Calls under the mutex *)

Quiet == UNCHANGED <<activating, run>>

\* Calls of other threads whose interleaving with run_all_backends matters;
\* to this one, another run_all_backends is such calls.  All the calls of the
\* engine are checked as steps of Engine.
Call ==
  /\ Unlocked
  /\ \/ \E rec \in Registrations : register_device(rec)
     \/ \E rec \in Updates : update_device(rec)
     \/ \E d \in Devices : fence_device(d) \/ retire_device(d)
     \/ \E d \in Devices, req \in Requests : reserve_deployment(d, req)
     \/ \E x \in DOMAIN deployments :
          \/ stage_deployment(x)
          \/ load_deployment(x)
          \/ validate_deployment(x)
          \/ commit_deployment(x)
          \/ cancel_deployment(x)
          \/ drain_deployment(x)
          \/ retire_deployment(x)
          \/ fail_deployment(x)
  /\ Publish
  /\ Quiet

\* do_deploy_transition publishes by itself: the deployment is ACTIVATING
\* and its activation is still the last one, if any.
BeginActivate(x) ==
  /\ Unlocked
  /\ id_seq <= MaxId
  /\ do_deploy_transition(x, "ACTIVATING")
  /\ activating' = x
  /\ UNCHANGED <<devices, registry, ledgers, workers, activations, epoch,
                 id_seq, run>>
  /\ Publish

\* The rest of activate_deployment.
NewActivation ==
  LET gen == next_generation(deployments[activating].activation_gen)
  IN  /\ activating # 0
      /\ deployments' = [deployments EXCEPT ![activating].activation = id_seq,
                                            ![activating].activation_gen = gen]
      /\ activations' = Put(activations, id_seq,
                            [deployment_id |-> activating,
                             activation_gen |-> gen, state |-> "PENDING",
                             authority |-> NoAuthority])
      /\ id_seq' = id_seq + 1
      /\ activating' = 0
      /\ UNCHANGED <<devices, registry, ledgers, workers, epoch, run>>

\* Fault: what do_deploy_transition published is left to stand.
Mut_EndActivate == NewActivation /\ UNCHANGED view

EndActivate == NewActivation /\ Publish

-----------------------------------------------------------------------------
(* Threads in run_all_backends *)

NotRunning == [pc |-> "idle", found |-> <<>>, known |-> FALSE]

\* discover(), without the lock; what it found is registered later.
Discovers(t) ==
  /\ run[t].pc = "idle"
  /\ \E found \in Discoveries \ {<<>>} :
       run' = [run EXCEPT ![t] = [pc |-> "look", found |-> found,
                                  known |-> FALSE]]
  /\ UNCHANGED <<vars, view, activating>>

\* state_.devices.count without the mutex.  While another thread inserts a
\* device into the map, the search may miss one that is there.
Looks(t) ==
  LET d == Head(run[t].found).device_id
  IN  /\ run[t].pc = "look"
      /\ \E known \in {d \in DOMAIN devices}
                       \cup (IF DOMAIN devices # Devices THEN {FALSE} ELSE {}) :
           run' = [run EXCEPT ![t].pc = "apply", ![t].known = known]
      /\ UNCHANGED <<vars, view, activating>>

\* The call throws: the device came or the identities conflict.
Refused(rec, known) ==
  /\ rec.device_id \in DOMAIN devices
  /\ known =>
       /\ devices[rec.device_id].pci_reference # 0
       /\ rec.pci_reference # 0
       /\ devices[rec.device_id].pci_reference # rec.pci_reference

\* Fault: an exception ends the loop.
Mut_Rest(t) ==
  IF Refused(Head(run[t].found), run[t].known) THEN <<>> ELSE Tail(run[t].found)

\* The devices that are left after this one: an exception is swallowed.
Rest(t) == Tail(run[t].found)

\* register_device or update_device, under the mutex.
Applies(t) ==
  LET rec == Head(run[t].found)
      known == run[t].known
  IN  /\ run[t].pc = "apply"
      /\ Unlocked
      /\ \/ ~known /\ register_device(rec)
         \/ known /\ update_device(rec)
         \/ Refused(rec, known) /\ UNCHANGED vars
      /\ run' = [run EXCEPT ![t] =
                   IF Rest(t) = <<>> THEN NotRunning
                   ELSE [pc |-> "look", found |-> Rest(t), known |-> FALSE]]
      /\ Publish
      /\ UNCHANGED activating

-----------------------------------------------------------------------------

SInit ==
  /\ Init
  /\ view = Snapshot
  /\ activating = 0
  /\ run = [t \in Threads |-> NotRunning]

SNext ==
  \/ Call
  \/ EndActivate
  \/ \E x \in DOMAIN deployments : BeginActivate(x)
  \/ \E t \in Threads : Discovers(t) \/ Looks(t) \/ Applies(t)

\* A call returns, and a thread that is in run_all_backends gets the mutex
\* when nobody has it and goes on.
SFairness ==
  /\ WF_svars(EndActivate)
  /\ \A t \in Threads : WF_svars(Looks(t)) /\ SF_svars(Applies(t))

\* As in EngineClaims, the callers release a reservation once.
SSpec == SInit /\ [][SNext /\ ReleasesOnce]_svars /\ SFairness

-----------------------------------------------------------------------------
(* Properties *)

\* The mutex makes a call one step of Engine, although activate_deployment
\* publishes in its middle and run_all_backends decides on what it read
\* without the lock: undo the first half of an activation, and every step is
\* a call of Engine or none.
Atomic ==
  INSTANCE Engine WITH
    deployments <- IF activating = 0 THEN deployments
                   ELSE [deployments EXCEPT ![activating].state = "VALIDATING"]

ImplementsEngine == Atomic!Spec

Seen ==
  INSTANCE Engine WITH
    deployments <- view.deployments,
    activations <- view.activations

\* A reader never sees authority without its record or a record without its
\* deployment: whatever a snapshot shows is bound as AuthorityBinding says,
\* but for the deployment that is being activated, which has no authority.
ViewIsBound ==
  /\ \A x \in DOMAIN view.deployments :
       IF x = activating THEN ~view.deployments[x].authoritative
       ELSE Seen!DeploymentBound(x)
  /\ \A a \in DOMAIN view.activations : Seen!ActivationBound(a)

\* The order in which devices are evaluated names each device once, although
\* two threads that report it may both have seen it missing.
DevicesOnce ==
  /\ \A i, j \in DOMAIN device_order :
       device_order[i] = device_order[j] => i = j
  /\ {device_order[i] : i \in DOMAIN device_order} = DOMAIN devices

\* What a backend found is registered in the end, whatever the unlocked look
\* said and whichever of the reports beside it was refused.
FoundIsRegistered ==
  \A t \in Threads, d \in Devices :
    (\E i \in DOMAIN run[t].found : run[t].found[i].device_id = d)
      ~> d \in DOMAIN devices
=============================================================================

---------------------------- MODULE HistoryProofs ----------------------------
(***************************************************************************)
(* Proofs about the history of deployments and activations: states move    *)
(* along the table of deployment.h (DeploymentTransitionsValid),           *)
(* generations are never reused (GenerationHistory), and the engine        *)
(* implements AuthorityLease; of what authority is bound to, only the boot *)
(* of the device and its worker can be out of date when it is granted      *)
(* (GrantsStaleOnlyByBoot); and, for callers that keep to conditions,      *)
(* authority rests on fresh evidence (EvidenceFenced).                     *)
(*                                                                         *)
(* They all rest on StepKinds: whichever call is made, the two tables      *)
(* change in one of five ways.                                             *)
(***************************************************************************)
EXTENDS EngineProofs, EngineClaims

-----------------------------------------------------------------------------
(* The ways a call changes the tables *)

Closed == {"FAILED", "ABORTED", "RETIRED"}
Pending == DeploymentState \ (Closed \cup {"ACTIVE", "ACTIVATING"})

\* Nothing changes.
Keeps == UNCHANGED <<deployments, activations>>

\* A deployment is of the one definition of its service, of a generation of
\* a program only if it has one, and of no worker's boot.
InCatalog(dep) ==
  /\ dep.service_gen = IF dep.service = Null THEN 0
                       ELSE ServiceDef[dep.service].service_gen
  /\ dep.program = Null => dep.program_gen = 0
  /\ dep.worker_boot = Null

\* A deployment is added under a new id.
Opens ==
  /\ id_seq \in 1 .. MaxId
  /\ \E dep \in Deployment :
       /\ deployments' = Put(deployments, id_seq, dep)
       /\ dep.state = "RESERVED"
       /\ dep.authoritative = FALSE
       /\ dep.activation = 0
       /\ dep.activation_gen = 0
       /\ InCatalog(dep)
  /\ activations' = activations

\* The deployments in S lose what authority they have: any number of them is
\* fenced or drained or goes a step on, or one of them is closed.
Moves(S, to) ==
  /\ deployments' = Deployments(S, to)
  /\ \/ activations' = activations
     \/ \E s \in Spent : activations' = Activations(S, s)
  /\ \A x \in S : valid_deployment_transition(deployments[x].state, to)
  /\ \/ to \in Pending /\ \A x \in S : deployments[x].state \in Pending \cup {"ACTIVE"}
     \/ to \in Closed /\ \E x : S = {x}

Changes ==
  \/ Keeps
  \/ Opens
  \/ \E x \in DOMAIN deployments : activate_deployment(x) \/ commit_deployment(x)
  \/ \E S \in SUBSET DOMAIN deployments, to \in Idle : Moves(S, to)

\* A fence is a move of running deployments.
LEMMA FenceMoves ==
  ASSUME TypeOK, NEW S \in SUBSET DOMAIN deployments, Fence(S),
         \A x \in S : deployments[x].state \in {"ACTIVE", "DEGRADED", "DRAINING"}
  PROVE  Changes
  <1>1. /\ "REVALIDATION_REQUIRED" \in Pending \cap Idle
        /\ "STALE" \in Spent
        /\ {"ACTIVE", "DEGRADED", "DRAINING"} \subseteq Pending \cup {"ACTIVE"}
    BY DEF Pending, Closed, DeploymentState, Idle, Spent, ActivationState
  <1>2. Moves(S, "REVALIDATION_REQUIRED")
    BY <1>1 DEF Moves, Fence, valid_deployment_transition
  <1> QED BY <1>1, <1>2 DEF Changes

\* A transition under do_deploy_transition is a move of one deployment.
LEMMA TransitionMoves ==
  ASSUME TypeOK, NEW x \in DOMAIN deployments,
         NEW to \in {"STAGING", "LOADED", "VALIDATING"},
         do_deploy_transition(x, to), activations' = activations
  PROVE  Changes
  <1>1. deployments' = Deployments({x}, to)
    BY DEF do_deploy_transition, Deployments, TypeOK
  <1>2. /\ to \in Pending \cap Idle
        /\ deployments[x].state \in Pending
        /\ valid_deployment_transition(deployments[x].state, to)
    BY DEF do_deploy_transition, valid_deployment_transition, Pending, Closed,
           DeploymentState, Idle
  <1>3. Moves({x}, to)
    BY <1>1, <1>2 DEF Moves
  <1> QED BY <1>2, <1>3 DEF Changes

\* reserve_deployment opens a deployment or, when the ledger refuses, changes
\* neither table.
LEMMA ReserveOpens ==
  ASSUME TypeOK, TypeOK', NEW d, NEW req, reserve_deployment(d, req)
  PROVE  Changes
  <1>1. activations' = activations
    BY DEF reserve_deployment
  <1>2. CASE deployments' = deployments
    BY <1>1, <1>2 DEF Changes, Keeps
  <1>3. CASE deployments' # deployments
    <2>1. PICK dep :
            /\ deployments' = Put(deployments, id_seq, dep)
            /\ dep.state = "RESERVED"
            /\ dep.authoritative = FALSE
            /\ dep.activation = 0
            /\ dep.activation_gen = 0
            /\ InCatalog(dep)
      BY <1>3 DEF reserve_deployment, InCatalog
    <2>2. dep \in Deployment
      <3>1. id_seq \in DOMAIN deployments' /\ deployments'[id_seq] = dep
        BY <2>1 DEF Put
      <3> QED BY <3>1 DEF TypeOK
    <2>3. id_seq \in 1 .. MaxId
      BY EngineAssumption DEF TypeOK, reserve_deployment
    <2> QED BY <1>1, <2>1, <2>2, <2>3 DEF Changes, Opens
  <1> QED BY <1>2, <1>3

\* The calls that act on one deployment.
LEMMA DeploymentCallChanges ==
  ASSUME TypeOK, TypeOK', DeploymentCall
  PROVE  Changes
  <1>1. ASSUME NEW d \in Devices, NEW req \in Requests,
               reserve_deployment(d, req)
        PROVE  Changes
    BY <1>1, ReserveOpens
  <1>2. ASSUME NEW x \in DOMAIN deployments,
               stage_deployment(x) \/ load_deployment(x) \/ validate_deployment(x)
        PROVE  Changes
    BY <1>2, TransitionMoves
       DEF stage_deployment, load_deployment, validate_deployment
  <1>3. ASSUME NEW x \in DOMAIN deployments,
               activate_deployment(x) \/ commit_deployment(x)
        PROVE  Changes
    BY <1>3 DEF Changes
  <1>4. ASSUME NEW x \in DOMAIN deployments, NEW to \in Closed,
               valid_deployment_transition(deployments[x].state, to),
               deployments' = Deployments({x}, to),
               \/ activations' = activations
               \/ \E s \in Spent : activations' = Activations({x}, s)
        PROVE  Changes
    <2>1. to \in Idle
      BY DEF Closed, Idle, DeploymentState
    <2>2. Moves({x}, to)
      BY <1>4 DEF Moves
    <2> QED BY <2>1, <2>2 DEF Changes
  <1>5. /\ {"CANCELLED", "RETIRED", "STALE", "DRAINING"} \subseteq Spent
        /\ {"ABORTED", "RETIRED", "FAILED"} \subseteq Closed
    BY DEF Spent, ActivationState, Closed
  <1>6. ASSUME NEW x \in DOMAIN deployments,
               cancel_deployment(x) \/ rollback_deployment(x)
        PROVE  Changes
    <2>1. valid_deployment_transition(deployments[x].state, "ABORTED")
      BY <1>6 DEF cancel_deployment, rollback_deployment, Cancellable,
                  Rollbackable, valid_deployment_transition
    <2> QED BY <1>4, <1>5, <1>6, <2>1
            DEF cancel_deployment, rollback_deployment
  <1>7. ASSUME NEW x \in DOMAIN deployments, drain_deployment(x)
        PROVE  Changes
    <2>1. /\ valid_deployment_transition(deployments[x].state, "DRAINING")
          /\ deployments[x].state \in Pending \cup {"ACTIVE"}
          /\ "DRAINING" \in Pending \cap Idle
      BY <1>7 DEF drain_deployment, Drainable, valid_deployment_transition,
                  Pending, Closed, DeploymentState, Idle
    <2>2. Moves({x}, "DRAINING")
      BY <1>5, <1>7, <2>1 DEF Moves, drain_deployment
    <2> QED BY <2>1, <2>2 DEF Changes
  <1>8. ASSUME NEW x \in DOMAIN deployments, retire_deployment(x)
        PROVE  Changes
    <2>1. valid_deployment_transition(deployments[x].state, "RETIRED")
      BY <1>8 DEF retire_deployment, Retirable, valid_deployment_transition
    <2> QED BY <1>4, <1>5, <1>8, <2>1 DEF retire_deployment
  <1>9. ASSUME NEW x \in DOMAIN deployments, fail_deployment(x)
        PROVE  Changes
    BY <1>4, <1>5, <1>9 DEF fail_deployment
  <1> QED BY <1>1, <1>2, <1>3, <1>6, <1>7, <1>8, <1>9 DEF DeploymentCall

\* Every call changes the tables in one of these ways.
LEMMA StepKinds ==
  ASSUME TypeOK, TypeOK', [Next]_vars
  PROVE  Changes
  <1>1. ASSUME Keeps PROVE Changes
    BY <1>1 DEF Changes
  <1>2. CASE DeviceCall
    <2>1. ASSUME NEW rec, register_device(rec) \/ update_device(rec)
          PROVE  Changes
      BY <1>1, <2>1 DEF register_device, update_device, Keeps
    <2>2. ASSUME NEW d \in Devices, retire_device(d) \/ fence_device(d)
          PROVE  Changes
      BY <2>2, FenceMoves DEF retire_device, fence_device, OnDevice
    <2>3. ASSUME NEW d \in Devices, NEW to, transition_device(d, to)
          PROVE  Changes
      BY <1>1, <2>3, FenceMoves DEF transition_device, OnDevice, Keeps
    <2>4. ASSUME NEW d, NEW s, NEW k, set_device_state(d, s, k)
          PROVE  Changes
      BY <1>1, <2>4 DEF set_device_state, Keeps
    <2> QED BY <1>2, <2>1, <2>2, <2>3, <2>4 DEF DeviceCall
  <1>3. CASE CatalogCall
    BY <1>1, <1>3 DEF CatalogCall, register_service, register_program,
                      retire_program, Keeps
  <1>4. CASE WorkerCall
    <2>1. ASSUME NEW w, mark_worker_lost(w) PROVE Changes
      BY <2>1, FenceMoves DEF mark_worker_lost
    <2> QED BY <1>1, <1>4, <2>1 DEF WorkerCall, register_worker, Keeps
  <1>5. CASE RecoveryCall
    <2>1. ASSUME NEW policy, apply_recovery(policy) PROVE Changes
      BY <2>1, FenceMoves DEF apply_recovery
    <2> QED BY <1>1, <1>5, <2>1 DEF RecoveryCall, advance_epoch, Keeps
  <1>6. CASE UNCHANGED vars
    BY <1>1, <1>6 DEF vars, Keeps
  <1> QED BY <1>2, <1>3, <1>4, <1>5, <1>6, DeploymentCallChanges DEF Next

-----------------------------------------------------------------------------
(* What each way leaves of a deployment and of an activation *)

\* A new deployment leaves all others, and all activations, alone.
LEMMA OpensAt ==
  ASSUME TypeOK, Opens, NEW n, n = id_seq
  PROVE  /\ n \in 1 .. MaxId
         /\ n \notin DOMAIN deployments
         /\ DOMAIN deployments' = DOMAIN deployments \cup {n}
         /\ deployments'[n].state = "RESERVED"
         /\ deployments'[n].authoritative = FALSE
         /\ deployments'[n].activation = 0
         /\ deployments'[n].activation_gen = 0
         /\ InCatalog(deployments'[n])
         /\ \A x \in DOMAIN deployments : deployments'[x] = deployments[x]
         /\ activations' = activations
  BY DEF Opens, Put, TypeOK

\* A move sets the states; names, generations and authority records stay.
LEMMA MovesAt ==
  ASSUME TypeOK, NEW S, NEW to \in Idle, Moves(S, to)
  PROVE  /\ DOMAIN deployments' = DOMAIN deployments
         /\ DOMAIN activations' = DOMAIN activations
         /\ \A x \in DOMAIN deployments :
              /\ deployments'[x].state =
                   IF x \in S THEN to ELSE deployments[x].state
              /\ deployments'[x].activation = deployments[x].activation
              /\ deployments'[x].activation_gen = deployments[x].activation_gen
              /\ SameReservation(x)
         /\ \A a \in DOMAIN activations :
              /\ activations'[a].deployment_id = activations[a].deployment_id
              /\ activations'[a].activation_gen = activations[a].activation_gen
              /\ activations'[a].authority = activations[a].authority
              /\ activations'[a].state \in Spent \cup {activations[a].state}
  <1>1. to \in DeploymentState /\ deployments' = Deployments(S, to)
    BY DEF Idle, Moves
  <1>2. /\ DOMAIN deployments' = DOMAIN deployments
        /\ \A x \in DOMAIN deployments :
             /\ deployments'[x].state =
                  IF x \in S THEN to ELSE deployments[x].state
             /\ deployments'[x].activation = deployments[x].activation
             /\ deployments'[x].activation_gen = deployments[x].activation_gen
             /\ SameReservation(x)
    BY <1>1, DeploymentsAt
  <1>3. ASSUME NEW s \in Spent, activations' = Activations(S, s)
        PROVE  /\ DOMAIN activations' = DOMAIN activations
               /\ \A a \in DOMAIN activations :
                    /\ activations'[a].deployment_id = activations[a].deployment_id
                    /\ activations'[a].activation_gen = activations[a].activation_gen
                    /\ activations'[a].authority = activations[a].authority
                    /\ activations'[a].state \in Spent \cup {activations[a].state}
    <2>1. s \in ActivationState
      BY DEF Spent
    <2> QED BY <2>1, <1>3, ActivationsAt
  <1>4. activations' = activations \/ \E s \in Spent : activations' = Activations(S, s)
    BY DEF Moves
  <1> QED BY <1>2, <1>3, <1>4

\* No way changes what a deployment was reserved for.
LEMMA ReservationStays ==
  ASSUME TypeOK, AuthorityBinding, Changes, NEW x \in DOMAIN deployments
  PROVE  x \in DOMAIN deployments' /\ SameReservation(x)
  <1>1. CASE Keeps
    BY <1>1 DEF Keeps, SameReservation
  <1>2. CASE Opens
    BY <1>2, OpensAt DEF SameReservation
  <1>3. ASSUME NEW y \in DOMAIN deployments, activate_deployment(y)
        PROVE  x \in DOMAIN deployments' /\ SameReservation(x)
    <2>1. PICK n : Activates(y, n)
      BY <1>3, ActivateAt
    <2> QED BY <2>1 DEF Activates, SameReservation
  <1>4. ASSUME NEW y \in DOMAIN deployments, commit_deployment(y)
        PROVE  x \in DOMAIN deployments' /\ SameReservation(x)
    <2>1. PICK a : Commits(y, a)
      BY <1>4, CommitAt
    <2> QED BY <2>1 DEF Commits, SameReservation
  <1>5. ASSUME NEW S, NEW to \in Idle, Moves(S, to)
        PROVE  x \in DOMAIN deployments' /\ SameReservation(x)
    BY <1>5, MovesAt
  <1> QED BY <1>1, <1>2, <1>3, <1>4, <1>5 DEF Changes

-----------------------------------------------------------------------------
(* States move along the table *)

\* A deployment stays, in its state or along the table.
AlongTable(x) ==
  /\ x \in DOMAIN deployments'
  /\ \/ deployments'[x].state = deployments[x].state
     \/ valid_deployment_transition(deployments[x].state,
                                    deployments'[x].state)

\* It does so whatever way the tables change.
LEMMA ChangesAlongTable ==
  ASSUME TypeOK, AuthorityBinding, Changes, NEW x \in DOMAIN deployments
  PROVE  AlongTable(x)
  <1>1. CASE Keeps
    BY <1>1 DEF Keeps, AlongTable
  <1>2. CASE Opens
    BY <1>2, OpensAt DEF AlongTable
  <1>3. ASSUME NEW y \in DOMAIN deployments, activate_deployment(y)
        PROVE  AlongTable(x)
    <2>1. PICK n : Activates(y, n)
      BY <1>3, ActivateAt
    <2> QED BY <2>1 DEF Activates, valid_deployment_transition, AlongTable
  <1>4. ASSUME NEW y \in DOMAIN deployments, commit_deployment(y)
        PROVE  AlongTable(x)
    <2>1. PICK a : Commits(y, a)
      BY <1>4, CommitAt
    <2> QED BY <2>1 DEF Commits, valid_deployment_transition, AlongTable
  <1>5. ASSUME NEW S, NEW to \in Idle, Moves(S, to)
        PROVE  AlongTable(x)
    <2>1. \A y \in S : valid_deployment_transition(deployments[y].state, to)
      BY <1>5 DEF Moves
    <2>2. /\ DOMAIN deployments' = DOMAIN deployments
          /\ deployments'[x].state = IF x \in S THEN to ELSE deployments[x].state
      BY <1>5, MovesAt
    <2> QED BY <2>1, <2>2 DEF AlongTable
  <1> QED BY <1>1, <1>2, <1>3, <1>4, <1>5 DEF Changes

\* No interleaving of calls, and no bulk fence, moves a deployment off the
\* transition table of deployment.h, and no deployment ever disappears.
THEOREM AlongTheTable == Spec => DeploymentTransitionsValid
  <1>1. ASSUME TypeOK, TypeOK', AuthorityBinding, [Next]_vars
        PROVE  [\A x \in DOMAIN deployments :
                  /\ x \in DOMAIN deployments'
                  /\ \/ deployments'[x].state = deployments[x].state
                     \/ valid_deployment_transition(deployments[x].state,
                                                    deployments'[x].state)]_vars
    BY <1>1, StepKinds, ChangesAlongTable DEF AlongTable
  <1> QED BY <1>1, TypeCorrect, AuthorityBound, PTL
          DEF Spec, DeploymentTransitionsValid

-----------------------------------------------------------------------------
(* Generations are never reused *)

\* The parts of GenerationHistory: of a deployment and of an activation.
NoneActivated(x) ==
  deployments[x].activation = 0 => deployments[x].activation_gen = 0

InHistory(a) ==
  LET x == activations[a].deployment_id
      gen == activations[a].activation_gen
  IN  /\ x \in DOMAIN deployments
      /\ gen \in 1 .. deployments[x].activation_gen
      /\ gen = deployments[x].activation_gen => deployments[x].activation = a
      /\ activations[a].state = "PENDING" =>
           activations[a].authority.activation_gen = 0

LEMMA HistoryParts ==
  GenerationHistory <=> /\ \A x \in DOMAIN deployments : NoneActivated(x)
                        /\ \A a \in DOMAIN activations : InHistory(a)
  BY DEF GenerationHistory, NoneActivated, InHistory

\* Activating: every recorded generation of the deployment is below the one
\* it takes.
LEMMA ActivateHistory ==
  ASSUME TypeOK, GenerationHistory, NEW x \in DOMAIN deployments,
         activate_deployment(x)
  PROVE  GenerationHistory'
  <1>1. PICK n : Activates(x, n)
    BY ActivateAt
  <1>2. deployments[x].activation_gen \in Nat
    BY DEF TypeOK, Deployment
  <1>3. /\ n # 0
        /\ DOMAIN activations' = DOMAIN activations \cup {n}
        /\ activations'[n].deployment_id = x
        /\ activations'[n].activation_gen = deployments[x].activation_gen + 1
        /\ activations'[n].authority.activation_gen = 0
        /\ \A a \in DOMAIN activations : activations'[a] = activations[a]
        /\ DOMAIN deployments' = DOMAIN deployments
        /\ deployments'[x].activation = n
        /\ deployments'[x].activation_gen = deployments[x].activation_gen + 1
        /\ \A y \in DOMAIN deployments \ {x} : deployments'[y] = deployments[y]
    BY <1>1 DEF Activates
  <1>4. ASSUME NEW y \in DOMAIN deployments
        PROVE  NoneActivated(y)'
    BY <1>3, HistoryParts DEF NoneActivated
  <1>5. InHistory(n)'
    BY <1>2, <1>3 DEF InHistory
  <1>6. ASSUME NEW a \in DOMAIN activations
        PROVE  InHistory(a)'
    <2>1. InHistory(a)
      BY HistoryParts
    <2>2. CASE activations[a].deployment_id = x
      BY <2>1, <2>2, <1>2, <1>3 DEF InHistory
    <2>3. CASE activations[a].deployment_id # x
      BY <2>1, <2>3, <1>3 DEF InHistory
    <2> QED BY <2>2, <2>3
  <1>7. /\ \A y \in DOMAIN deployments' : NoneActivated(y)'
        /\ \A a \in DOMAIN activations' : InHistory(a)'
    BY <1>3, <1>4, <1>5, <1>6
  <1> QED BY <1>7 DEF GenerationHistory, NoneActivated, InHistory

\* Committing: the activation that receives authority is no longer pending.
LEMMA CommitHistory ==
  ASSUME TypeOK, AuthorityBinding, GenerationHistory,
         NEW x \in DOMAIN deployments, commit_deployment(x)
  PROVE  GenerationHistory'
  <1>1. PICK a : Commits(x, a)
    BY CommitAt
  <1>2. ASSUME NEW y \in DOMAIN deployments
        PROVE  NoneActivated(y)'
    BY <1>1, HistoryParts DEF Commits, NoneActivated
  <1>3. InHistory(a)'
    <2>1. InHistory(a)
      BY <1>1, HistoryParts DEF Commits
    <2> QED BY <2>1, <1>1 DEF InHistory, Commits
  <1>4. ASSUME NEW b \in DOMAIN activations \ {a}
        PROVE  InHistory(b)'
    <2>1. InHistory(b)
      BY HistoryParts
    <2> QED BY <2>1, <1>1 DEF InHistory, Commits
  <1>5. /\ \A y \in DOMAIN deployments' : NoneActivated(y)'
        /\ \A b \in DOMAIN activations' : InHistory(b)'
    BY <1>1, <1>2, <1>3, <1>4 DEF Commits
  <1> QED BY <1>5 DEF GenerationHistory, NoneActivated, InHistory

\* Every way the tables change keeps the history.
LEMMA ChangesHistory ==
  ASSUME TypeOK, AuthorityBinding, GenerationHistory, Changes
  PROVE  GenerationHistory'
  <1>1. CASE Keeps
    BY <1>1 DEF Keeps, GenerationHistory
  <1>2. CASE Opens
    <2>1. PICK n : n = id_seq
      OBVIOUS
    <2>2. /\ DOMAIN deployments' = DOMAIN deployments \cup {n}
          /\ deployments'[n].activation_gen = 0
          /\ \A x \in DOMAIN deployments : deployments'[x] = deployments[x]
          /\ activations' = activations
      BY <1>2, <2>1, OpensAt
    <2>3. /\ \A y \in DOMAIN deployments' : NoneActivated(y)'
          /\ \A a \in DOMAIN activations' : InHistory(a)'
      BY <2>2, HistoryParts DEF NoneActivated, InHistory
    <2> QED BY <2>3 DEF GenerationHistory, NoneActivated, InHistory
  <1>3. ASSUME NEW S, NEW to \in Idle, Moves(S, to)
        PROVE  GenerationHistory'
    <2>1. "PENDING" \notin Spent
      BY DEF Spent
    <2>2. /\ \A y \in DOMAIN deployments' : NoneActivated(y)'
          /\ \A a \in DOMAIN activations' : InHistory(a)'
      BY <1>3, <2>1, MovesAt, HistoryParts DEF NoneActivated, InHistory
    <2> QED BY <2>2 DEF GenerationHistory, NoneActivated, InHistory
  <1> QED BY <1>1, <1>2, <1>3, ActivateHistory, CommitHistory DEF Changes

\* The activation table is a history: a generation of a deployment is never
\* given out twice, and what was never committed carries no authority.
THEOREM HistoryKept == Spec => []GenerationHistory
  <1>1. Init => GenerationHistory
    BY EmptyMapType DEF Init, GenerationHistory
  <1>2. TypeOK /\ TypeOK' /\ AuthorityBinding /\ GenerationHistory
          /\ [Next]_vars => GenerationHistory'
    BY StepKinds, ChangesHistory
  <1> QED BY <1>1, <1>2, TypeCorrect, AuthorityBound, PTL DEF Spec


-----------------------------------------------------------------------------
(* The engine implements AuthorityLease *)

LEMMA Phases ==
  /\ PhaseOf("ACTIVE") = "granted"
  /\ PhaseOf("ACTIVATING") = "minted"
  /\ PhaseOf("RESERVED") = "pending"
  /\ PhaseOf("VALIDATING") = "pending"
  /\ \A st \in Pending : PhaseOf(st) = "pending"
  /\ \A st \in Closed : PhaseOf(st) = "closed"
  /\ \A st \in DeploymentState :
       PhaseOf(st) \in {"granted", "minted", "pending", "closed"}
  BY DEF PhaseOf, Pending, Closed, DeploymentState

\* Ids of deployments and of activations are ids of the lease.
LEMMA IdsInRange ==
  ASSUME TypeOK
  PROVE  /\ DOMAIN deployments \subseteq 1 .. MaxId
         /\ DOMAIN activations \subseteq 1 .. MaxId
  BY EngineAssumption DEF TypeOK

\* The grants are the pairs that committed activations name.
LEMMA GrantsAre ==
  \A g : g \in LeaseGrants <=>
           \E a \in DOMAIN activations :
             /\ activations[a].authority.activation_gen # 0
             /\ g = <<activations[a].deployment_id,
                      activations[a].activation_gen>>
  BY DEF LeaseGrants

\* Nothing has been granted while no activation gets or loses authority.
LEMMA SameGrants ==
  ASSUME DOMAIN activations' = DOMAIN activations,
         \A a \in DOMAIN activations :
           /\ activations'[a].deployment_id = activations[a].deployment_id
           /\ activations'[a].activation_gen = activations[a].activation_gen
           /\ activations'[a].authority = activations[a].authority
  PROVE  LeaseGrants' = LeaseGrants
  BY DEF LeaseGrants

\* A new deployment opens a lease.
LEMMA OpensLease ==
  ASSUME TypeOK, Opens
  PROVE  [Lease!LNext]_(Lease!lease)
  <1>1. PICK n : n = id_seq
    OBVIOUS
  <1>2. /\ n \in 1 .. MaxId
        /\ n \notin DOMAIN deployments
        /\ DOMAIN deployments' = DOMAIN deployments \cup {n}
        /\ deployments'[n].state = "RESERVED"
        /\ deployments'[n].activation_gen = 0
        /\ \A x \in DOMAIN deployments : deployments'[x] = deployments[x]
        /\ activations' = activations
    BY <1>1, OpensAt
  <1>3. LeasePhase[n] = "none"
    BY <1>2 DEF LeasePhase
  <1>4. LeasePhase' = [LeasePhase EXCEPT ![n] = "pending"]
    BY <1>2, Phases DEF LeasePhase
  <1>5. LeaseToken' = LeaseToken
    BY <1>2 DEF LeaseToken
  <1>6. LeaseGrants' = LeaseGrants
    BY <1>2 DEF LeaseGrants
  <1>7. Lease!Open(n)
    BY <1>3, <1>4, <1>5, <1>6 DEF Lease!Open
  <1> QED BY <1>2, <1>7 DEF Lease!LNext

\* Activating mints a token.
LEMMA ActivateMints ==
  ASSUME TypeOK, GenerationHistory, NEW x \in DOMAIN deployments,
         activate_deployment(x)
  PROVE  [Lease!LNext]_(Lease!lease)
  <1>1. PICK n : Activates(x, n)
    BY ActivateAt
  <1>2. x \in 1 .. MaxId
    BY IdsInRange
  <1>3. LeasePhase[x] = "pending"
    BY <1>1, <1>2, Phases DEF LeasePhase, Activates
  <1>4. LeasePhase' = [LeasePhase EXCEPT ![x] = "minted"]
    <2>1. /\ DOMAIN deployments' = DOMAIN deployments
          /\ deployments'[x].state = "ACTIVATING"
          /\ \A y \in DOMAIN deployments \ {x} :
               deployments'[y] = deployments[y]
      BY <1>1 DEF Activates
    <2> QED BY <2>1, Phases DEF LeasePhase
  <1>5. LeaseToken' = [LeaseToken EXCEPT ![x] = @ + 1]
    BY <1>1, <1>2 DEF LeaseToken, Activates
  <1>6. LeaseGrants' = LeaseGrants
    BY <1>1 DEF LeaseGrants, Activates
  <1>7. Lease!Mint(x)
    BY <1>3, <1>4, <1>5, <1>6 DEF Lease!Mint
  <1> QED BY <1>2, <1>7 DEF Lease!LNext

\* Committing grants the token that was minted last, and it was not granted
\* before: no other activation has that generation.
LEMMA CommitGrants ==
  ASSUME TypeOK, AuthorityBinding, GenerationHistory,
         NEW x \in DOMAIN deployments, commit_deployment(x)
  PROVE  [Lease!LNext]_(Lease!lease)
  <1>1. PICK a : Commits(x, a)
    BY CommitAt
  <1> DEFINE gen == deployments[x].activation_gen
  <1>2. x \in 1 .. MaxId
    BY IdsInRange
  <1>3. LeaseToken[x] = gen /\ LeasePhase[x] = "minted"
    BY <1>1, <1>2, Phases DEF LeaseToken, LeasePhase, Commits
  <1>4. LeasePhase' = [LeasePhase EXCEPT ![x] = "granted"]
    <2>1. /\ DOMAIN deployments' = DOMAIN deployments
          /\ deployments'[x].state = "ACTIVE"
          /\ \A y \in DOMAIN deployments \ {x} : deployments'[y] = deployments[y]
      BY <1>1 DEF Commits
    <2> QED BY <2>1, Phases DEF LeasePhase
  <1>5. LeaseToken' = LeaseToken
    BY <1>1 DEF LeaseToken, Commits
  <1>6. /\ activations[a].authority.activation_gen = 0
        /\ gen # 0
        /\ \A b \in DOMAIN activations :
             /\ activations[b].deployment_id = x
             /\ activations[b].activation_gen = gen
             => b = a
    <2>1. InHistory(a) /\ \A b \in DOMAIN activations : InHistory(b)
      BY <1>1, HistoryParts DEF Commits
    <2> QED BY <2>1, <1>1 DEF InHistory, Commits
  <1>7. <<x, gen>> \notin LeaseGrants
    BY <1>6, GrantsAre
  <1>8. LeaseGrants' = LeaseGrants \cup {<<x, gen>>}
    <2>1. /\ DOMAIN activations' = DOMAIN activations
          /\ a \in DOMAIN activations
          /\ activations'[a].deployment_id = x
          /\ activations'[a].activation_gen = gen
          /\ activations'[a].authority.activation_gen = gen
          /\ \A b \in DOMAIN activations \ {a} : activations'[b] = activations[b]
      BY <1>1 DEF Commits, Authority
    <2> HIDE DEF gen
    <2>2. ASSUME NEW g
          PROVE  g \in LeaseGrants' <=> g \in LeaseGrants \/ g = <<x, gen>>
      <3>1. g \in LeaseGrants' <=>
              \E b \in DOMAIN activations' :
                /\ activations'[b].authority.activation_gen # 0
                /\ g = <<activations'[b].deployment_id,
                         activations'[b].activation_gen>>
        BY DEF LeaseGrants
      <3> QED BY <2>1, <3>1, <1>6, GrantsAre
    <2> QED BY <2>2
  <1>9. Lease!Grant(x)
    BY <1>3, <1>4, <1>5, <1>7, <1>8 DEF Lease!Grant
  <1> QED BY <1>2, <1>9 DEF Lease!LNext

\* A move revokes the grants of the deployments it moves, or closes one.
LEMMA MovesLease ==
  ASSUME TypeOK, NEW S \in SUBSET DOMAIN deployments, NEW to \in Idle,
         Moves(S, to)
  PROVE  [Lease!LNext]_(Lease!lease)
  <1>1. /\ DOMAIN deployments' = DOMAIN deployments
        /\ \A x \in DOMAIN deployments :
             /\ deployments'[x].state =
                  IF x \in S THEN to ELSE deployments[x].state
             /\ deployments'[x].activation_gen = deployments[x].activation_gen
    BY MovesAt
  <1>2. LeaseToken' = LeaseToken
    BY <1>1 DEF LeaseToken
  <1>3. LeaseGrants' = LeaseGrants
    BY MovesAt, SameGrants
  <1>4. DOMAIN deployments \subseteq 1 .. MaxId
    BY IdsInRange
  <1>5. CASE /\ to \in Pending
             /\ \A x \in S : deployments[x].state \in Pending \cup {"ACTIVE"}
    <2> DEFINE R == {x \in S : deployments[x].state = "ACTIVE"}
    <2>1. \A x \in R : LeasePhase[x] = "granted"
      BY <1>4, Phases DEF LeasePhase
    <2>2. LeasePhase' = [x \in 1 .. MaxId |-> IF x \in R THEN "pending"
                                              ELSE LeasePhase[x]]
      BY <1>1, <1>4, <1>5, Phases DEF LeasePhase
    <2> HIDE DEF R
    <2>3. Lease!Revoke(R)
      BY <1>2, <1>3, <2>1, <2>2 DEF Lease!Revoke
    <2>4. R \in SUBSET (1 .. MaxId)
      BY <1>4 DEF R
    <2> QED BY <2>3, <2>4 DEF Lease!LNext
  <1>6. ASSUME to \in Closed, NEW x, S = {x}
        PROVE  [Lease!LNext]_(Lease!lease)
    <2>1. /\ x \in 1 .. MaxId
          /\ x \in DOMAIN deployments
          /\ deployments[x].state \in DeploymentState
      BY <1>4, <1>6 DEF TypeOK, Deployment
    <2>2. LeasePhase[x] = PhaseOf(deployments[x].state)
      BY <2>1 DEF LeasePhase
    <2>3. LeasePhase' = [LeasePhase EXCEPT ![x] = "closed"]
      BY <1>1, <1>6, <2>1, Phases DEF LeasePhase
    <2>4. CASE LeasePhase[x] = "closed"
      <3>1. LeasePhase' = LeasePhase
        BY <2>3, <2>4 DEF LeasePhase
      <3> QED BY <1>2, <1>3, <3>1 DEF Lease!lease
    <2>5. CASE LeasePhase[x] # "closed"
      <3>1. LeasePhase[x] \in {"pending", "minted", "granted"}
        BY <2>1, <2>2, <2>5, Phases
      <3>2. Lease!Close(x)
        BY <1>2, <1>3, <2>3, <3>1 DEF Lease!Close
      <3> QED BY <2>1, <3>2 DEF Lease!LNext
    <2> QED BY <2>4, <2>5
  <1> QED BY <1>5, <1>6 DEF Moves

\* The engine implements the lease, whichever calls interleave: authority is
\* granted only under a token that was minted after the last grant and never
\* granted before, fencing any number of deployments is one revocation, and
\* what was closed stays closed.
THEOREM LeaseImplemented == Spec => ImplementsLease
  <1>1. Init => Lease!LInit
    BY EmptyMapType
       DEF Init, Lease!LInit, LeasePhase, LeaseToken, LeaseGrants
  <1>2. ASSUME TypeOK, AuthorityBinding, GenerationHistory, Changes
        PROVE  [Lease!LNext]_(Lease!lease)
    <2>1. CASE Keeps
      BY <2>1 DEF Keeps, Lease!lease, LeasePhase, LeaseToken, LeaseGrants
    <2> QED BY <1>2, <2>1, OpensLease, ActivateMints, CommitGrants, MovesLease
            DEF Changes
  <1>3. TypeOK /\ TypeOK' /\ AuthorityBinding /\ GenerationHistory
          /\ [Next]_vars => [Lease!LNext]_(Lease!lease)
    BY <1>2, StepKinds
  <1> QED BY <1>1, <1>3, TypeCorrect, AuthorityBound, HistoryKept, PTL
          DEF Spec, ImplementsLease, Lease!LSpec


-----------------------------------------------------------------------------
(* An ACTIVE deployment stands on fresh evidence *)

\* What callers do that only report fresh evidence, of devices that no worker
\* owns.
FreshReports ==
  /\ \A rec \in Updates : rec.evidence_fresh
  /\ \A rec \in Registrations \cup Updates : rec.owning_worker \notin Workers

\* They leave no device that the loss of a worker could touch.
Unowned == \A d \in DOMAIN devices : devices[d].owning_worker \notin Workers

\* A deployment that is ACTIVE after a step was ACTIVE before, or has just
\* been committed.
LEMMA ActiveIsOld ==
  ASSUME TypeOK, AuthorityBinding, Changes,
         NEW x \in DOMAIN deployments', deployments'[x].state = "ACTIVE"
  PROVE  /\ x \in DOMAIN deployments
         /\ deployments[x].state = "ACTIVE" \/ commit_deployment(x)
  <1>1. CASE Keeps
    BY <1>1 DEF Keeps
  <1>2. CASE Opens
    BY <1>2, OpensAt
  <1>3. ASSUME NEW y \in DOMAIN deployments, activate_deployment(y)
        PROVE  /\ x \in DOMAIN deployments
               /\ deployments[x].state = "ACTIVE"
    <2>1. PICK n : Activates(y, n)
      BY <1>3, ActivateAt
    <2> QED BY <2>1 DEF Activates
  <1>4. ASSUME NEW y \in DOMAIN deployments, commit_deployment(y)
        PROVE  /\ x \in DOMAIN deployments
               /\ deployments[x].state = "ACTIVE" \/ commit_deployment(x)
    <2>1. PICK a : Commits(y, a)
      BY <1>4, CommitAt
    <2> QED BY <2>1, <1>4 DEF Commits
  <1>5. ASSUME NEW S, NEW to \in Idle, Moves(S, to)
        PROVE  /\ x \in DOMAIN deployments
               /\ deployments[x].state = "ACTIVE"
    <2>1. to # "ACTIVE"
      BY DEF Idle
    <2> QED BY <2>1, <1>5, MovesAt
  <1> QED BY <1>1, <1>2, <1>3, <1>4, <1>5 DEF Changes

\* What a step must do for the evidence under deployments: devices stay, with
\* their owners, and whatever loses fresh evidence has no ACTIVE deployment
\* afterwards.
EvidenceStep ==
  /\ DOMAIN devices \subseteq DOMAIN devices'
  /\ Unowned'
  /\ \A d \in DOMAIN devices :
       devices[d].evidence_fresh =>
         \/ devices'[d].evidence_fresh
         \/ \A x \in DOMAIN deployments :
              deployments[x].device = d => deployments'[x].state # "ACTIVE"

\* A fence that covers the ACTIVE deployments of a device.
LEMMA FenceCovers ==
  ASSUME TypeOK, NEW S, Fence(S), NEW d,
         \A x \in DOMAIN deployments :
           deployments[x].device = d /\ deployments[x].state = "ACTIVE"
             => x \in S
  PROVE  \A x \in DOMAIN deployments :
           deployments[x].device = d => deployments'[x].state # "ACTIVE"
  <1>1. deployments' = Deployments(S, "REVALIDATION_REQUIRED")
    BY DEF Fence
  <1>2. "REVALIDATION_REQUIRED" \in DeploymentState
    BY DEF DeploymentState
  <1>3. \A x \in DOMAIN deployments :
          deployments'[x].state = IF x \in S THEN "REVALIDATION_REQUIRED"
                                  ELSE deployments[x].state
    BY <1>1, <1>2, DeploymentsAt
  <1> QED BY <1>3

\* The calls on devices invalidate evidence together with the grants.
LEMMA DeviceCallEvidence ==
  ASSUME TypeOK, FreshReports, Unowned, DeviceCall
  PROVE  EvidenceStep
  <1>1. \A d \in DOMAIN devices : devices[d] \in DeviceRecord
    BY DEF TypeOK
  <1>2. ASSUME NEW rec \in Registrations, register_device(rec)
        PROVE  EvidenceStep
    BY <1>2 DEF register_device, Put, FreshReports, Unowned, EvidenceStep
  <1>3. ASSUME NEW rec \in Updates, update_device(rec)
        PROVE  EvidenceStep
    BY <1>3 DEF update_device, FreshReports, Unowned, EvidenceStep
  <1>4. ASSUME NEW d, NEW S, Fence(OnDevice(d, S)), "ACTIVE" \in S,
               DOMAIN devices' = DOMAIN devices,
               \A e \in DOMAIN devices :
                 /\ devices'[e].owning_worker = devices[e].owning_worker
                 /\ e # d => devices'[e] = devices[e]
        PROVE  EvidenceStep
    <2>1. \A x \in DOMAIN deployments :
            deployments[x].device = d /\ deployments[x].state = "ACTIVE"
              => x \in OnDevice(d, S)
      BY <1>4 DEF OnDevice
    <2>2. \A x \in DOMAIN deployments :
            deployments[x].device = d => deployments'[x].state # "ACTIVE"
      BY <1>4, <2>1, FenceCovers
    <2> QED BY <1>4, <2>2 DEF EvidenceStep, Unowned
  <1>5. ASSUME NEW d \in Devices, retire_device(d)
        PROVE  EvidenceStep
    <2>1. /\ DOMAIN devices' = DOMAIN devices
          /\ \A e \in DOMAIN devices :
               /\ devices'[e].owning_worker = devices[e].owning_worker
               /\ e # d => devices'[e] = devices[e]
      BY <1>1, <1>5 DEF retire_device, DeviceRecord
    <2>2. Fence(OnDevice(d, {"ACTIVE", "DEGRADED", "DRAINING"}))
      BY <1>5 DEF retire_device
    <2> QED BY <1>4, <2>1, <2>2
  <1>6. ASSUME NEW d \in Devices, fence_device(d)
        PROVE  EvidenceStep
    <2>1. /\ DOMAIN devices' = DOMAIN devices
          /\ \A e \in DOMAIN devices :
               /\ devices'[e].owning_worker = devices[e].owning_worker
               /\ e # d => devices'[e] = devices[e]
      BY <1>1, <1>6 DEF fence_device, DeviceRecord
    <2>2. Fence(OnDevice(d, {"ACTIVE", "DEGRADED"}))
      BY <1>6 DEF fence_device
    <2> QED BY <1>4, <2>1, <2>2
  <1>7. ASSUME NEW d \in Devices, NEW to, transition_device(d, to)
        PROVE  EvidenceStep
    <2>1. CASE to \in LosesEvidence
      <3>1. /\ DOMAIN devices' = DOMAIN devices
            /\ \A e \in DOMAIN devices :
                 /\ devices'[e].owning_worker = devices[e].owning_worker
                 /\ e # d => devices'[e] = devices[e]
        <4>1. devices' = [devices EXCEPT ![d].lifecycle = to,
                                         ![d].evidence_fresh = FALSE]
          BY <1>7, <2>1 DEF transition_device
        <4> QED BY <1>1, <4>1 DEF DeviceRecord
      <3>2. Fence(OnDevice(d, {"ACTIVE", "DEGRADED"}))
        BY <1>7, <2>1 DEF transition_device
      <3> QED BY <1>4, <3>1, <3>2
    <2>2. CASE to \notin LosesEvidence
      BY <1>1, <1>7, <2>2
         DEF transition_device, DeviceRecord, EvidenceStep, Unowned
    <2> QED BY <2>1, <2>2
  <1>8. ASSUME NEW d \in Devices, NEW s, NEW k, set_device_state(d, s, k)
        PROVE  EvidenceStep
    BY <1>1, <1>8 DEF set_device_state, DeviceRecord, EvidenceStep, Unowned
  <1> QED BY <1>2, <1>3, <1>5, <1>6, <1>7, <1>8 DEF DeviceCall

\* So does every other call: what a lost worker owned is nothing here, and
\* apply_recovery fences all deployments.
LEMMA NextEvidence ==
  ASSUME TypeOK, FreshReports, Unowned, [Next]_vars
  PROVE  EvidenceStep
  <1>1. ASSUME devices' = devices
        PROVE  EvidenceStep
    BY <1>1 DEF EvidenceStep, Unowned
  <1>2. CASE DeploymentCall
    <2>1. devices' = devices
      BY <1>2 DEF DeploymentCall, reserve_deployment, stage_deployment,
                  load_deployment, validate_deployment, activate_deployment,
                  commit_deployment, cancel_deployment, rollback_deployment,
                  drain_deployment, retire_deployment, fail_deployment
    <2> QED BY <1>1, <2>1
  <1>3. CASE CatalogCall
    BY <1>1, <1>3 DEF CatalogCall, register_service, register_program,
                      retire_program
  <1>4. CASE WorkerCall
    <2>1. ASSUME NEW w \in Workers, mark_worker_lost(w)
          PROVE  devices' = devices
      <3>1. \A d \in DOMAIN devices : devices[d].owning_worker # w
        BY DEF Unowned
      <3>2. devices = [d \in DOMAIN devices |-> devices[d]]
        BY DEF TypeOK
      <3> QED BY <2>1, <3>1, <3>2 DEF mark_worker_lost
    <2> QED BY <1>1, <1>4, <2>1 DEF WorkerCall, register_worker
  <1>5. CASE RecoveryCall
    <2>1. ASSUME NEW policy, apply_recovery(policy)
          PROVE  EvidenceStep
      <3>1. \A d \in DOMAIN devices : devices[d] \in DeviceRecord
        BY DEF TypeOK
      <3>2. ASSUME NEW d \in DOMAIN devices
            PROVE  devices'[d].owning_worker = devices[d].owning_worker
        BY <2>1, <3>1 DEF apply_recovery, DeviceRecord
      <3>3. DOMAIN devices' = DOMAIN devices
        BY <2>1 DEF apply_recovery
      <3>4. \A x \in DOMAIN deployments : deployments'[x].state # "ACTIVE"
        <4>1. Fence({x \in DOMAIN deployments :
                       deployments[x].state \in {"ACTIVE", "DEGRADED"}})
          BY <2>1 DEF apply_recovery
        <4> QED BY <4>1, FenceCovers
      <3> QED BY <3>2, <3>3, <3>4 DEF EvidenceStep, Unowned
    <2> QED BY <1>1, <1>5, <2>1 DEF RecoveryCall, advance_epoch
  <1>6. CASE UNCHANGED vars
    BY <1>1, <1>6 DEF vars
  <1> QED BY <1>2, <1>3, <1>4, <1>5, <1>6, DeviceCallEvidence DEF Next

\* For callers that report fresh evidence of devices that no worker owns, an
\* ACTIVE deployment stands on fresh evidence: whatever clears the flag also
\* fences, on every path.
THEOREM EvidenceKept ==
  ASSUME FreshReports
  PROVE  Spec => []EvidenceFenced
  <1>1. Init => EvidenceFenced /\ Unowned
    BY EmptyMapType DEF Init, EvidenceFenced, Unowned
  <1>2. ASSUME TypeOK, TypeOK', AuthorityBinding, EvidenceFenced, Unowned,
               [Next]_vars
        PROVE  EvidenceFenced' /\ Unowned'
    <2>1. EvidenceStep
      BY <1>2, NextEvidence
    <2>2. ASSUME NEW x \in DOMAIN deployments',
                 deployments'[x].state = "ACTIVE"
          PROVE  /\ deployments'[x].device \in DOMAIN devices'
                 /\ devices'[deployments'[x].device].evidence_fresh
      <3>1. /\ x \in DOMAIN deployments
            /\ deployments'[x].device = deployments[x].device
            /\ deployments[x].state = "ACTIVE" \/ commit_deployment(x)
        BY <1>2, <2>2, StepKinds, ActiveIsOld, ReservationStays
           DEF SameReservation
      <3>2. CASE deployments[x].state = "ACTIVE"
        BY <1>2, <2>1, <2>2, <3>1, <3>2 DEF EvidenceFenced, EvidenceStep
      <3>3. CASE commit_deployment(x)
        BY <3>1, <3>3 DEF commit_deployment, is_ready_for_offload
      <3> QED BY <3>1, <3>2, <3>3
    <2> QED BY <2>1, <2>2 DEF EvidenceFenced, EvidenceStep
  <1> QED BY <1>1, <1>2, TypeCorrect, AuthorityBound, PTL DEF Spec

-----------------------------------------------------------------------------
(* What can be out of date in the authority that is granted *)

\* Every deployment is of the catalog.
AllInCatalog == \A x \in DOMAIN deployments : InCatalog(deployments[x])

\* It is from when it is reserved, and stays so.
LEMMA NextInCatalog ==
  ASSUME TypeOK, AuthorityBinding, AllInCatalog, Changes
  PROVE  AllInCatalog'
  <1> SUFFICES ASSUME NEW x \in DOMAIN deployments'
               PROVE  InCatalog(deployments'[x])
    BY DEF AllInCatalog, InCatalog
  <1>1. CASE x \in DOMAIN deployments
    <2>1. SameReservation(x) /\ InCatalog(deployments[x])
      BY <1>1, ReservationStays DEF AllInCatalog
    <2> QED BY <2>1 DEF SameReservation, InCatalog
  <1>2. CASE x \notin DOMAIN deployments
    <2>1. ASSUME ~Opens
          PROVE  DOMAIN deployments' = DOMAIN deployments
      <3>1. ASSUME NEW y \in DOMAIN deployments, commit_deployment(y)
            PROVE  DOMAIN deployments' = DOMAIN deployments
        <4>1. PICK a : Commits(y, a)
          BY <3>1, CommitAt
        <4> QED BY <4>1 DEF Commits
      <3>2. ASSUME NEW y \in DOMAIN deployments, activate_deployment(y)
            PROVE  DOMAIN deployments' = DOMAIN deployments
        <4>1. PICK n : Activates(y, n)
          BY <3>2, ActivateAt
        <4> QED BY <4>1 DEF Activates
      <3> QED BY <2>1, <3>1, <3>2, MovesAt DEF Changes, Keeps
    <2> QED BY <1>2, <2>1, OpensAt
  <1> QED BY <1>1, <1>2

\* commit_deployment grants nothing that is out of date but for the boot of
\* the device and, if a worker owns it, that worker and its boot: the engine's
\* epoch, the generations of service, program, deployment and activation, the
\* policy and the evidence are those of the state in which the authority is
\* recorded, whatever the callers do.
THEOREM GrantsAreCurrent == Spec => GrantsStaleOnlyByBoot
  <1>1. Init => AllInCatalog
    BY EmptyMapType DEF Init, AllInCatalog
  <1>2. ASSUME TypeOK, TypeOK', AuthorityBinding, AllInCatalog, [Next]_vars
        PROVE  AllInCatalog'
    BY <1>2, StepKinds, NextInCatalog
  <1>3. ASSUME TypeOK, TypeOK', AuthorityBinding, AuthorityBinding',
               AllInCatalog, [Next]_vars,
               NEW x \in DOMAIN deployments,
               ~deployments[x].authoritative, deployments'[x].authoritative
        PROVE  /\ Stale(x)' \subseteq {"device_boot", "worker", "worker_boot"}
               /\ devices'[deployments[x].device].owning_worker = Null =>
                    Stale(x)' \subseteq {"device_boot"}
    <2> DEFINE au == Authority(x)
               now == Context(x)'
               w == devices[deployments[x].device].owning_worker
    <2>1. x \in DOMAIN deployments' /\ SameReservation(x)
      BY <1>3, StepKinds, ReservationStays
    <2>2. deployments[x].state # "ACTIVE" /\ deployments'[x].state = "ACTIVE"
      BY <1>3, <2>1 DEF AuthorityBinding, DeploymentBound
    <2>3. commit_deployment(x)
      BY <1>3, <2>1, <2>2, StepKinds, ActiveIsOld
    <2>4. PICK a : Commits(x, a)
      BY <1>3, <2>3, CommitAt
    <2>5. /\ devices' = devices
          /\ epoch' = epoch
          /\ workers' = workers
          /\ current_program_gen' = current_program_gen
          /\ deployments[x].program # Null =>
               current_program_gen[deployments[x].program]
                 = deployments[x].program_gen
      BY <2>3 DEF commit_deployment, registry, ProgramCurrent
    <2>6. InCatalog(deployments[x])
      BY <1>3 DEF AllInCatalog
    <2>7. /\ activations'[deployments'[x].activation].authority = au
          /\ deployments'[x].activation_gen = deployments[x].activation_gen
      BY <2>4 DEF Commits
    <2>8. /\ au.epoch = now.epoch
          /\ au.service_gen = now.service_gen
          /\ au.program_gen = now.program_gen
          /\ au.deployment_gen = now.deployment_gen
          /\ au.activation_gen = now.activation_gen
          /\ au.policy_gen = now.policy_gen
          /\ au.evidence_gen = now.evidence_gen
      BY <2>1, <2>5, <2>6, <2>7
         DEF Authority, Context, SameReservation, InCatalog, policy_generation
    <2>9. w = Null => au.worker = now.worker /\ au.worker_boot = now.worker_boot
      <3>1. Null \notin DOMAIN workers
        BY <1>3, EngineAssumption DEF TypeOK
      <3> QED BY <3>1, <2>1, <2>5, <2>6
              DEF Authority, Context, SameReservation, InCatalog
    <2>10. DOMAIN now = {"epoch", "worker", "worker_boot", "device_boot",
                         "service_gen", "program_gen", "deployment_gen",
                         "activation_gen", "policy_gen", "evidence_gen"}
      BY DEF Context
    <2>11. Stale(x)' = {c \in DOMAIN now : au[c] # now[c]}
      BY <2>7 DEF Stale
    <2>12. devices'[deployments[x].device].owning_worker = w
      BY <2>5
    <2> HIDE DEF au, now, w
    <2> QED BY <2>8, <2>9, <2>10, <2>11, <2>12
  <1>4. ASSUME TypeOK, TypeOK', AuthorityBinding, AuthorityBinding',
               AllInCatalog, [Next]_vars
        PROVE  [\A x \in DOMAIN deployments :
                  (~deployments[x].authoritative
                     /\ deployments'[x].authoritative) =>
                    /\ Stale(x)' \subseteq {"device_boot", "worker",
                                            "worker_boot"}
                    /\ devices'[deployments[x].device].owning_worker = Null =>
                         Stale(x)' \subseteq {"device_boot"}]_vars
    BY <1>3, <1>4
  <1> QED BY <1>1, <1>2, <1>4, TypeCorrect, AuthorityBound, PTL
          DEF Spec, GrantsStaleOnlyByBoot

=============================================================================

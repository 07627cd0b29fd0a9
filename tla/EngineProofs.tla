---------------------------- MODULE EngineProofs ----------------------------
(***************************************************************************)
(* What TLAPS proves of the engine: for every set of devices, programs,    *)
(* services, workers and records that callers pass in, and every bound.    *)
(*                                                                         *)
(* First facts about the ledger arithmetic, for every set of dimensions    *)
(* and every width of the counters, then the type invariant, then that     *)
(* whatever calls interleave, the deployment and the activation table      *)
(* agree about authority (AuthorityBinding).                               *)
(***************************************************************************)
EXTENDS Engine, WellFoundedInduction, TLAPS

-----------------------------------------------------------------------------
(* The ledger *)

\* No dimension of u exceeds that of v.
LeqUsage(u, v) == \A i \in Dims : u[i] <= v[i]

\* LeqUsage is a preorder on usage vectors.
LEMMA LeqUsageOrder ==
  ASSUME NEW u \in Usage, NEW v \in Usage, NEW w \in Usage
  PROVE  /\ LeqUsage(u, u)
         /\ LeqUsage(u, v) /\ LeqUsage(v, w) => LeqUsage(u, w)
  BY LedgerAssumption DEF LeqUsage, Usage, Quantity

\* A ledger starts out unused.
LEMMA NoUsageType == NoUsage \in Usage
  BY LedgerAssumption DEF NoUsage, Usage, Quantity

\* Unsigned addition stays in range.
LEMMA PlusType ==
  ASSUME NEW m \in Quantity, NEW n \in Quantity
  PROVE  Plus(m, n) \in Quantity
  BY LedgerAssumption DEF Plus, Quantity

\* What try_reserve(r).commit() leaves is a usage vector.
LEMMA ApplyType ==
  ASSUME NEW used \in Usage, NEW r \in Usage
  PROVE  apply(used, r) \in Usage
  BY PlusType DEF apply, Usage

\* release_ neither underflows nor raises any counter.
LEMMA ReleaseType ==
  ASSUME NEW used \in Usage, NEW r \in Usage
  PROVE  /\ release(used, r) \in Usage
         /\ LeqUsage(release(used, r), used)
  BY LedgerAssumption DEF release, Usage, Quantity, LeqUsage

\* The least-number principle for a set of naturals.
LEMMA LeastNumber ==
  ASSUME NEW T, T \subseteq Nat, T # {}
  PROVE  \E m \in T : \A k \in T : m <= k
  <1> DEFINE R == {e \in Nat \X Nat : e[1] < e[2]}
  <1>1. IsWellFoundedOn(R, Nat)
    BY NatLessThanWellFounded DEF OpToRel
  <1>2. \E x \in T : \A y \in T : ~(<<y, x>> \in R)
    BY <1>1, WFMin
  <1>3. PICK x \in T : \A y \in T : ~(<<y, x>> \in R)
    BY <1>2
  <1>4. ASSUME NEW y \in T PROVE x <= y
    <2>1. ~(<<y, x>> \in R)
      BY <1>3
    <2>2. x \in Nat /\ y \in Nat
      OBVIOUS
    <2>3. ~(y < x)
      BY <2>1, <2>2
    <2> QED BY <2>2, <2>3
  <1> QED BY <1>4

\* The intermediate usages of the loop that ReleaseEach stands for.
IsRun(f, used, req, S, n) ==
  f = [i \in 0 .. n |-> IF i = 0 THEN used
                        ELSE IF i \in S THEN release(f[i - 1], req[i])
                        ELSE f[i - 1]]

\* The loop is well defined, whatever the number of iterations.
LEMMA RunExists ==
  ASSUME NEW used, NEW req, NEW S, NEW n \in Nat
  PROVE  \E f : IsRun(f, used, req, S, n)
  <1> DEFINE T == {k \in Nat : ~ \E f : IsRun(f, used, req, S, k)}
  <1> SUFFICES ASSUME T # {} PROVE FALSE
    OBVIOUS
  <1>1. PICK m \in T : \A k \in T : m <= k
    BY LeastNumber
  <1> HIDE DEF T
  <1>2. m \in Nat /\ ~ \E f : IsRun(f, used, req, S, m)
    BY <1>1 DEF T
  <1>3. m # 0
    <2>1. IsRun([i \in 0 .. 0 |-> used], used, req, S, 0)
      BY DEF IsRun
    <2> QED BY <2>1, <1>2
  <1>4. m - 1 \in Nat /\ m - 1 \notin T
    BY <1>1, <1>2, <1>3
  <1>5. PICK g : IsRun(g, used, req, S, m - 1)
    BY <1>4 DEF T
  <1> DEFINE h == [i \in 0 .. m |->
                     IF i < m THEN g[i]
                     ELSE IF i \in S THEN release(g[i - 1], req[i])
                     ELSE g[i - 1]]
  <1>6. IsRun(h, used, req, S, m)
    <2> SUFFICES ASSUME NEW i \in 0 .. m
                 PROVE  h[i] = IF i = 0 THEN used
                               ELSE IF i \in S THEN release(h[i - 1], req[i])
                               ELSE h[i - 1]
      BY DEF IsRun
    <2>1. CASE i = 0
      BY <2>1, <1>2, <1>3, <1>5 DEF IsRun
    <2>2. CASE i # 0
      <3>1. i - 1 \in 0 .. m /\ i - 1 < m /\ h[i - 1] = g[i - 1]
        BY <2>2, <1>2
      <3>2. CASE i = m
        BY <3>1, <3>2, <2>2, <1>2
      <3>3. CASE i # m
        <4>1. i \in 0 .. (m - 1) /\ i < m
          BY <3>3, <1>2
        <4>2. g[i] = IF i \in S THEN release(g[i - 1], req[i]) ELSE g[i - 1]
          BY <4>1, <2>2, <1>5 DEF IsRun
        <4> QED BY <4>1, <4>2, <3>1, <2>2
      <3> QED BY <3>2, <3>3
    <2> QED BY <2>1, <2>2
  <1> QED BY <1>6, <1>2

\* However many deployments a loop releases, the usage it leaves is in range
\* and no counter has grown: a repeated release cannot underflow.
THEOREM ReleaseEachType ==
  ASSUME NEW used \in Usage, NEW S, NEW req \in [S -> Usage], NEW n \in Nat
  PROVE  /\ ReleaseEach(used, req, S, n) \in Usage
         /\ LeqUsage(ReleaseEach(used, req, S, n), used)
  <1> DEFINE run == CHOOSE f : IsRun(f, used, req, S, n)
  <1>1. IsRun(run, used, req, S, n)
    BY RunExists
  <1>2. ReleaseEach(used, req, S, n) = run[n]
    BY DEF ReleaseEach, IsRun
  <1> HIDE DEF run
  <1> DEFINE Good(k) == run[k] \in Usage /\ LeqUsage(run[k], used)
  <1> DEFINE T == {k \in 0 .. n : ~Good(k)}
  <1>3. T = {}
    <2> SUFFICES ASSUME T # {} PROVE FALSE
      OBVIOUS
    <2>0. T \subseteq Nat
      OBVIOUS
    <2>1. PICK m \in T : \A k \in T : m <= k
      <3> HIDE DEF T
      <3> QED BY <2>0, LeastNumber
    <2>2. m \in 0 .. n /\ ~Good(m)
      OBVIOUS
    <2>3. CASE m = 0
      <3>1. run[0] = used
        BY <1>1 DEF IsRun
      <3>2. LeqUsage(used, used)
        BY LeqUsageOrder
      <3> QED BY <3>1, <3>2, <2>3, <2>2
    <2>4. CASE m # 0
      <3>1. m - 1 \in 0 .. n /\ m - 1 \notin T
        BY <2>1, <2>2, <2>4
      <3>2. Good(m - 1)
        BY <3>1
      <3>3. run[m] = IF m \in S THEN release(run[m - 1], req[m])
                     ELSE run[m - 1]
        BY <1>1, <2>2, <2>4 DEF IsRun
      <3>4. CASE m \in S
        <4>1. /\ release(run[m - 1], req[m]) \in Usage
              /\ LeqUsage(release(run[m - 1], req[m]), run[m - 1])
          BY <3>2, <3>4, ReleaseType
        <4>2. LeqUsage(run[m], used)
          BY <4>1, <3>2, <3>3, <3>4, LeqUsageOrder
        <4> QED BY <4>1, <4>2, <3>3, <3>4, <2>2
      <3> QED BY <3>2, <3>3, <3>4, <2>2
    <2> QED BY <2>3, <2>4
  <1> QED BY <1>2, <1>3

-----------------------------------------------------------------------------
(* Facts about the operators the handlers are made of *)

\* Inserting a typed value into a typed map gives a typed map.
LEMMA PutType ==
  ASSUME NEW R, NEW m, m \in [DOMAIN m -> R], NEW k, NEW v \in R
  PROVE  /\ DOMAIN Put(m, k, v) = DOMAIN m \cup {k}
         /\ Put(m, k, v) \in [DOMAIN Put(m, k, v) -> R]
  BY DEF Put

\* An empty map is a map of any type.
LEMMA EmptyMapType ==
  ASSUME NEW R
  PROVE  DOMAIN EmptyMap = {} /\ EmptyMap \in [DOMAIN EmptyMap -> R]
  BY DEF EmptyMap

\* Assigning a field of a record keeps it a record of its type.
LEMMA DeploymentExcept ==
  ASSUME NEW r \in Deployment, NEW s \in DeploymentState, NEW b \in BOOLEAN
  PROVE  /\ [r EXCEPT !.state = s] \in Deployment
         /\ [r EXCEPT !.authoritative = b] \in Deployment
  BY DEF Deployment

\* The same for an activation.
LEMMA ActivationExcept ==
  ASSUME NEW r \in ActivationRecord, NEW s \in ActivationState,
         NEW au \in ActivationAuthority
  PROVE  /\ [r EXCEPT !.authority = au] \in ActivationRecord
         /\ [r EXCEPT !.state = s] \in ActivationRecord
  BY DEF ActivationRecord

\* The same for a device.
LEMMA DeviceExcept ==
  ASSUME NEW r \in DeviceRecord, NEW lc \in Lifecycle, NEW b \in BOOLEAN
  PROVE  /\ [r EXCEPT !.lifecycle = lc] \in DeviceRecord
         /\ [r EXCEPT !.evidence_fresh = b] \in DeviceRecord
  BY DEF DeviceRecord

\* The changes the device calls make to a record.
LEMMA LifecycleStep ==
  ASSUME TypeOK, NEW d \in DOMAIN devices, NEW lc \in Lifecycle
  PROVE  /\ [devices[d] EXCEPT !.lifecycle = lc] \in DeviceRecord
         /\ [devices[d] EXCEPT !.lifecycle = lc].device_id = d
         /\ [devices[d] EXCEPT !.lifecycle = lc, !.evidence_fresh = FALSE]
              \in DeviceRecord
         /\ [devices[d] EXCEPT !.lifecycle = lc,
                               !.evidence_fresh = FALSE].device_id = d
         /\ [devices[d] EXCEPT !.evidence_fresh = FALSE, !.lifecycle = lc]
              \in DeviceRecord
         /\ [devices[d] EXCEPT !.evidence_fresh = FALSE,
                               !.lifecycle = lc].device_id = d
  <1>1. devices[d] \in DeviceRecord /\ devices[d].device_id = d
    BY DEF TypeOK
  <1>2. /\ [devices[d] EXCEPT !.lifecycle = lc] \in DeviceRecord
        /\ [devices[d] EXCEPT !.evidence_fresh = FALSE] \in DeviceRecord
    BY <1>1, DeviceExcept
  <1>3. /\ [devices[d] EXCEPT !.lifecycle = lc, !.evidence_fresh = FALSE]
             \in DeviceRecord
        /\ [devices[d] EXCEPT !.evidence_fresh = FALSE, !.lifecycle = lc]
             \in DeviceRecord
    BY <1>2, DeviceExcept
  <1> QED BY <1>1, <1>2, <1>3 DEF DeviceRecord

\* What every call that reassigns device records must give back.
DevicesOK ==
  /\ DOMAIN devices' = DOMAIN devices
  /\ devices' \in [DOMAIN devices -> DeviceRecord]
  /\ \A d \in DOMAIN devices : devices'[d].device_id = d

\* Reassigning one device's record.
LEMMA OneDeviceType ==
  ASSUME TypeOK, NEW d \in DOMAIN devices, NEW r \in DeviceRecord,
         r.device_id = d, devices' = [devices EXCEPT ![d] = r]
  PROVE  DevicesOK
  BY DEF TypeOK, DevicesOK

\* What every call that moves deployments must give back.
TablesOK ==
  /\ DOMAIN deployments' = DOMAIN deployments
  /\ deployments' \in [DOMAIN deployments -> Deployment]
  /\ DOMAIN activations' = DOMAIN activations
  /\ activations' \in [DOMAIN activations -> ActivationRecord]

\* A bulk change of deployments keeps the table typed.
LEMMA DeploymentsType ==
  ASSUME TypeOK, NEW S, NEW to \in DeploymentState
  PROVE  /\ DOMAIN Deployments(S, to) = DOMAIN deployments
         /\ Deployments(S, to) \in [DOMAIN deployments -> Deployment]
  <1>1. ASSUME NEW x \in DOMAIN deployments
        PROVE  [deployments[x] EXCEPT !.state = to, !.authoritative = FALSE]
                 \in Deployment
    BY DeploymentExcept DEF TypeOK
  <1> QED BY <1>1 DEF TypeOK, Deployments

\* A bulk change of activations keeps the table typed.
LEMMA ActivationsType ==
  ASSUME TypeOK, NEW S, NEW to \in ActivationState
  PROVE  /\ DOMAIN Activations(S, to) = DOMAIN activations
         /\ Activations(S, to) \in [DOMAIN activations -> ActivationRecord]
  BY DEF TypeOK, Activations, ActivationRecord

\* release_resources keeps the ledgers typed.
LEMMA ReleaseResourcesType ==
  ASSUME TypeOK, NEW x \in DOMAIN deployments, release_resources(x)
  PROVE  ledgers' \in [DOMAIN devices -> Ledger]
  <1> DEFINE d == deployments[x].device
  <1>1. deployments[x].resources \in Usage
    BY DEF TypeOK, Deployment
  <1>2. CASE d \in DOMAIN ledgers
    <2>1. ledgers[d] \in Ledger
      BY <1>2 DEF TypeOK
    <2>2. release(ledgers[d].used, deployments[x].resources) \in Usage
      BY <2>1, <1>1, ReleaseType DEF Ledger
    <2> QED BY <2>1, <2>2, <1>2 DEF TypeOK, Ledger, release_resources
  <1>3. CASE d \notin DOMAIN ledgers
    BY <1>3 DEF TypeOK, release_resources
  <1> QED BY <1>2, <1>3

\* Fencing keeps both tables typed.
LEMMA FenceType ==
  ASSUME TypeOK, NEW S, Fence(S)
  PROVE  TablesOK
  BY DeploymentsType, ActivationsType
     DEF Fence, DeploymentState, ActivationState, TablesOK

-----------------------------------------------------------------------------
(* Type correctness *)

\* A coordinator that was just constructed is typed.
LEMMA InitType == Init => TypeOK
  BY EmptyMapType, EngineAssumption DEF Init, TypeOK

\* The calls of the device registry keep the state typed.
LEMMA DeviceCallType == TypeOK /\ DeviceCall => TypeOK'
  <1> SUFFICES ASSUME TypeOK, DeviceCall PROVE TypeOK'
    OBVIOUS
  <1>1. ASSUME NEW rec \in Registrations, register_device(rec)
        PROVE  TypeOK'
    <2> DEFINE d == rec.device_id
    <2> DEFINE l == [cap |-> rec.resource_capacity, used |-> NoUsage]
    <2>1. rec \in DeviceRecord
      BY EngineAssumption
    <2>2. d \in Devices /\ l \in Ledger
      BY <2>1, NoUsageType DEF DeviceRecord, Ledger
    <2>3. /\ d \notin DOMAIN devices
          /\ devices' = Put(devices, d, rec)
          /\ ledgers' = Put(ledgers, d, l)
          /\ device_order' = Append(device_order, d)
      BY <1>1 DEF register_device, TypeOK
    <2> HIDE DEF d, l
    <2>4. /\ DOMAIN devices' \subseteq Devices
          /\ devices' \in [DOMAIN devices' -> DeviceRecord]
          /\ ledgers' \in [DOMAIN devices' -> Ledger]
      <3>1. /\ devices \in [DOMAIN devices -> DeviceRecord]
            /\ ledgers \in [DOMAIN ledgers -> Ledger]
            /\ DOMAIN devices = DOMAIN ledgers
            /\ DOMAIN devices \subseteq Devices
        BY DEF TypeOK
      <3>2. /\ DOMAIN devices' = DOMAIN devices \cup {d}
            /\ devices' \in [DOMAIN devices' -> DeviceRecord]
        BY <2>1, <2>3, <3>1 DEF Put
      <3>3. /\ DOMAIN ledgers' = DOMAIN ledgers \cup {d}
            /\ ledgers' \in [DOMAIN ledgers' -> Ledger]
        BY <2>2, <2>3, <3>1 DEF Put
      <3> QED BY <2>2, <3>1, <3>2, <3>3
    <2>5. \A e \in DOMAIN devices' : devices'[e].device_id = e
      BY <2>3 DEF TypeOK, Put, d
    <2>6. device_order' \in Seq(Devices)
      BY <2>2, <2>3 DEF TypeOK
    <2> QED BY <2>4, <2>5, <2>6, <1>1 DEF TypeOK, register_device
  <1>2. ASSUME NEW rec \in Updates, update_device(rec)
        PROVE  TypeOK'
    <2>1. rec \in DeviceRecord
      BY EngineAssumption
    <2>2. /\ rec.device_id \in DOMAIN devices
          /\ devices' = [devices EXCEPT ![rec.device_id] = rec]
      BY <1>2 DEF update_device
    <2>3. DevicesOK
      BY <2>1, <2>2, OneDeviceType
    <2> QED BY <2>3, <1>2 DEF TypeOK, DevicesOK, update_device, registry
  <1>3. ASSUME NEW d \in Devices, retire_device(d)
        PROVE  TypeOK'
    <2> DEFINE S == OnDevice(d, {"ACTIVE", "DEGRADED", "DRAINING"})
    <2> DEFINE req == [x \in S |-> deployments[x].resources]
    <2>1. req \in [S -> Usage]
      BY DEF OnDevice, TypeOK, Deployment
    <2>2. ledgers[d] \in Ledger /\ d \in DOMAIN devices
      BY <1>3 DEF retire_device, TypeOK
    <2> DEFINE u == ReleaseEach(ledgers[d].used, req, S, MaxId)
    <2>3. u \in Usage
      <3> HIDE DEF S, req
      <3> QED BY <2>1, <2>2, ReleaseEachType, EngineAssumption DEF Ledger
    <2>4. ledgers' = [ledgers EXCEPT ![d].used = u]
      BY <1>3, <2>2 DEF retire_device, TypeOK
    <2> HIDE DEF u
    <2>5. ledgers' \in [DOMAIN devices -> Ledger]
      BY <2>2, <2>3, <2>4 DEF TypeOK, Ledger
    <2>6. DevicesOK
      <3> DEFINE r == [devices[d] EXCEPT !.lifecycle = "RETIRED",
                                        !.evidence_fresh = FALSE]
      <3>1. r \in DeviceRecord /\ r.device_id = d
        BY <2>2, LifecycleStep DEF Lifecycle
      <3>2. devices' = [devices EXCEPT ![d] = r]
        BY <1>3 DEF retire_device
      <3> QED BY <3>1, <3>2, <2>2, OneDeviceType
    <2>7. TablesOK
      BY <1>3, FenceType DEF retire_device
    <2> QED BY <2>5, <2>6, <2>7, <1>3
            DEF TypeOK, DevicesOK, TablesOK, retire_device, registry
  <1>4. ASSUME NEW d \in Devices, fence_device(d)
        PROVE  TypeOK'
    <2> DEFINE lc == IF devices[d].lifecycle \in {"RETIRED", "OFFLINE", "FAILED"}
                     THEN devices[d].lifecycle ELSE "REVALIDATION_REQUIRED"
    <2>1. d \in DOMAIN devices /\ lc \in Lifecycle
      BY <1>4 DEF fence_device, Lifecycle
    <2>2. devices' = [devices EXCEPT ![d] =
                        [devices[d] EXCEPT !.evidence_fresh = FALSE,
                                           !.lifecycle = lc]]
      <3>1. devices[d] \in DeviceRecord
        BY <2>1 DEF TypeOK
      <3>2. [devices[d] EXCEPT !.evidence_fresh = FALSE].lifecycle
              = devices[d].lifecycle
        BY <3>1 DEF DeviceRecord
      <3> QED BY <1>4, <3>2, <2>1 DEF fence_device, TypeOK
    <2> HIDE DEF lc
    <2>3. DevicesOK
      BY <2>1, <2>2, LifecycleStep, OneDeviceType
    <2>4. TablesOK
      BY <1>4, FenceType DEF fence_device
    <2> QED BY <2>3, <2>4, <1>4
            DEF TypeOK, DevicesOK, TablesOK, fence_device, registry
  <1>5. ASSUME NEW d \in Devices, NEW to \in Lifecycle, transition_device(d, to)
        PROVE  TypeOK'
    <2>1. d \in DOMAIN devices
      BY <1>5 DEF transition_device
    <2>2. CASE to \in LosesEvidence
      <3>1. DevicesOK
        <4> DEFINE r == [devices[d] EXCEPT !.lifecycle = to,
                                          !.evidence_fresh = FALSE]
        <4>1. r \in DeviceRecord /\ r.device_id = d
          BY <2>1, LifecycleStep
        <4>2. devices' = [devices EXCEPT ![d] = r]
          BY <2>2, <1>5 DEF transition_device
        <4> QED BY <4>1, <4>2, <2>1, OneDeviceType
      <3>2. TablesOK
        BY <2>2, <1>5, FenceType DEF transition_device
      <3> QED BY <3>1, <3>2, <1>5
              DEF TypeOK, DevicesOK, TablesOK, transition_device, registry
    <2>3. CASE to \notin LosesEvidence
      <3>1. DevicesOK
        BY <2>1, <2>3, <1>5, LifecycleStep, OneDeviceType
           DEF transition_device
      <3> QED BY <3>1, <2>3, <1>5
              DEF TypeOK, DevicesOK, transition_device, registry
    <2> QED BY <2>2, <2>3
  <1>6. ASSUME NEW d \in Devices, NEW s \in CapabilityState, NEW k \in Keys,
               set_device_state(d, s, k)
        PROVE  TypeOK'
    <2>1. d \in DOMAIN devices /\ devices[d] \in DeviceRecord
      BY <1>6 DEF set_device_state, TypeOK
    <2> DEFINE caps == [devices[d].capabilities EXCEPT ![k] = s]
    <2> DEFINE r == [devices[d] EXCEPT !.capabilities = caps]
    <2>2. caps \in [Keys -> CapabilityState \cup {"ABSENT"}]
      BY <2>1 DEF DeviceRecord
    <2>3. r \in DeviceRecord /\ r.device_id = d
      <3> HIDE DEF caps
      <3> QED BY <2>1, <2>2 DEF DeviceRecord, TypeOK
    <2>4. devices' = [devices EXCEPT ![d] = r]
      BY <1>6 DEF set_device_state
    <2> HIDE DEF r
    <2>5. DevicesOK
      BY <2>1, <2>3, <2>4, OneDeviceType
    <2> QED BY <2>5, <1>6
            DEF TypeOK, DevicesOK, set_device_state, registry
  <1> QED BY <1>1, <1>2, <1>3, <1>4, <1>5, <1>6 DEF DeviceCall

\* So do the calls about services and programs.
LEMMA CatalogCallType == TypeOK /\ CatalogCall => TypeOK'
  <1> SUFFICES ASSUME TypeOK, CatalogCall PROVE TypeOK'
    OBVIOUS
  <1>1. ASSUME NEW s \in Services, register_service(s)
        PROVE  TypeOK'
    BY <1>1 DEF TypeOK, register_service
  <1>2. ASSUME NEW p \in Programs, retire_program(p)
        PROVE  TypeOK'
    BY <1>2, EngineAssumption DEF TypeOK, retire_program
  <1>3. ASSUME NEW p \in Programs, NEW g \in 1 .. MaxProgramGen,
               register_program(p, g)
        PROVE  TypeOK'
    <2>1. programs' \in [Programs -> SUBSET (1 .. MaxProgramGen)]
      BY <1>3 DEF TypeOK, register_program
    <2>2. current_program_gen' \in [Programs -> 0 .. MaxProgramGen]
      BY <1>3, EngineAssumption DEF TypeOK, register_program
    <2> QED BY <1>3, <2>1, <2>2 DEF TypeOK, register_program
  <1> QED BY <1>1, <1>2, <1>3 DEF CatalogCall

\* So do the calls about workers.
LEMMA WorkerCallType == TypeOK /\ WorkerCall => TypeOK'
  <1> SUFFICES ASSUME TypeOK, WorkerCall PROVE TypeOK'
    OBVIOUS
  <1>1. ASSUME NEW w \in Workers, NEW b \in WorkerBoots, register_worker(w, b)
        PROVE  TypeOK'
    <2>1. /\ DOMAIN workers' \subseteq Workers
          /\ workers' \in [DOMAIN workers' -> WorkerBoots]
      BY <1>1 DEF TypeOK, register_worker, Put
    <2> QED BY <1>1, <2>1 DEF TypeOK, register_worker, registry
  <1>2. ASSUME NEW w \in Workers, mark_worker_lost(w)
        PROVE  TypeOK'
    <2>1. /\ DOMAIN workers' \subseteq Workers
          /\ workers' \in [DOMAIN workers' -> WorkerBoots]
      BY <1>2 DEF TypeOK, mark_worker_lost, Erase
    <2>2. TablesOK
      BY <1>2, FenceType DEF mark_worker_lost
    <2>3. DevicesOK
      <3>1. ASSUME NEW d \in DOMAIN devices
            PROVE  /\ devices'[d] \in DeviceRecord
                   /\ devices'[d].device_id = d
        <4> DEFINE r == [devices[d] EXCEPT
                           !.evidence_fresh = FALSE,
                           !.lifecycle = "REVALIDATION_REQUIRED"]
        <4>1. devices'[d] = devices[d] \/ devices'[d] = r
          BY <1>2 DEF mark_worker_lost
        <4>2. devices[d] \in DeviceRecord /\ devices[d].device_id = d
          BY DEF TypeOK
        <4>3. "REVALIDATION_REQUIRED" \in Lifecycle
          BY DEF Lifecycle
        <4>4. r \in DeviceRecord /\ r.device_id = d
          BY <4>3, LifecycleStep
        <4> HIDE DEF r
        <4> QED BY <4>1, <4>2, <4>4
      <3>2. devices' = [d \in DOMAIN devices |-> devices'[d]]
        BY <1>2 DEF mark_worker_lost
      <3> QED BY <3>1, <3>2 DEF DevicesOK
    <2> QED BY <1>2, <2>1, <2>2, <2>3
            DEF TypeOK, DevicesOK, TablesOK, mark_worker_lost, registry
  <1> QED BY <1>1, <1>2 DEF WorkerCall

\* So do advance_epoch and apply_recovery.
LEMMA RecoveryCallType == TypeOK /\ RecoveryCall => TypeOK'
  <1> SUFFICES ASSUME TypeOK, RecoveryCall PROVE TypeOK'
    OBVIOUS
  <1>1. ASSUME advance_epoch PROVE TypeOK'
    BY <1>1 DEF TypeOK, advance_epoch, next_generation, registry
  <1>2. ASSUME NEW policy, apply_recovery(policy) PROVE TypeOK'
    <2>1. TablesOK
      BY <1>2, FenceType DEF apply_recovery
    <2>2. DevicesOK
      <3>1. ASSUME NEW d \in DOMAIN devices
            PROVE  /\ devices'[d] \in DeviceRecord
                   /\ devices'[d].device_id = d
        <4>1. devices[d] \in DeviceRecord /\ devices[d].device_id = d
          BY DEF TypeOK
        <4>2. CASE devices[d].lifecycle = "RETIRED"
          BY <4>1, <4>2, <1>2 DEF apply_recovery
        <4>3. CASE devices[d].lifecycle # "RETIRED"
          <5> DEFINE lc == IF devices[d].lifecycle \in {"FAILED", "OFFLINE"}
                           THEN devices[d].lifecycle
                           ELSE "REVALIDATION_REQUIRED"
          <5> DEFINE caps == [k \in Keys |->
                                IF /\ policy = "FENCE_ALL_DYNAMIC"
                                   /\ devices[d].capabilities[k] = "SUPPORTED"
                                THEN "REVALIDATION_REQUIRED"
                                ELSE devices[d].capabilities[k]]
          <5> DEFINE r == [devices[d] EXCEPT !.evidence_fresh = FALSE,
                                            !.lifecycle = lc]
          <5>0. lc \in Lifecycle
            BY <4>1 DEF DeviceRecord, Lifecycle
          <5>1. r \in DeviceRecord /\ r.device_id = d
            <6> HIDE DEF lc
            <6> QED BY <5>0, LifecycleStep
          <5>2. /\ [devices[d] EXCEPT !.evidence_fresh = FALSE].lifecycle
                     = devices[d].lifecycle
                /\ r.capabilities = devices[d].capabilities
            BY <4>1 DEF DeviceRecord
          <5>3. caps \in [Keys -> CapabilityState \cup {"ABSENT"}]
            BY <4>1 DEF DeviceRecord, CapabilityState
          <5>4. devices'[d] = [r EXCEPT !.capabilities = caps]
            BY <1>2, <4>3, <5>2 DEF apply_recovery
          <5> HIDE DEF r, caps
          <5> QED BY <5>1, <5>3, <5>4 DEF DeviceRecord
        <4> QED BY <4>2, <4>3
      <3>2. devices' = [d \in DOMAIN devices |-> devices'[d]]
        BY <1>2 DEF apply_recovery
      <3> QED BY <3>1, <3>2 DEF DevicesOK
    <2> QED BY <1>2, <2>1, <2>2
            DEF TypeOK, DevicesOK, TablesOK, apply_recovery, registry
  <1> QED BY <1>1, <1>2 DEF RecoveryCall

\* So do the calls that act on deployments.
LEMMA DeploymentCallType == TypeOK /\ DeploymentCall => TypeOK'
  <1> SUFFICES ASSUME TypeOK, DeploymentCall PROVE TypeOK'
    OBVIOUS
  <1>1. ASSUME NEW d \in Devices, NEW req \in Requests,
               reserve_deployment(d, req)
        PROVE  TypeOK'
    <2> DEFINE rr == IF req.service # Null
                     THEN ServiceDef[req.service].resource ELSE req.resource
    <2> DEFINE prog == IF req.required_program # Null
                       THEN req.required_program
                       ELSE IF req.service # Null
                            THEN ServiceDef[req.service].required_program
                       ELSE Null
    <2> DEFINE pgen == IF prog # Null THEN current_program_gen[prog] ELSE 0
    <2> DEFINE sgen == IF req.service # Null
                       THEN ServiceDef[req.service].service_gen ELSE 0
    <2> DEFINE dep == [generation |-> 1,
                       device |-> d, device_boot |-> devices[d].boot_id,
                       service |-> req.service, service_gen |-> sgen,
                       program |-> prog, program_gen |-> pgen,
                       resources |-> rr, state |-> "RESERVED",
                       authoritative |-> FALSE, activation |-> 0,
                       activation_gen |-> 0, epoch |-> 0,
                       worker_boot |-> Null]
    <2>1. /\ rr \in Usage
          /\ prog \in Programs \cup {Null}
          /\ req.service \in Services \cup {Null}
          /\ sgen \in Nat
      BY EngineAssumption
    <2>2. pgen \in Nat
      <3> HIDE DEF prog
      <3> QED BY <2>1 DEF TypeOK
    <2>3. d \in DOMAIN devices /\ devices[d].boot_id \in Nat
      BY <1>1 DEF reserve_deployment, is_ready_for_offload, TypeOK, DeviceRecord
    <2>4. dep \in Deployment
      <3> HIDE DEF rr, prog, pgen, sgen
      <3> QED BY <2>1, <2>2, <2>3 DEF Deployment, DeploymentState
    <2>5. /\ id_seq' = id_seq + 2
          /\ id_seq + 1 <= MaxId
          /\ \/ /\ ledgers' = [ledgers EXCEPT ![d].used = apply(@, rr)]
                /\ deployments' = Put(deployments, id_seq, dep)
             \/ UNCHANGED <<ledgers, deployments>>
          /\ UNCHANGED <<devices, registry, workers, activations, epoch>>
      BY <1>1 DEF reserve_deployment
    <2> HIDE DEF dep, rr
    <2>6. ledgers' \in [DOMAIN devices -> Ledger]
      <3>1. ledgers[d] \in Ledger
        BY <2>3 DEF TypeOK
      <3>2. apply(ledgers[d].used, rr) \in Usage
        BY <3>1, <2>1, ApplyType DEF Ledger
      <3> QED BY <3>1, <3>2, <2>5, <2>3 DEF TypeOK, Ledger
    <2>7. /\ DOMAIN deployments' \subseteq 1 .. (id_seq' - 1)
          /\ deployments' \in [DOMAIN deployments' -> Deployment]
      <3>1. CASE deployments' = Put(deployments, id_seq, dep)
        BY <2>4, <2>5, <3>1 DEF TypeOK, Put
      <3>2. CASE deployments' = deployments
        BY <2>5, <3>2 DEF TypeOK
      <3> QED BY <2>5, <3>1, <3>2
    <2>8. /\ DOMAIN activations' \subseteq 1 .. (id_seq' - 1)
          /\ id_seq' \in 1 .. (MaxId + 1)
      BY <2>5, EngineAssumption DEF TypeOK
    <2> QED BY <2>5, <2>6, <2>7, <2>8 DEF TypeOK, registry
  <1>2. ASSUME NEW x \in DOMAIN deployments, NEW to \in DeploymentState,
               do_deploy_transition(x, to),
               UNCHANGED <<devices, registry, ledgers, workers, activations,
                           epoch, id_seq>>
        PROVE  TypeOK'
    <2> DEFINE r == [deployments[x] EXCEPT !.state = to,
                                           !.authoritative = (to = "ACTIVE")]
    <2>1. r \in Deployment
      BY DeploymentExcept DEF TypeOK
    <2>2. deployments' = [deployments EXCEPT ![x] = r]
      BY <1>2 DEF do_deploy_transition
    <2> HIDE DEF r
    <2>3. /\ DOMAIN deployments' = DOMAIN deployments
          /\ deployments' \in [DOMAIN deployments -> Deployment]
      BY <2>1, <2>2 DEF TypeOK
    <2> QED BY <2>3, <1>2 DEF TypeOK, registry
  <1>3. ASSUME NEW x \in DOMAIN deployments, activate_deployment(x)
        PROVE  TypeOK'
    <2> DEFINE gen == next_generation(deployments[x].activation_gen)
    <2> DEFINE r == [deployments[x] EXCEPT !.state = "ACTIVATING",
                                           !.authoritative = FALSE,
                                           !.activation = id_seq,
                                           !.activation_gen = gen]
    <2> DEFINE act == [deployment_id |-> x, activation_gen |-> gen,
                       state |-> "PENDING", authority |-> NoAuthority]
    <2>1. x \in Nat /\ id_seq \in Nat /\ gen \in Nat
      BY DEF TypeOK, Deployment, next_generation
    <2>2. r \in Deployment
      <3>1. [deployments[x] EXCEPT !.state = "ACTIVATING",
                                   !.authoritative = FALSE] \in Deployment
        BY DeploymentExcept DEF TypeOK, DeploymentState
      <3> HIDE DEF gen
      <3> QED BY <3>1, <2>1 DEF Deployment
    <2>3. act \in ActivationRecord
      <3> HIDE DEF gen
      <3>1. NoAuthority \in ActivationAuthority
        BY DEF NoAuthority, ActivationAuthority
      <3> QED BY <3>1, <2>1 DEF ActivationRecord, ActivationState
    <2>4. /\ deployments' = [deployments EXCEPT ![x] = r]
          /\ activations' = Put(activations, id_seq, act)
          /\ id_seq' = id_seq + 1
          /\ id_seq <= MaxId
      BY <1>3 DEF activate_deployment
    <2> HIDE DEF r, act
    <2>5. /\ DOMAIN deployments' = DOMAIN deployments
          /\ deployments' \in [DOMAIN deployments -> Deployment]
          /\ DOMAIN activations' \subseteq 1 .. (id_seq' - 1)
          /\ activations' \in [DOMAIN activations' -> ActivationRecord]
      BY <2>2, <2>3, <2>4 DEF TypeOK, Put
    <2>6. /\ DOMAIN deployments \subseteq 1 .. (id_seq' - 1)
          /\ id_seq' \in 1 .. (MaxId + 1)
      BY <2>4, EngineAssumption DEF TypeOK
    <2> QED BY <2>5, <2>6, <1>3 DEF TypeOK, activate_deployment, registry
  <1>4. ASSUME NEW x \in DOMAIN deployments, commit_deployment(x)
        PROVE  TypeOK'
    <2> DEFINE au == Authority(x)
    <2> DEFINE r == [deployments[x] EXCEPT !.state = "ACTIVE",
                                           !.authoritative = TRUE,
                                           !.epoch = epoch]
    <2>1. r \in Deployment
      <3>1. [deployments[x] EXCEPT !.state = "ACTIVE", !.authoritative = TRUE]
              \in Deployment
        BY DeploymentExcept DEF TypeOK, DeploymentState
      <3> QED BY <3>1 DEF Deployment, TypeOK
    <2>2. au \in ActivationAuthority
      <3>1. /\ deployments[x] \in Deployment
            /\ devices[deployments[x].device] \in DeviceRecord
            /\ epoch \in Nat
        BY <1>4 DEF commit_deployment, is_ready_for_offload, TypeOK
      <3>2. devices[deployments[x].device].evidence_gen \in Nat
        BY <3>1 DEF DeviceRecord
      <3> QED BY <3>1, <3>2 DEF Authority, Deployment, ActivationAuthority,
                                policy_generation
    <2>3. PICK a \in DOMAIN activations :
            activations' = [activations EXCEPT ![a].authority = au,
                                               ![a].state = "ACTIVE"]
      BY <1>4 DEF commit_deployment
    <2> DEFINE act == [activations[a] EXCEPT !.authority = au,
                                             !.state = "ACTIVE"]
    <2>4. act \in ActivationRecord
      <3>1. activations[a] \in ActivationRecord /\ "ACTIVE" \in ActivationState
        BY <2>3 DEF TypeOK, ActivationState
      <3> HIDE DEF au
      <3>2. [activations[a] EXCEPT !.authority = au] \in ActivationRecord
        BY <2>2, <3>1, ActivationExcept
      <3> QED BY <2>2, <3>1, <3>2, ActivationExcept
    <2>5. /\ activations' = [activations EXCEPT ![a] = act]
          /\ deployments' = [deployments EXCEPT ![x] = r]
      BY <2>3, <1>4 DEF commit_deployment
    <2> HIDE DEF r, act, au
    <2>6. TablesOK
      BY <2>1, <2>4, <2>5 DEF TypeOK, TablesOK
    <2> QED BY <2>6, <1>4 DEF TypeOK, TablesOK, commit_deployment, registry
  <1>5. ASSUME NEW x \in DOMAIN deployments,
               NEW to \in DeploymentState, NEW s \in ActivationState,
               deployments' = Deployments({x}, to),
               activations' = Activations({x}, s) \/ UNCHANGED activations,
               release_resources(x) \/ UNCHANGED ledgers,
               UNCHANGED <<devices, registry, workers, epoch, id_seq>>
        PROVE  TypeOK'
    <2>1. /\ DOMAIN deployments' = DOMAIN deployments
          /\ deployments' \in [DOMAIN deployments -> Deployment]
      BY <1>5, DeploymentsType
    <2>2. /\ DOMAIN activations' = DOMAIN activations
          /\ activations' \in [DOMAIN activations -> ActivationRecord]
      BY <1>5, ActivationsType DEF TypeOK
    <2>3. ledgers' \in [DOMAIN devices -> Ledger]
      BY <1>5, ReleaseResourcesType DEF TypeOK
    <2> QED BY <2>1, <2>2, <2>3, <1>5 DEF TypeOK, registry
  <1> USE DEF DeploymentState, ActivationState
  <1>6. ASSUME NEW x \in DOMAIN deployments,
               stage_deployment(x) \/ load_deployment(x) \/ validate_deployment(x)
        PROVE  TypeOK'
    BY <1>6, <1>2 DEF stage_deployment, load_deployment, validate_deployment
  <1>7. ASSUME NEW x \in DOMAIN deployments,
               cancel_deployment(x) \/ rollback_deployment(x)
        PROVE  TypeOK'
    BY <1>7, <1>5 DEF cancel_deployment, rollback_deployment
  <1>8. ASSUME NEW x \in DOMAIN deployments,
               drain_deployment(x) \/ fail_deployment(x)
        PROVE  TypeOK'
    BY <1>8, <1>5 DEF drain_deployment, fail_deployment
  <1>9. ASSUME NEW x \in DOMAIN deployments, retire_deployment(x)
        PROVE  TypeOK'
    BY <1>9, <1>5 DEF retire_deployment
  <1> QED BY <1>1, <1>3, <1>4, <1>6, <1>7, <1>8, <1>9 DEF DeploymentCall

\* TypeOK is inductive.
LEMMA NextType == TypeOK /\ [Next]_vars => TypeOK'
  <1>1. TypeOK /\ UNCHANGED vars => TypeOK'
    BY DEF TypeOK, vars
  <1> QED BY <1>1, DeviceCallType, CatalogCallType, WorkerCallType,
             DeploymentCallType, RecoveryCallType DEF Next

\* Every reachable state is well typed: in particular no ledger counter
\* leaves its width, every id is below the generator, and the tables hold
\* only what the handlers expect to find.
THEOREM TypeCorrect == Spec => []TypeOK
  BY InitType, NextType, PTL DEF Spec

-----------------------------------------------------------------------------
(* Authority *)

\* Neither has authority nor is about to get it.
Idle == DeploymentState \ {"ACTIVE", "ACTIVATING"}
Spent == ActivationState \ {"ACTIVE", "PENDING"}

\* What x was reserved for, which no call changes.
SameReservation(x) ==
  /\ deployments'[x].generation = deployments[x].generation
  /\ deployments'[x].device = deployments[x].device
  /\ deployments'[x].device_boot = deployments[x].device_boot
  /\ deployments'[x].service = deployments[x].service
  /\ deployments'[x].service_gen = deployments[x].service_gen
  /\ deployments'[x].program = deployments[x].program
  /\ deployments'[x].program_gen = deployments[x].program_gen
  /\ deployments'[x].worker_boot = deployments[x].worker_boot

\* What Deployments(S, to) does to one deployment.
LEMMA DeploymentsAt ==
  ASSUME TypeOK, NEW S, NEW to \in DeploymentState,
         deployments' = Deployments(S, to)
  PROVE  /\ DOMAIN deployments' = DOMAIN deployments
         /\ \A x \in DOMAIN deployments :
              /\ deployments'[x].state =
                   IF x \in S THEN to ELSE deployments[x].state
              /\ deployments'[x].authoritative =
                   IF x \in S THEN FALSE ELSE deployments[x].authoritative
              /\ deployments'[x].activation = deployments[x].activation
              /\ deployments'[x].activation_gen = deployments[x].activation_gen
              /\ deployments'[x].epoch = deployments[x].epoch
              /\ SameReservation(x)
  <1>1. \A x \in DOMAIN deployments : deployments[x] \in Deployment
    BY DEF TypeOK
  <1> QED BY <1>1 DEF Deployments, Deployment, SameReservation

\* What Activations(S, s) does to one activation.
LEMMA ActivationsAt ==
  ASSUME TypeOK, NEW S, NEW s \in ActivationState,
         activations' = Activations(S, s)
  PROVE  /\ DOMAIN activations' = DOMAIN activations
         /\ \A a \in DOMAIN activations :
              /\ activations'[a].state =
                   IF \E x \in S : deployments[x].activation = a
                   THEN s ELSE activations[a].state
              /\ activations'[a].deployment_id = activations[a].deployment_id
              /\ activations'[a].activation_gen = activations[a].activation_gen
              /\ activations'[a].authority = activations[a].authority
  <1>1. \A a \in DOMAIN activations : activations[a] \in ActivationRecord
    BY DEF TypeOK
  <1> QED BY <1>1 DEF Activations, ActivationRecord

\* Taking authority away from any set of deployments, together with their
\* activations, keeps the tables in agreement.
LEMMA MoveBinding ==
  ASSUME TypeOK, AuthorityBinding,
         NEW S \in SUBSET DOMAIN deployments, NEW to \in Idle, NEW s \in Spent,
         deployments' = Deployments(S, to), activations' = Activations(S, s)
  PROVE  AuthorityBinding'
  <1>1. to \in DeploymentState /\ s \in ActivationState
    BY DEF Idle, Spent
  <1>2. to \notin {"ACTIVE", "ACTIVATING"} /\ s \notin {"ACTIVE", "PENDING"}
    BY DEF Idle, Spent
  <1>3. /\ DOMAIN deployments' = DOMAIN deployments
        /\ DOMAIN activations' = DOMAIN activations
    BY <1>1, DeploymentsAt, ActivationsAt
  <1>4. \A x \in DOMAIN deployments :
          /\ deployments'[x].state = IF x \in S THEN to ELSE deployments[x].state
          /\ deployments'[x].authoritative =
               IF x \in S THEN FALSE ELSE deployments[x].authoritative
          /\ deployments'[x].activation = deployments[x].activation
          /\ deployments'[x].activation_gen = deployments[x].activation_gen
          /\ deployments'[x].epoch = deployments[x].epoch
          /\ SameReservation(x)
    BY <1>1, DeploymentsAt
  <1>6. ASSUME NEW x \in DOMAIN deployments
        PROVE  DeploymentBound(x)'
    <2> DEFINE a == deployments[x].activation
    <2>1. DeploymentBound(x)
      BY DEF AuthorityBinding
    <2>2. /\ deployments'[x].state = IF x \in S THEN to ELSE deployments[x].state
          /\ deployments'[x].authoritative =
               IF x \in S THEN FALSE ELSE deployments[x].authoritative
          /\ deployments'[x].activation = a
          /\ deployments'[x].activation_gen = deployments[x].activation_gen
          /\ deployments'[x].epoch = deployments[x].epoch
          /\ SameReservation(x)
      BY <1>4
    <2>3. CASE a = 0
      BY <2>1, <2>2, <2>3, <1>2 DEF DeploymentBound, ActivationOf
    <2>4. CASE a # 0
      <3>1. /\ a \in DOMAIN activations
            /\ activations[a].deployment_id = x
            /\ activations[a].activation_gen = deployments[x].activation_gen
        BY <2>1, <2>4 DEF DeploymentBound, ActivationOf
      <3>2. /\ activations'[a].deployment_id = x
            /\ activations'[a].activation_gen = deployments[x].activation_gen
            /\ activations'[a].authority = activations[a].authority
        BY <3>1, <1>1, ActivationsAt
      <3>3. ActivationOf(x)'
        BY <3>1, <3>2, <2>2, <1>3 DEF ActivationOf
      <3>4. CASE x \in S
        BY <3>3, <3>4, <2>2, <1>2 DEF DeploymentBound
      <3>5. CASE x \notin S
        <4>1. ~ \E y \in S : deployments[y].activation = a
          BY <3>1, <3>5, <2>4 DEF AuthorityBinding, DeploymentBound, ActivationOf
        <4>2. activations'[a].state = activations[a].state
          BY <4>1, <3>1, <1>1, ActivationsAt
        <4>3. Binds(activations[a].authority, deployments[x])
                => Binds(activations[a].authority, deployments[x])'
          BY <3>2, <2>2 DEF Binds, SameReservation
        <4> QED BY <4>2, <4>3, <3>2, <3>3, <3>5, <2>1, <2>2, <2>4
                DEF DeploymentBound, Binds
      <3> QED BY <3>4, <3>5
    <2> QED BY <2>3, <2>4
  <1>5. ASSUME NEW a \in DOMAIN activations
        PROVE  ActivationBound(a)'
    <2> DEFINE x == activations[a].deployment_id
    <2>1. ActivationBound(a)
      BY DEF AuthorityBinding
    <2>2. /\ x \in DOMAIN deployments
          /\ activations'[a].deployment_id = x
          /\ activations'[a].state =
               IF \E y \in S : deployments[y].activation = a
               THEN s ELSE activations[a].state
      BY <2>1, <1>1, ActivationsAt DEF ActivationBound
    <2>3. /\ deployments'[x].state = IF x \in S THEN to ELSE deployments[x].state
          /\ deployments'[x].activation = deployments[x].activation
      BY <2>2, <1>4
    <2> QED BY <2>1, <2>2, <2>3, <1>2, <1>3 DEF ActivationBound
  <1> QED BY <1>3, <1>5, <1>6 DEF AuthorityBinding

\* Moving a deployment that has no grant and no pending activation, and
\* leaving the activation table alone, keeps the tables in agreement.
LEMMA IdleBinding ==
  ASSUME TypeOK, AuthorityBinding,
         NEW x \in DOMAIN deployments, deployments[x].state \in Idle,
         NEW to \in Idle,
         deployments' = Deployments({x}, to), activations' = activations
  PROVE  AuthorityBinding'
  <1>1. /\ to \in DeploymentState
        /\ to \notin {"ACTIVE", "ACTIVATING"}
        /\ deployments[x].state \notin {"ACTIVE", "ACTIVATING"}
    BY DEF Idle
  <1>2. DOMAIN deployments' = DOMAIN deployments
    BY <1>1, DeploymentsAt
  <1>3. \A y \in DOMAIN deployments :
          /\ deployments'[y].state = IF y \in {x} THEN to ELSE deployments[y].state
          /\ deployments'[y].authoritative =
               IF y \in {x} THEN FALSE ELSE deployments[y].authoritative
          /\ deployments'[y].activation = deployments[y].activation
          /\ deployments'[y].activation_gen = deployments[y].activation_gen
          /\ deployments'[y].epoch = deployments[y].epoch
          /\ SameReservation(y)
    BY <1>1, DeploymentsAt
  <1>4. ASSUME NEW y \in DOMAIN deployments
        PROVE  DeploymentBound(y)'
    <2>1. DeploymentBound(y)
      BY DEF AuthorityBinding
    <2>2. ActivationOf(y)'
      BY <2>1, <1>3 DEF DeploymentBound, ActivationOf
    <2>3. CASE y = x
      BY <2>2, <2>3, <1>1, <1>3 DEF DeploymentBound
    <2>4. CASE y # x
      BY <2>1, <2>2, <2>4, <1>3 DEF DeploymentBound, Binds, SameReservation
    <2> QED BY <2>3, <2>4
  <1>5. ASSUME NEW a \in DOMAIN activations
        PROVE  ActivationBound(a)'
    <2>1. ActivationBound(a)
      BY DEF AuthorityBinding
    <2> QED BY <2>1, <1>1, <1>2, <1>3 DEF ActivationBound
  <1> QED BY <1>2, <1>4, <1>5 DEF AuthorityBinding

\* A step that leaves both tables alone.
LEMMA SameBinding ==
  ASSUME AuthorityBinding, UNCHANGED <<deployments, activations>>
  PROVE  AuthorityBinding'
  BY DEF AuthorityBinding, DeploymentBound, ActivationBound, ActivationOf, Binds

\* reserve_deployment adds a deployment under an id no table has seen.
LEMMA ReserveBinding ==
  ASSUME TypeOK, AuthorityBinding, NEW d, NEW req, reserve_deployment(d, req)
  PROVE  AuthorityBinding'
  <1>1. activations' = activations
    BY DEF reserve_deployment
  <1>2. CASE deployments' = deployments
    BY <1>1, <1>2, SameBinding
  <1>3. CASE deployments' # deployments
    <2>1. PICK dep :
            /\ deployments' = Put(deployments, id_seq, dep)
            /\ dep.state = "RESERVED"
            /\ dep.authoritative = FALSE
            /\ dep.activation = 0
      BY <1>3 DEF reserve_deployment
    <2>2. id_seq \notin DOMAIN deployments
      BY DEF TypeOK
    <2>3. /\ DOMAIN deployments' = DOMAIN deployments \cup {id_seq}
          /\ deployments'[id_seq] = dep
          /\ \A x \in DOMAIN deployments : deployments'[x] = deployments[x]
      BY <2>1, <2>2 DEF Put
    <2>4. ASSUME NEW n, n = id_seq
          PROVE  DeploymentBound(n)'
      BY <2>1, <2>3, <2>4 DEF DeploymentBound, ActivationOf
    <2>5. ASSUME NEW x \in DOMAIN deployments
          PROVE  DeploymentBound(x)'
      BY <1>1, <2>3 DEF AuthorityBinding, DeploymentBound, ActivationOf, Binds
    <2>6. ASSUME NEW a \in DOMAIN activations
          PROVE  ActivationBound(a)'
      BY <1>1, <2>3 DEF AuthorityBinding, ActivationBound
    <2> QED BY <1>1, <2>3, <2>4, <2>5, <2>6 DEF AuthorityBinding
  <1> QED BY <1>2, <1>3

\* A new activation n, under an id no table has seen, of the deployment's
\* next generation.
Activates(x, n) ==
  /\ n \in 1 .. MaxId
  /\ n \notin DOMAIN activations
  /\ deployments[x].state = "VALIDATING"
  /\ DOMAIN activations' = DOMAIN activations \cup {n}
  /\ activations'[n].deployment_id = x
  /\ activations'[n].activation_gen = deployments[x].activation_gen + 1
  /\ activations'[n].state = "PENDING"
  /\ activations'[n].authority.activation_gen = 0
  /\ \A a \in DOMAIN activations : activations'[a] = activations[a]
  /\ DOMAIN deployments' = DOMAIN deployments
  /\ deployments'[x].state = "ACTIVATING"
  /\ deployments'[x].authoritative = FALSE
  /\ deployments'[x].activation = n
  /\ deployments'[x].activation_gen = deployments[x].activation_gen + 1
  /\ SameReservation(x)
  /\ \A y \in DOMAIN deployments \ {x} : deployments'[y] = deployments[y]

\* What activate_deployment does to the tables: a new activation under an id
\* no table has seen, of the deployment's next generation.
LEMMA ActivateAt ==
  ASSUME TypeOK, NEW x \in DOMAIN deployments, activate_deployment(x)
  PROVE  \E n : Activates(x, n)
  <1>0. PICK n : n = id_seq
    OBVIOUS
  <1>1. /\ n \in 1 .. MaxId
        /\ n \notin DOMAIN activations
        /\ deployments[x].state = "VALIDATING"
    BY <1>0, EngineAssumption
       DEF activate_deployment, valid_deployment_transition, TypeOK
  <1> DEFINE act == [deployment_id |-> x,
                     activation_gen |-> deployments[x].activation_gen + 1,
                     state |-> "PENDING", authority |-> NoAuthority]
  <1>2. activations' = Put(activations, n, act)
    BY <1>0 DEF activate_deployment, next_generation
  <1>3. /\ act.deployment_id = x
        /\ act.activation_gen = deployments[x].activation_gen + 1
        /\ act.state = "PENDING"
        /\ act.authority.activation_gen = 0
    BY DEF NoAuthority
  <1> HIDE DEF act
  <1>4. /\ DOMAIN activations' = DOMAIN activations \cup {n}
        /\ activations'[n] = act
        /\ \A a \in DOMAIN activations : activations'[a] = activations[a]
    BY <1>1, <1>2 DEF Put
  <1>5. deployments[x] \in Deployment
    BY DEF TypeOK
  <1>6. /\ DOMAIN deployments' = DOMAIN deployments
        /\ deployments'[x].state = "ACTIVATING"
        /\ deployments'[x].authoritative = FALSE
        /\ deployments'[x].activation = n
        /\ deployments'[x].activation_gen = deployments[x].activation_gen + 1
        /\ SameReservation(x)
        /\ \A y \in DOMAIN deployments \ {x} : deployments'[y] = deployments[y]
    BY <1>0, <1>5 DEF activate_deployment, next_generation, TypeOK, Deployment,
                       SameReservation
  <1>7. Activates(x, n)
    BY <1>1, <1>3, <1>4, <1>6 DEF Activates
  <1> QED BY <1>7

\* activate_deployment keeps the tables in agreement: the activation that the
\* deployment named before was neither granted nor pending.
LEMMA ActivateBinding ==
  ASSUME TypeOK, AuthorityBinding, NEW x, activate_deployment(x)
  PROVE  AuthorityBinding'
  <1>1. x \in DOMAIN deployments
    BY DEF activate_deployment
  <1>2. PICK n : Activates(x, n)
    BY <1>1, ActivateAt
  <1>3. /\ n # 0
        /\ n \notin DOMAIN activations
        /\ deployments[x].state = "VALIDATING"
        /\ DOMAIN activations' = DOMAIN activations \cup {n}
        /\ activations'[n].deployment_id = x
        /\ activations'[n].state = "PENDING"
        /\ activations'[n].activation_gen = deployments'[x].activation_gen
        /\ \A a \in DOMAIN activations : activations'[a] = activations[a]
        /\ DOMAIN deployments' = DOMAIN deployments
        /\ deployments'[x].state = "ACTIVATING"
        /\ deployments'[x].authoritative = FALSE
        /\ deployments'[x].activation = n
        /\ \A y \in DOMAIN deployments \ {x} : deployments'[y] = deployments[y]
    BY <1>2 DEF Activates
  <1>4. DeploymentBound(x)'
    BY <1>1, <1>3 DEF DeploymentBound, ActivationOf
  <1>5. ASSUME NEW y \in DOMAIN deployments \ {x}
        PROVE  DeploymentBound(y)'
    <2>1. DeploymentBound(y)
      BY DEF AuthorityBinding
    <2> QED BY <2>1, <1>3 DEF DeploymentBound, ActivationOf, Binds
  <1>6. ActivationBound(n)'
    BY <1>1, <1>3 DEF ActivationBound
  <1>7. ASSUME NEW a \in DOMAIN activations
        PROVE  ActivationBound(a)'
    <2>1. ActivationBound(a)
      BY DEF AuthorityBinding
    <2> QED BY <2>1, <1>3 DEF ActivationBound
  <1> QED BY <1>3, <1>4, <1>5, <1>6, <1>7 DEF AuthorityBinding

\* The authority that was composed is recorded in the pending activation a
\* that the deployment names.
Commits(x, a) ==
  /\ a = deployments[x].activation
  /\ deployments[x].state = "ACTIVATING"
  /\ a # 0
  /\ a \in DOMAIN activations
  /\ activations[a].deployment_id = x
  /\ activations[a].activation_gen = deployments[x].activation_gen
  /\ activations[a].state = "PENDING"
  /\ DOMAIN activations' = DOMAIN activations
  /\ activations'[a].deployment_id = x
  /\ activations'[a].activation_gen = deployments[x].activation_gen
  /\ activations'[a].state = "ACTIVE"
  /\ activations'[a].authority = Authority(x)
  /\ \A b \in DOMAIN activations \ {a} : activations'[b] = activations[b]
  /\ DOMAIN deployments' = DOMAIN deployments
  /\ deployments'[x].state = "ACTIVE"
  /\ deployments'[x].authoritative = TRUE
  /\ deployments'[x].activation = a
  /\ deployments'[x].activation_gen = deployments[x].activation_gen
  /\ deployments'[x].epoch = epoch
  /\ SameReservation(x)
  /\ \A y \in DOMAIN deployments \ {x} : deployments'[y] = deployments[y]

\* What commit_deployment does to the tables: it finds the pending activation
\* that it dereferences, and records in it the authority it composed.
LEMMA CommitAt ==
  ASSUME TypeOK, AuthorityBinding, NEW x \in DOMAIN deployments,
         commit_deployment(x)
  PROVE  \E a : Commits(x, a)
  <1>0. PICK a : a = deployments[x].activation
    OBVIOUS
  <1>1. deployments[x].state = "ACTIVATING"
    BY DEF commit_deployment, Committable
  <1>2. DeploymentBound(x)
    BY DEF AuthorityBinding
  <1>3. /\ a # 0
        /\ a \in DOMAIN activations
        /\ activations[a].deployment_id = x
        /\ activations[a].activation_gen = deployments[x].activation_gen
        /\ activations[a].state = "PENDING"
    BY <1>0, <1>1, <1>2 DEF DeploymentBound, ActivationOf
  <1>4. activations' = [activations EXCEPT ![a].authority = Authority(x),
                                           ![a].state = "ACTIVE"]
    BY <1>0, <1>3 DEF commit_deployment, ActivationRead
  <1>5. activations[a] \in ActivationRecord /\ deployments[x] \in Deployment
    BY <1>3 DEF TypeOK
  <1>6. /\ DOMAIN activations' = DOMAIN activations
        /\ activations'[a].deployment_id = x
        /\ activations'[a].activation_gen = deployments[x].activation_gen
        /\ activations'[a].state = "ACTIVE"
        /\ activations'[a].authority = Authority(x)
        /\ \A b \in DOMAIN activations \ {a} : activations'[b] = activations[b]
    BY <1>3, <1>4, <1>5 DEF TypeOK, ActivationRecord
  <1>7. /\ DOMAIN deployments' = DOMAIN deployments
        /\ deployments'[x].state = "ACTIVE"
        /\ deployments'[x].authoritative = TRUE
        /\ deployments'[x].activation = a
        /\ deployments'[x].activation_gen = deployments[x].activation_gen
        /\ deployments'[x].epoch = epoch
        /\ SameReservation(x)
        /\ \A y \in DOMAIN deployments \ {x} : deployments'[y] = deployments[y]
    BY <1>0, <1>5 DEF commit_deployment, TypeOK, Deployment,
                       SameReservation
  <1>8. Commits(x, a)
    BY <1>0, <1>1, <1>3, <1>6, <1>7 DEF Commits
  <1> QED BY <1>8

\* commit_deployment keeps the tables in agreement: the authority it grants
\* binds the deployment, and no other deployment names that activation.
LEMMA CommitBinding ==
  ASSUME TypeOK, AuthorityBinding, NEW x, commit_deployment(x)
  PROVE  AuthorityBinding'
  <1>1. x \in DOMAIN deployments
    BY DEF commit_deployment
  <1>2. PICK a : Commits(x, a)
    BY <1>1, CommitAt
  <1>3. /\ a = deployments[x].activation
        /\ deployments[x].state = "ACTIVATING"
        /\ a # 0
        /\ a \in DOMAIN activations
        /\ activations[a].deployment_id = x
    BY <1>2 DEF Commits
  <1>4. /\ DOMAIN activations' = DOMAIN activations
        /\ activations'[a].deployment_id = x
        /\ activations'[a].activation_gen = deployments[x].activation_gen
        /\ activations'[a].state = "ACTIVE"
        /\ activations'[a].authority = Authority(x)
        /\ \A b \in DOMAIN activations \ {a} : activations'[b] = activations[b]
    BY <1>2 DEF Commits
  <1>5. /\ DOMAIN deployments' = DOMAIN deployments
        /\ deployments'[x].state = "ACTIVE"
        /\ deployments'[x].authoritative = TRUE
        /\ deployments'[x].activation = a
        /\ deployments'[x].activation_gen = deployments[x].activation_gen
        /\ deployments'[x].epoch = epoch
        /\ SameReservation(x)
        /\ \A y \in DOMAIN deployments \ {x} : deployments'[y] = deployments[y]
    BY <1>2 DEF Commits
  <1>6. DeploymentBound(x)'
    <2>1. Binds(activations[a].authority, deployments[x])'
      BY <1>4, <1>5 DEF Authority, Binds, SameReservation
    <2> QED BY <2>1, <1>3, <1>4, <1>5 DEF DeploymentBound, ActivationOf
  <1>7. ASSUME NEW y \in DOMAIN deployments \ {x}
        PROVE  DeploymentBound(y)'
    <2>1. DeploymentBound(y)
      BY DEF AuthorityBinding
    <2>2. deployments[y].activation # a
      BY <2>1, <1>3 DEF DeploymentBound, ActivationOf
    <2> QED BY <2>1, <2>2, <1>4, <1>5 DEF DeploymentBound, ActivationOf, Binds
  <1>8. ActivationBound(a)'
    BY <1>1, <1>4, <1>5 DEF ActivationBound
  <1>9. ASSUME NEW b \in DOMAIN activations \ {a}
        PROVE  ActivationBound(b)'
    <2>1. ActivationBound(b)
      BY DEF AuthorityBinding
    <2> QED BY <2>1, <1>1, <1>3, <1>4, <1>5 DEF ActivationBound
  <1> QED BY <1>4, <1>5, <1>6, <1>7, <1>8, <1>9 DEF AuthorityBinding

\* do_deploy_transition, for the three targets its callers pass.
LEMMA TransitionBinding ==
  ASSUME TypeOK, AuthorityBinding, NEW x \in DOMAIN deployments,
         NEW to \in {"STAGING", "LOADED", "VALIDATING"},
         do_deploy_transition(x, to), activations' = activations
  PROVE  AuthorityBinding'
  <1>1. deployments[x].state \in Idle /\ to \in Idle
    BY DEF do_deploy_transition, valid_deployment_transition, Idle,
           DeploymentState
  <1>2. deployments' = Deployments({x}, to)
    BY DEF do_deploy_transition, Deployments, TypeOK
  <1> QED BY <1>1, <1>2, IdleBinding

\* Fencing any set of deployments.
LEMMA FenceBinding ==
  ASSUME TypeOK, AuthorityBinding, NEW S \in SUBSET DOMAIN deployments, Fence(S)
  PROVE  AuthorityBinding'
  <1>1. "REVALIDATION_REQUIRED" \in Idle /\ "STALE" \in Spent
    BY DEF Idle, Spent, DeploymentState, ActivationState
  <1> QED BY <1>1, MoveBinding DEF Fence

\* The calls that act on one deployment.
LEMMA DeploymentCallBinding ==
  ASSUME TypeOK, AuthorityBinding, DeploymentCall
  PROVE  AuthorityBinding'
  <1>1. ASSUME NEW d \in Devices, NEW req \in Requests,
               reserve_deployment(d, req)
        PROVE  AuthorityBinding'
    BY <1>1, ReserveBinding
  <1>2. ASSUME NEW x \in DOMAIN deployments,
               stage_deployment(x) \/ load_deployment(x) \/ validate_deployment(x)
        PROVE  AuthorityBinding'
    BY <1>2, TransitionBinding
       DEF stage_deployment, load_deployment, validate_deployment
  <1>3. ASSUME NEW x \in DOMAIN deployments,
               cancel_deployment(x) \/ rollback_deployment(x)
        PROVE  AuthorityBinding'
    <2>1. "ABORTED" \in Idle /\ "CANCELLED" \in Spent
      BY DEF Idle, Spent, DeploymentState, ActivationState
    <2>2. /\ deployments' = Deployments({x}, "ABORTED")
          /\ activations' = Activations({x}, "CANCELLED")
      BY <1>3 DEF cancel_deployment, rollback_deployment
    <2> QED BY <2>1, <2>2, MoveBinding
  <1>4. ASSUME NEW x \in DOMAIN deployments, drain_deployment(x)
        PROVE  AuthorityBinding'
    <2>1. "DRAINING" \in Idle /\ "DRAINING" \in Spent
      BY DEF Idle, Spent, DeploymentState, ActivationState
    <2> QED BY <2>1, <1>4, MoveBinding DEF drain_deployment
  <1>5. ASSUME NEW x \in DOMAIN deployments, retire_deployment(x)
        PROVE  AuthorityBinding'
    <2>1. "RETIRED" \in Idle /\ "RETIRED" \in Spent
      BY DEF Idle, Spent, DeploymentState, ActivationState
    <2>2. CASE deployments[x].state \in HeldUntilRetired
      BY <2>1, <2>2, <1>5, MoveBinding DEF retire_deployment
    <2>3. CASE deployments[x].state \notin HeldUntilRetired
      <3>1. deployments[x].state \in Idle
        BY <2>3, <1>5 DEF retire_deployment, Retirable, HeldUntilRetired, Idle,
                      DeploymentState
      <3> QED BY <3>1, <2>1, <2>3, <1>5, IdleBinding DEF retire_deployment
    <2> QED BY <2>2, <2>3
  <1>6. ASSUME NEW x \in DOMAIN deployments, fail_deployment(x)
        PROVE  AuthorityBinding'
    <2>1. "FAILED" \in Idle /\ "STALE" \in Spent
      BY DEF Idle, Spent, DeploymentState, ActivationState
    <2> QED BY <2>1, <1>6, MoveBinding DEF fail_deployment
  <1> QED BY <1>1, <1>2, <1>3, <1>4, <1>5, <1>6, ActivateBinding,
             CommitBinding DEF DeploymentCall

\* The calls that act on devices: they leave the tables alone or fence.
LEMMA DeviceCallBinding ==
  ASSUME TypeOK, AuthorityBinding, DeviceCall
  PROVE  AuthorityBinding'
  <1>1. ASSUME NEW rec, register_device(rec) \/ update_device(rec)
        PROVE  AuthorityBinding'
    BY <1>1, SameBinding DEF register_device, update_device
  <1>2. ASSUME NEW d \in Devices,
               retire_device(d) \/ fence_device(d)
        PROVE  AuthorityBinding'
    BY <1>2, FenceBinding DEF retire_device, fence_device, OnDevice
  <1>3. ASSUME NEW d \in Devices, NEW to \in Lifecycle,
               transition_device(d, to)
        PROVE  AuthorityBinding'
    BY <1>3, FenceBinding, SameBinding DEF transition_device, OnDevice
  <1>4. ASSUME NEW d \in Devices, NEW s, NEW k, set_device_state(d, s, k)
        PROVE  AuthorityBinding'
    BY <1>4, SameBinding DEF set_device_state
  <1> QED BY <1>1, <1>2, <1>3, <1>4 DEF DeviceCall

\* TypeOK and AuthorityBinding together are inductive.
LEMMA NextBinding ==
  ASSUME TypeOK, AuthorityBinding, [Next]_vars
  PROVE  AuthorityBinding'
  <1>1. CASE CatalogCall
    BY <1>1, SameBinding
       DEF CatalogCall, register_service, register_program, retire_program
  <1>2. CASE WorkerCall
    <2>1. ASSUME NEW w \in Workers, mark_worker_lost(w)
          PROVE  AuthorityBinding'
      BY <2>1, FenceBinding DEF mark_worker_lost
    <2> QED BY <2>1, <1>2, SameBinding DEF WorkerCall, register_worker
  <1>3. CASE RecoveryCall
    <2>1. CASE advance_epoch
      BY <2>1, SameBinding DEF advance_epoch
    <2>2. ASSUME NEW policy, apply_recovery(policy)
          PROVE  AuthorityBinding'
      BY <2>2, FenceBinding DEF apply_recovery
    <2> QED BY <2>1, <2>2, <1>3 DEF RecoveryCall
  <1>4. CASE UNCHANGED vars
    BY <1>4, SameBinding DEF vars
  <1> QED BY <1>1, <1>2, <1>3, <1>4, DeviceCallBinding, DeploymentCallBinding
          DEF Next

\* Whatever calls interleave, the deployment table and the activation table
\* agree about who has authority, and commit_deployment never dereferences
\* an empty optional: no deployment is ACTIVATING without its activation.
THEOREM AuthorityBound == Spec => []AuthorityBinding
  <1>1. Init => AuthorityBinding
    BY EmptyMapType DEF Init, AuthorityBinding
  <1>2. TypeOK /\ AuthorityBinding /\ [Next]_vars => AuthorityBinding'
    BY NextBinding
  <1> QED BY <1>1, <1>2, TypeCorrect, PTL DEF Spec
=============================================================================

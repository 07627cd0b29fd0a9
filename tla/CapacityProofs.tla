--------------------------- MODULE CapacityProofs ---------------------------
(***************************************************************************)
(* Proofs about capacity: the ledgers never exceed a limited one, sums     *)
(* that wrap included; they count exactly what the deployments hold, for   *)
(* callers that release nothing twice; and what evaluate_offload decides   *)
(* on the records agrees with what the calls after it decide on the        *)
(* ledgers.                                                                *)
(***************************************************************************)
EXTENDS EngineProofs, EngineClaims, Eligibility

-----------------------------------------------------------------------------
(* The limit *)

\* Between the states of a step no ledger grows or changes its capacity.
LedgersShrink ==
  /\ DOMAIN ledgers' = DOMAIN ledgers
  /\ \A d \in DOMAIN ledgers : /\ ledgers'[d].cap = ledgers[d].cap
                               /\ LeqUsage(ledgers'[d].used, ledgers[d].used)

\* A step that only releases keeps the bound.
LEMMA ShrinkCapacity ==
  ASSUME TypeOK, TypeOK', LedgerWithinCapacity, LedgersShrink
  PROVE  LedgerWithinCapacity'
  <1> SUFFICES ASSUME NEW d \in DOMAIN ledgers, NEW i \in Dims,
                      ledgers'[d].cap[i] # 0
               PROVE  ledgers'[d].used[i] <= ledgers'[d].cap[i]
    BY DEF LedgerWithinCapacity, LedgersShrink
  <1>1. /\ ledgers'[d].cap = ledgers[d].cap
        /\ ledgers'[d].used[i] <= ledgers[d].used[i]
    BY DEF LedgersShrink, LeqUsage
  <1>2. ledgers[d].used[i] <= ledgers[d].cap[i]
    BY <1>1 DEF LedgerWithinCapacity
  <1>3. ledgers[d] \in Ledger /\ ledgers'[d] \in Ledger
    BY DEF TypeOK, LedgersShrink
  <1>4. /\ ledgers[d].used[i] \in Int
        /\ ledgers[d].cap[i] \in Int
        /\ ledgers'[d].used[i] \in Int
    BY <1>3, LedgerAssumption DEF Ledger, Usage, Quantity
  <1> QED BY <1>1, <1>2, <1>4

\* A step that leaves the ledgers alone keeps the bound.
LEMMA SameCapacity ==
  ASSUME LedgerWithinCapacity, ledgers' = ledgers
  PROVE  LedgerWithinCapacity'
  BY DEF LedgerWithinCapacity

\* Replacing one ledger's usage by a smaller one is a shrink.
LEMMA OneShrinks ==
  ASSUME TypeOK, NEW d \in DOMAIN ledgers, NEW u \in Usage,
         LeqUsage(u, ledgers[d].used),
         ledgers' = [ledgers EXCEPT ![d].used = u]
  PROVE  LedgersShrink
  <1>1. \A e \in DOMAIN ledgers : ledgers[e] \in Ledger
    BY DEF TypeOK
  <1>2. \A e \in DOMAIN ledgers : LeqUsage(ledgers[e].used, ledgers[e].used)
    BY <1>1, LeqUsageOrder DEF Ledger
  <1> QED BY <1>1, <1>2 DEF LedgersShrink, Ledger, TypeOK

\* release_resources only shrinks.
LEMMA ReleaseShrinks ==
  ASSUME TypeOK, NEW x \in DOMAIN deployments, release_resources(x)
  PROVE  LedgersShrink \/ ledgers' = ledgers
  <1> DEFINE d == deployments[x].device
  <1>1. CASE d \in DOMAIN ledgers
    <2>1. ledgers[d].used \in Usage /\ deployments[x].resources \in Usage
      BY <1>1 DEF TypeOK, Ledger, Deployment
    <2> DEFINE u == release(ledgers[d].used, deployments[x].resources)
    <2>2. u \in Usage /\ LeqUsage(u, ledgers[d].used)
      BY <2>1, ReleaseType
    <2>3. ledgers' = [ledgers EXCEPT ![d].used = u]
      BY <1>1 DEF release_resources
    <2> HIDE DEF u, d
    <2> QED BY <2>2, <2>3, <1>1, OneShrinks
  <1>2. CASE d \notin DOMAIN ledgers
    BY <1>2 DEF release_resources
  <1> QED BY <1>1, <1>2

\* So does the loop of retire_device.
LEMMA RetireDeviceShrinks ==
  ASSUME TypeOK, NEW d \in Devices, retire_device(d)
  PROVE  LedgersShrink
  <1> DEFINE S == OnDevice(d, {"ACTIVE", "DEGRADED", "DRAINING"})
  <1> DEFINE req == [x \in S |-> deployments[x].resources]
  <1> DEFINE u == ReleaseEach(ledgers[d].used, req, S, MaxId)
  <1>1. d \in DOMAIN ledgers
    BY DEF retire_device, TypeOK
  <1>2. ledgers[d].used \in Usage
    BY <1>1 DEF TypeOK, Ledger
  <1>3. req \in [S -> Usage]
    BY DEF TypeOK, Deployment, OnDevice
  <1>4. ledgers' = [ledgers EXCEPT ![d].used = u]
    BY <1>1 DEF retire_device
  <1>5. MaxId \in Nat
    BY EngineAssumption
  <1> HIDE DEF S, req
  <1>6. u \in Usage /\ LeqUsage(u, ledgers[d].used)
    BY <1>2, <1>3, <1>5, ReleaseEachType
  <1> HIDE DEF u
  <1> QED BY <1>1, <1>4, <1>6, OneShrinks

\* A reservation that the ledger grants fits, wrapped sums included.
LEMMA ReserveCapacity ==
  ASSUME TypeOK, LedgerWithinCapacity, NEW d \in Devices,
         NEW req \in Requests, reserve_deployment(d, req)
  PROVE  LedgerWithinCapacity'
  <1>1. CASE ledgers' = ledgers
    BY <1>1, SameCapacity
  <1>2. CASE ledgers' # ledgers
    <2>1. PICK rr : /\ d \in DOMAIN ledgers
                    /\ can_reserve(ledgers[d].cap, ledgers[d].used, rr)
                    /\ ledgers' = [ledgers EXCEPT ![d].used = apply(@, rr)]
      BY <1>2 DEF reserve_deployment
    <2>2. /\ DOMAIN ledgers' = DOMAIN ledgers
          /\ ledgers'[d].cap = ledgers[d].cap
          /\ ledgers'[d].used = apply(ledgers[d].used, rr)
          /\ \A e \in DOMAIN ledgers \ {d} : ledgers'[e] = ledgers[e]
      BY <2>1 DEF TypeOK, Ledger
    <2> SUFFICES ASSUME NEW e \in DOMAIN ledgers, NEW i \in Dims,
                        ledgers'[e].cap[i] # 0
                 PROVE  ledgers'[e].used[i] <= ledgers'[e].cap[i]
      BY <2>2 DEF LedgerWithinCapacity
    <2>3. CASE e = d
      BY <2>1, <2>2, <2>3 DEF can_reserve, apply
    <2>4. CASE e # d
      BY <2>2, <2>4 DEF LedgerWithinCapacity
    <2> QED BY <2>3, <2>4
  <1> QED BY <1>1, <1>2

\* A new device's ledger is empty.
LEMMA RegisterCapacity ==
  ASSUME TypeOK, LedgerWithinCapacity, NEW rec \in Registrations,
         register_device(rec)
  PROVE  LedgerWithinCapacity'
  <1> DEFINE d == rec.device_id
  <1>1. rec.resource_capacity \in Usage
    BY EngineAssumption DEF DeviceRecord
  <1>2. d \notin DOMAIN ledgers
    BY DEF TypeOK, register_device
  <1>3. /\ DOMAIN ledgers' = DOMAIN ledgers \cup {d}
        /\ ledgers'[d] = [cap |-> rec.resource_capacity, used |-> NoUsage]
        /\ \A e \in DOMAIN ledgers : ledgers'[e] = ledgers[e]
    BY <1>2 DEF register_device, Put
  <1>4. ASSUME NEW i \in Dims
        PROVE  ledgers'[d].used[i] <= ledgers'[d].cap[i]
    BY <1>1, <1>3, LedgerAssumption DEF NoUsage, Usage, Quantity
  <1> QED BY <1>3, <1>4 DEF LedgerWithinCapacity

\* TypeOK and LedgerWithinCapacity together are inductive.
LEMMA NextCapacity ==
  ASSUME TypeOK, TypeOK', LedgerWithinCapacity, [Next]_vars
  PROVE  LedgerWithinCapacity'
  <1>1. CASE DeviceCall
    <2>1. ASSUME NEW d \in Devices, retire_device(d)
          PROVE  LedgerWithinCapacity'
      BY <2>1, RetireDeviceShrinks, ShrinkCapacity
    <2>2. ASSUME \/ \E rec \in Updates : update_device(rec)
                 \/ \E d \in Devices :
                      \/ fence_device(d)
                      \/ \E to \in Lifecycle : transition_device(d, to)
                      \/ \E s \in CapabilityState, k \in Keys :
                           set_device_state(d, s, k)
          PROVE  LedgerWithinCapacity'
      BY <2>2, SameCapacity DEF update_device, fence_device,
                                transition_device, set_device_state
    <2> QED BY <2>1, <2>2, <1>1, RegisterCapacity DEF DeviceCall
  <1>2. CASE DeploymentCall
    <2>1. ASSUME NEW x \in DOMAIN deployments,
                 cancel_deployment(x) \/ rollback_deployment(x)
                   \/ fail_deployment(x) \/ retire_deployment(x)
          PROVE  LedgerWithinCapacity'
      <3>1. release_resources(x) \/ ledgers' = ledgers
        BY <2>1 DEF cancel_deployment, rollback_deployment, fail_deployment,
                    retire_deployment
      <3> QED BY <3>1, ReleaseShrinks, ShrinkCapacity, SameCapacity
    <2>2. ASSUME NEW x \in DOMAIN deployments,
                 stage_deployment(x) \/ load_deployment(x)
                   \/ validate_deployment(x) \/ activate_deployment(x)
                   \/ commit_deployment(x) \/ drain_deployment(x)
          PROVE  LedgerWithinCapacity'
      BY <2>2, SameCapacity
         DEF stage_deployment, load_deployment, validate_deployment,
             activate_deployment, commit_deployment, drain_deployment
    <2> QED BY <2>1, <2>2, <1>2, ReserveCapacity DEF DeploymentCall
  <1>3. CASE CatalogCall \/ WorkerCall \/ RecoveryCall
    BY <1>3, SameCapacity
       DEF CatalogCall, WorkerCall, RecoveryCall, register_service,
           register_program, retire_program, register_worker,
           mark_worker_lost, advance_epoch, apply_recovery
  <1>4. CASE UNCHANGED vars
    BY <1>4, SameCapacity DEF vars
  <1> QED BY <1>1, <1>2, <1>3, <1>4 DEF Next

\* Whatever calls interleave, no ledger counts more than a limited capacity:
\* can_reserve checks the very sum that apply_ stores, and release_ never
\* raises a counter, also when a reservation is released twice.
THEOREM CapacityKept == Spec => []LedgerWithinCapacity
  <1>1. Init => LedgerWithinCapacity
    BY EmptyMapType DEF Init, LedgerWithinCapacity
  <1>2. TypeOK /\ TypeOK' /\ LedgerWithinCapacity /\ [Next]_vars
          => LedgerWithinCapacity'
    BY NextCapacity
  <1> QED BY <1>1, <1>2, TypeCorrect, PTL DEF Spec

-----------------------------------------------------------------------------
(* Sums *)

\* Counting up to n.
LEMMA CountUp ==
  ASSUME NEW n \in Nat, NEW T, 0 \in T,
         \A k \in 1 .. n : k - 1 \in T => k \in T
  PROVE  0 .. n \subseteq T
  <1> DEFINE B == {k \in Nat : k <= n /\ k \notin T}
  <1> SUFFICES ASSUME B # {} PROVE FALSE
    OBVIOUS
  <1>0. B \subseteq Nat
    OBVIOUS
  <1>1. PICK m \in B : \A k \in B : m <= k
    <2> HIDE DEF B
    <2> QED BY <1>0, LeastNumber
  <1>2. m \in Nat /\ m <= n /\ m \notin T /\ m # 0
    BY <1>1
  <1>3. m \in 1 .. n /\ m - 1 \in Nat /\ m - 1 <= n /\ m - 1 \notin B
    BY <1>1, <1>2
  <1> QED BY <1>2, <1>3

\* The partial sums that SumTo stands for.
IsSum(f, a, n) ==
  f = [k \in 0 .. n |-> IF k = 0 THEN 0 ELSE f[k - 1] + a[k]]

LEMMA SumExists ==
  ASSUME NEW a, NEW n \in Nat
  PROVE  \E f : IsSum(f, a, n)
  <1> DEFINE T == {k \in Nat : \E f : IsSum(f, a, k)}
  <1>1. 0 \in T
    <2>1. IsSum([k \in 0 .. 0 |-> 0], a, 0)
      BY DEF IsSum
    <2> QED BY <2>1
  <1>2. ASSUME NEW m \in 1 .. n, m - 1 \in T
        PROVE  m \in T
    <2>1. PICK g : IsSum(g, a, m - 1)
      BY <1>2
    <2> DEFINE h == [k \in 0 .. m |-> IF k = m THEN g[m - 1] + a[m] ELSE g[k]]
    <2>2. ASSUME NEW k \in 0 .. m
          PROVE  h[k] = IF k = 0 THEN 0 ELSE h[k - 1] + a[k]
      <3>1. CASE k = m
        <4>1. m - 1 \in 0 .. m /\ m - 1 # m /\ m # 0
          OBVIOUS
        <4> QED BY <3>1, <4>1
      <3>2. CASE k # m
        <4>1. k \in 0 .. (m - 1)
          BY <3>2
        <4>2. g[k] = IF k = 0 THEN 0 ELSE g[k - 1] + a[k]
          BY <2>1, <4>1 DEF IsSum
        <4>3. k # 0 => k - 1 \in 0 .. m /\ k - 1 # m
          BY <4>1
        <4> QED BY <3>2, <4>2, <4>3
      <3> QED BY <3>1, <3>2
    <2>3. IsSum(h, a, m)
      BY <2>2 DEF IsSum
    <2> HIDE DEF h
    <2> QED BY <2>3
  <1> HIDE DEF T
  <1>3. n \in T
    BY <1>1, <1>2, CountUp
  <1> QED BY <1>3 DEF T

\* The sum of natural numbers is the last of its partial sums.
LEMMA PartialSums ==
  ASSUME NEW n \in Nat, NEW a \in [1 .. n -> Nat]
  PROVE  \E f \in [0 .. n -> Nat] :
           /\ f[0] = 0
           /\ \A k \in 1 .. n : f[k] = f[k - 1] + a[k]
           /\ SumTo(a, n) = f[n]
  <1> DEFINE f == CHOOSE g : IsSum(g, a, n)
  <1>1. IsSum(f, a, n)
    BY SumExists
  <1>2. SumTo(a, n) = f[n]
    BY DEF SumTo, IsSum
  <1> HIDE DEF f
  <1>3. /\ f[0] = 0
        /\ \A k \in 1 .. n : f[k] = f[k - 1] + a[k]
        /\ DOMAIN f = 0 .. n
        /\ f = [k \in 0 .. n |-> f[k]]
    BY <1>1 DEF IsSum
  <1> DEFINE T == {k \in 0 .. n : f[k] \in Nat}
  <1>4. 0 \in T
    BY <1>3
  <1>5. ASSUME NEW k \in 1 .. n, k - 1 \in T
        PROVE  k \in T
    <2>1. f[k] = f[k - 1] + a[k] /\ f[k - 1] \in Nat /\ a[k] \in Nat
      BY <1>3, <1>5
    <2> QED BY <2>1
  <1>6. 0 .. n \subseteq T
    <2> HIDE DEF T
    <2> QED BY <1>4, <1>5, CountUp
  <1>7. f \in [0 .. n -> Nat]
    BY <1>3, <1>6
  <1> QED BY <1>2, <1>3, <1>7

\* Adding the same on both sides.
LEMMA SameMore ==
  ASSUME NEW p \in Nat, NEW q \in Nat, NEW r \in Nat, NEW s \in Nat,
         NEW t \in Nat, p + r = q + s
  PROVE  (p + t) + r = (q + t) + s
  OBVIOUS

\* A term that changes changes the sum by as much.
LEMMA SumChanges ==
  ASSUME NEW n \in Nat, NEW a \in [1 .. n -> Nat], NEW b \in [1 .. n -> Nat],
         NEW x \in 1 .. n, \A y \in 1 .. n : y # x => a[y] = b[y]
  PROVE  SumTo(b, n) + a[x] = SumTo(a, n) + b[x]
  <1>1. PICK f \in [0 .. n -> Nat] :
          /\ f[0] = 0
          /\ \A k \in 1 .. n : f[k] = f[k - 1] + a[k]
          /\ SumTo(a, n) = f[n]
    BY PartialSums
  <1>2. PICK g \in [0 .. n -> Nat] :
          /\ g[0] = 0
          /\ \A k \in 1 .. n : g[k] = g[k - 1] + b[k]
          /\ SumTo(b, n) = g[n]
    BY PartialSums
  <1> DEFINE T == {k \in 0 .. n : IF k < x THEN g[k] = f[k]
                                  ELSE g[k] + a[x] = f[k] + b[x]}
  <1>3. 0 \in T
    BY <1>1, <1>2
  <1>4. ASSUME NEW k \in 1 .. n, k - 1 \in T
        PROVE  k \in T
    <2>1. /\ f[k] = f[k - 1] + a[k]
          /\ g[k] = g[k - 1] + b[k]
          /\ f[k - 1] \in Nat /\ a[k] \in Nat /\ a[x] \in Nat
          /\ g[k - 1] \in Nat /\ b[k] \in Nat /\ b[x] \in Nat
      <3>1. k - 1 \in 0 .. n
        OBVIOUS
      <3> QED BY <1>1, <1>2, <3>1
    <2>2. CASE k < x
      <3>1. g[k - 1] = f[k - 1] /\ a[k] = b[k]
        BY <1>4, <2>2
      <3> QED BY <2>1, <2>2, <3>1
    <2>3. CASE k = x
      <3>1. g[k - 1] = f[k - 1]
        BY <1>4, <2>3
      <3> QED BY <2>1, <2>3, <3>1
    <2>4. CASE k > x
      <3>1. g[k - 1] + a[x] = f[k - 1] + b[x] /\ a[k] = b[k]
        BY <1>4, <2>4
      <3>2. g[k] + a[x] = f[k] + b[x]
        <4>1. /\ g[k - 1] \in Nat /\ f[k - 1] \in Nat /\ b[k] \in Nat
              /\ a[x] \in Nat /\ b[x] \in Nat
              /\ g[k - 1] + a[x] = f[k - 1] + b[x]
          BY <2>1, <3>1
        <4>2. PICK P \in Nat, Q \in Nat, R \in Nat, S \in Nat, V \in Nat :
                /\ P = g[k - 1] /\ Q = f[k - 1] /\ R = a[x] /\ S = b[x]
                /\ V = b[k]
          BY <4>1, Zenon
        <4>3. P + R = Q + S
          BY <4>1, <4>2, Zenon
        <4>4. (P + V) + R = (Q + V) + S
          BY <4>3, SameMore
        <4>5. (g[k - 1] + b[k]) + a[x] = (f[k - 1] + b[k]) + b[x]
          BY <4>2, <4>4, Zenon
        <4>6. g[k] = g[k - 1] + b[k]
          BY <2>1
        <4>7. f[k] = f[k - 1] + b[k]
          BY <2>1, <3>1, Zenon
        <4> QED BY <4>5, <4>6, <4>7, Zenon
      <3> QED BY <2>4, <3>2
    <2> QED BY <2>2, <2>3, <2>4
  <1>5. n \in T
    <2>1. 0 .. n \subseteq T
      <3> HIDE DEF T
      <3> QED BY <1>3, <1>4, CountUp
    <2> QED BY <2>1
  <1> QED BY <1>1, <1>2, <1>5

\* No term is above the sum, and the sum not above n times the largest.
LEMMA SumBounds ==
  ASSUME NEW n \in Nat, NEW a \in [1 .. n -> Nat]
  PROVE  /\ SumTo(a, n) \in Nat
         /\ \A x \in 1 .. n : a[x] <= SumTo(a, n)
         /\ \A r \in Nat : (\A x \in 1 .. n : a[x] <= r) => SumTo(a, n) <= n * r
  <1>1. PICK f \in [0 .. n -> Nat] :
          /\ f[0] = 0
          /\ \A k \in 1 .. n : f[k] = f[k - 1] + a[k]
          /\ SumTo(a, n) = f[n]
    BY PartialSums
  <1>2. ASSUME NEW x \in 1 .. n
        PROVE  a[x] <= f[n]
    <2> DEFINE T == {k \in 0 .. n : k >= x => a[x] <= f[k]}
    <2>1. 0 \in T
      OBVIOUS
    <2>2. ASSUME NEW k \in 1 .. n, k - 1 \in T
          PROVE  k \in T
      <3>1. /\ f[k] = f[k - 1] + a[k]
            /\ f[k - 1] \in Nat /\ f[k] \in Nat /\ a[k] \in Nat
            /\ a[x] \in Nat
        BY <1>1
      <3>2. k > x => a[x] <= f[k - 1]
        BY <2>2
      <3> QED BY <3>1, <3>2
    <2>3. n \in T
      <3>1. 0 .. n \subseteq T
        <4> HIDE DEF T
        <4> QED BY <2>1, <2>2, CountUp
      <3> QED BY <3>1
    <2> QED BY <2>3
  <1>3. ASSUME NEW r \in Nat, \A x \in 1 .. n : a[x] <= r
        PROVE  f[n] <= n * r
    <2> DEFINE T == {k \in 0 .. n : f[k] <= k * r}
    <2>1. 0 \in T
      BY <1>1
    <2>2. ASSUME NEW k \in 1 .. n, k - 1 \in T
          PROVE  k \in T
      <3>1. /\ f[k] = f[k - 1] + a[k]
            /\ f[k - 1] \in Nat /\ f[k] \in Nat /\ a[k] \in Nat
            /\ a[k] <= r
            /\ f[k - 1] <= (k - 1) * r
        BY <1>1, <1>3, <2>2
      <3>2. (k - 1) * r + r = k * r /\ k * r \in Nat /\ (k - 1) * r \in Nat
        OBVIOUS
      <3> QED BY <3>1, <3>2
    <2>3. n \in T
      <3>1. 0 .. n \subseteq T
        <4> HIDE DEF T
        <4> QED BY <2>1, <2>2, CountUp
      <3> QED BY <3>1
    <2> QED BY <2>3
  <1> QED BY <1>1, <1>2, <1>3

-----------------------------------------------------------------------------
(* What the deployments of a device hold together *)

\* What one deployment holds is a natural number.
LEMMA HeldByType ==
  ASSUME TypeOK, NEW d, NEW i \in Dims
  PROVE  [x \in 1 .. MaxId |-> HeldBy(x, d, i)] \in [1 .. MaxId -> Nat]
  <1> SUFFICES ASSUME NEW x \in 1 .. MaxId PROVE HeldBy(x, d, i) \in Nat
    OBVIOUS
  <1>1. CASE x \in DOMAIN deployments
    <2>1. deployments[x].resources \in Usage
      BY <1>1 DEF TypeOK, Deployment
    <2>2. deployments[x].resources[i] \in Nat
      BY <2>1, LedgerAssumption DEF Usage, Quantity
    <2> QED BY <2>2 DEF HeldBy
  <1>2. CASE x \notin DOMAIN deployments
    BY <1>2 DEF HeldBy
  <1> QED BY <1>1, <1>2

\* None holds more than all together, and these not more than MaxId times
\* the largest.
LEMMA HeldBounds ==
  ASSUME TypeOK, NEW d, NEW i \in Dims
  PROVE  /\ Held(d, i) \in Nat
         /\ \A x \in 1 .. MaxId : HeldBy(x, d, i) \in Nat
         /\ \A x \in 1 .. MaxId : HeldBy(x, d, i) <= Held(d, i)
         /\ \A most \in Nat : (\A x \in 1 .. MaxId : HeldBy(x, d, i) <= most)
                                => Held(d, i) <= MaxId * most
  <1> DEFINE a == [x \in 1 .. MaxId |-> HeldBy(x, d, i)]
  <1>1. \A x \in 1 .. MaxId : a[x] = HeldBy(x, d, i)
    OBVIOUS
  <1>2. a \in [1 .. MaxId -> Nat] /\ MaxId \in Nat
    BY HeldByType, EngineAssumption
  <1>3. Held(d, i) = SumTo(a, MaxId)
    BY DEF Held
  <1> HIDE DEF a
  <1>4. /\ SumTo(a, MaxId) \in Nat
        /\ \A x \in 1 .. MaxId : a[x] <= SumTo(a, MaxId)
        /\ \A most \in Nat : (\A x \in 1 .. MaxId : a[x] <= most)
                               => SumTo(a, MaxId) <= MaxId * most
    BY <1>2, SumBounds
  <1> QED BY <1>1, <1>2, <1>3, <1>4

\* The same in the next state.
HeldTyped ==
  \A d \in Devices, i \in Dims :
    /\ [x \in 1 .. MaxId |-> HeldBy(x, d, i)] \in [1 .. MaxId -> Nat]
    /\ Held(d, i) \in Nat
    /\ \A x \in 1 .. MaxId : HeldBy(x, d, i) \in Nat
    /\ \A x \in 1 .. MaxId : HeldBy(x, d, i) <= Held(d, i)
    /\ \A most \in Nat : (\A x \in 1 .. MaxId : HeldBy(x, d, i) <= most)
                           => Held(d, i) <= MaxId * most

LEMMA HeldTypedNow == TypeOK => HeldTyped
  BY HeldByType, HeldBounds DEF HeldTyped

LEMMA HeldTypedNext == TypeOK' => HeldTyped'
  BY HeldTypedNow, PTL

\* A step in which no deployment comes to hold anything else.
LEMMA HeldSame ==
  ASSUME NEW d, NEW i,
         \A x \in 1 .. MaxId : HeldBy(x, d, i)' = HeldBy(x, d, i)
  PROVE  Held(d, i)' = Held(d, i)
  <1>1. [x \in 1 .. MaxId |-> HeldBy(x, d, i)']
          = [x \in 1 .. MaxId |-> HeldBy(x, d, i)]
    OBVIOUS
  <1> QED BY <1>1 DEF Held

\* A step in which one deployment does.
LEMMA HeldChanges ==
  ASSUME TypeOK, TypeOK', NEW d \in Devices, NEW i \in Dims,
         NEW x \in 1 .. MaxId,
         \A y \in 1 .. MaxId \ {x} : HeldBy(y, d, i)' = HeldBy(y, d, i)
  PROVE  Held(d, i)' + HeldBy(x, d, i) = Held(d, i) + HeldBy(x, d, i)'
  <1> DEFINE a == [y \in 1 .. MaxId |-> HeldBy(y, d, i)]
             b == [y \in 1 .. MaxId |-> HeldBy(y, d, i)']
  <1>1. a \in [1 .. MaxId -> Nat] /\ b \in [1 .. MaxId -> Nat]
    BY HeldTypedNow, HeldTypedNext DEF HeldTyped
  <1>2. /\ a[x] = HeldBy(x, d, i)
        /\ b[x] = HeldBy(x, d, i)'
        /\ \A y \in 1 .. MaxId : y # x => a[y] = b[y]
    OBVIOUS
  <1>3. Held(d, i) = SumTo(a, MaxId) /\ Held(d, i)' = SumTo(b, MaxId)
    BY DEF Held
  <1>4. MaxId \in Nat
    BY EngineAssumption
  <1> HIDE DEF a, b
  <1>5. SumTo(b, MaxId) + a[x] = SumTo(a, MaxId) + b[x]
    BY <1>1, <1>2, <1>4, SumChanges
  <1> QED BY <1>2, <1>3, <1>5, Zenon

-----------------------------------------------------------------------------
(* The ways a call changes the accounts *)

Ended == {"FAILED", "ABORTED", "RETIRED"}

\* What reserve_deployment takes for a request.
Wanted(req) ==
  IF req.service # Null THEN ServiceDef[req.service].resource
  ELSE req.resource

\* Every deployment was granted what some request wanted, on a device that
\* is still there; no call takes one back to PLANNED.
Placed ==
  \A x \in DOMAIN deployments :
    /\ deployments[x].device \in DOMAIN ledgers
    /\ deployments[x].state # "PLANNED"
    /\ \E req \in Requests : deployments[x].resources = Wanted(req)

\* Deployments change, but not in what they hold.
SameHolding ==
  /\ DOMAIN deployments' = DOMAIN deployments
  /\ \A x \in DOMAIN deployments :
       /\ deployments'[x].device = deployments[x].device
       /\ deployments'[x].resources = deployments[x].resources
       /\ \/ deployments'[x].state = deployments[x].state
          \/ deployments[x].state \in Holding /\ deployments'[x].state \in Holding
          \/ deployments[x].state \in Ended /\ deployments'[x].state \in Ended

\* A device comes with an empty ledger.
Comes ==
  /\ deployments' = deployments
  /\ DOMAIN ledgers \subseteq DOMAIN ledgers'
  /\ \A d \in DOMAIN ledgers : ledgers'[d] = ledgers[d]
  /\ \A d \in DOMAIN ledgers' \ DOMAIN ledgers : ledgers'[d].used = NoUsage

\* A new deployment takes what its request wants.
Takes(n, d, r) ==
  /\ n \in 1 .. MaxId
  /\ n \notin DOMAIN deployments
  /\ d \in DOMAIN ledgers
  /\ \E req \in Requests : r = Wanted(req)
  /\ ledgers' = [ledgers EXCEPT ![d].used = apply(@, r)]
  /\ \E dep \in Deployment :
       /\ deployments' = Put(deployments, n, dep)
       /\ dep.device = d
       /\ dep.resources = r
       /\ dep.state = "RESERVED"

\* A deployment ends and gives back what it holds, or gives it back a second
\* time.
GivesBack(x, to) ==
  /\ release_resources(x)
  /\ deployments' = Deployments({x}, to)
  /\ to \in Ended
  /\ \/ deployments[x].state \in Holding
     \/ deployments[x].state = "FAILED" /\ to = "ABORTED"

\* The loop of retire_device: the running deployments of d are fenced, so
\* that they are still to be retired, and what they hold is given back.
GivesBackAll(d) ==
  LET S == OnDevice(d, {"ACTIVE", "DEGRADED", "DRAINING"})
      req == [x \in S |-> deployments[x].resources]
  IN  /\ d \in DOMAIN ledgers
      /\ ledgers' = [ledgers EXCEPT
                       ![d].used = ReleaseEach(ledgers[d].used, req, S, MaxId)]
      /\ deployments' = Deployments(S, "REVALIDATION_REQUIRED")

Accounts ==
  \/ UNCHANGED ledgers /\ SameHolding
  \/ Comes
  \/ \E n, d, r : Takes(n, d, r)
  \/ \E x \in DOMAIN deployments : \E to : GivesBack(x, to)
  \/ \E d \in Devices : GivesBackAll(d)

\* What a bulk change of deployments leaves of each.
LEMMA DeploymentsFields ==
  ASSUME TypeOK, NEW S, NEW to, deployments' = Deployments(S, to)
  PROVE  /\ DOMAIN deployments' = DOMAIN deployments
         /\ \A x \in DOMAIN deployments :
              /\ deployments'[x].device = deployments[x].device
              /\ deployments'[x].resources = deployments[x].resources
              /\ x \in S => deployments'[x].state = to
              /\ x \notin S => deployments'[x].state = deployments[x].state
  BY DEF TypeOK, Deployment, Deployments

\* A bulk change among the states that hold resources.
LEMMA HoldingMoves ==
  ASSUME TypeOK, NEW S, NEW to \in Holding, deployments' = Deployments(S, to),
         \A x \in S : x \in DOMAIN deployments => deployments[x].state \in Holding
  PROVE  SameHolding
  BY DeploymentsFields DEF SameHolding

\* A step along the table.
LEMMA TransitionHolds ==
  ASSUME TypeOK, NEW x, NEW to, do_deploy_transition(x, to),
         to \in {"STAGING", "LOADED", "VALIDATING", "ACTIVATING"}
  PROVE  SameHolding
  <1>1. deployments[x].state \in Holding /\ to \in Holding
    BY DEF do_deploy_transition, valid_deployment_transition, Holding
  <1>2. deployments' = [deployments EXCEPT ![x].state = to,
                                           ![x].authoritative = (to = "ACTIVE")]
    BY DEF do_deploy_transition
  <1>3. /\ DOMAIN deployments' = DOMAIN deployments
        /\ \A y \in DOMAIN deployments :
             /\ deployments'[y].device = deployments[y].device
             /\ deployments'[y].resources = deployments[y].resources
             /\ y # x => deployments'[y].state = deployments[y].state
             /\ y = x => deployments'[y].state = to
    BY <1>2 DEF TypeOK, Deployment
  <1> QED BY <1>1, <1>3 DEF SameHolding

\* A granted reservation.
LEMMA ReserveTakes ==
  ASSUME TypeOK, TypeOK', NEW d \in Devices, NEW req \in Requests,
         reserve_deployment(d, req)
  PROVE  Accounts
  <1>1. CASE UNCHANGED <<ledgers, deployments>>
    BY <1>1 DEF Accounts, SameHolding
  <1>2. CASE ~ UNCHANGED <<ledgers, deployments>>
    <2>1. PICK n, dep :
            /\ n = id_seq
            /\ n + 1 <= MaxId
            /\ d \in DOMAIN ledgers
            /\ ledgers' = [ledgers EXCEPT ![d].used = apply(@, Wanted(req))]
            /\ deployments' = Put(deployments, n, dep)
            /\ dep.device = d
            /\ dep.resources = Wanted(req)
            /\ dep.state = "RESERVED"
      BY <1>2 DEF reserve_deployment, Wanted
    <2>2. n \in 1 .. MaxId /\ n \notin DOMAIN deployments
      BY <2>1, EngineAssumption DEF TypeOK
    <2>3. n \in DOMAIN deployments' /\ deployments'[n] = dep
      BY <2>1 DEF Put
    <2>4. dep \in Deployment
      BY <2>3 DEF TypeOK
    <2>5. Takes(n, d, Wanted(req))
      BY <2>1, <2>2, <2>4 DEF Takes
    <2> QED BY <2>5 DEF Accounts
  <1> QED BY <1>1, <1>2

\* The calls that end a deployment.
LEMMA EndsGiveBack ==
  ASSUME TypeOK, Placed, NEW x \in DOMAIN deployments,
         \/ cancel_deployment(x) \/ rollback_deployment(x)
         \/ fail_deployment(x) \/ retire_deployment(x)
  PROVE  Accounts
  <1>1. deployments[x].state # "PLANNED"
    BY DEF Placed
  <1>2. CASE cancel_deployment(x)
    <2>1. GivesBack(x, "ABORTED")
      BY <1>1, <1>2 DEF cancel_deployment, Cancellable, GivesBack, Holding, Ended
    <2> QED BY <2>1 DEF Accounts
  <1>3. CASE rollback_deployment(x)
    <2>1. GivesBack(x, "ABORTED")
      BY <1>3 DEF rollback_deployment, Rollbackable, GivesBack, Holding, Ended
    <2> QED BY <2>1 DEF Accounts
  <1>4. CASE fail_deployment(x)
    <2>1. deployments[x].state \in Holding
      BY <1>1, <1>4 DEF fail_deployment, valid_deployment_transition, Holding
    <2>2. GivesBack(x, "FAILED")
      BY <1>4, <2>1 DEF fail_deployment, GivesBack, Ended
    <2> QED BY <2>2 DEF Accounts
  <1>5. CASE retire_deployment(x)
    <2>1. CASE deployments[x].state \in HeldUntilRetired
      <3>1. deployments[x].state \in Holding
        BY <2>1 DEF HeldUntilRetired, Holding
      <3>2. GivesBack(x, "RETIRED")
        BY <1>5, <2>1, <3>1 DEF retire_deployment, GivesBack, Ended
      <3> QED BY <3>2 DEF Accounts
    <2>2. CASE deployments[x].state \notin HeldUntilRetired
      <3>1. /\ deployments[x].state \in Ended
            /\ "RETIRED" \in Ended
            /\ ledgers' = ledgers
            /\ deployments' = Deployments({x}, "RETIRED")
        BY <1>5, <2>2 DEF retire_deployment, Retirable, HeldUntilRetired, Ended
      <3>2. /\ DOMAIN deployments' = DOMAIN deployments
            /\ \A y \in DOMAIN deployments :
                 /\ deployments'[y].device = deployments[y].device
                 /\ deployments'[y].resources = deployments[y].resources
                 /\ y \in {x} => deployments'[y].state = "RETIRED"
                 /\ y \notin {x} => deployments'[y].state = deployments[y].state
        BY <3>1, DeploymentsFields
      <3>3. SameHolding
        BY <3>1, <3>2 DEF SameHolding
      <3> QED BY <3>1, <3>3 DEF Accounts
    <2> QED BY <2>1, <2>2
  <1> QED BY <1>2, <1>3, <1>4, <1>5

\* The other calls on one deployment.
LEMMA GoesOnHolding ==
  ASSUME TypeOK, NEW x \in DOMAIN deployments,
         \/ stage_deployment(x) \/ load_deployment(x)
         \/ validate_deployment(x) \/ activate_deployment(x)
         \/ commit_deployment(x) \/ drain_deployment(x)
  PROVE  ledgers' = ledgers /\ SameHolding
  <1>1. CASE stage_deployment(x) \/ load_deployment(x) \/ validate_deployment(x)
    <2>1. PICK to \in {"STAGING", "LOADED", "VALIDATING"} :
            do_deploy_transition(x, to)
      BY <1>1 DEF stage_deployment, load_deployment, validate_deployment
    <2>2. SameHolding
      BY <2>1, TransitionHolds
    <2> QED BY <1>1, <2>2
            DEF stage_deployment, load_deployment, validate_deployment
  <1>0. deployments[x] \in Deployment
    BY DEF TypeOK
  <1>2. "VALIDATING" \in Holding /\ "ACTIVATING" \in Holding /\ "ACTIVE" \in Holding
    BY DEF Holding
  <1>3. CASE activate_deployment(x)
    <2>1. deployments[x].state = "VALIDATING" /\ ledgers' = ledgers
      BY <1>3 DEF activate_deployment, valid_deployment_transition
    <2>2. /\ DOMAIN deployments' = DOMAIN deployments
          /\ deployments'[x].device = deployments[x].device
          /\ deployments'[x].resources = deployments[x].resources
          /\ deployments'[x].state = "ACTIVATING"
          /\ \A y \in DOMAIN deployments \ {x} : deployments'[y] = deployments[y]
      BY <1>0, <1>3 DEF activate_deployment, TypeOK, Deployment
    <2> QED BY <1>2, <2>1, <2>2 DEF SameHolding
  <1>4. CASE commit_deployment(x)
    <2>1. deployments[x].state = "ACTIVATING" /\ ledgers' = ledgers
      BY <1>4 DEF commit_deployment, Committable
    <2>2. /\ DOMAIN deployments' = DOMAIN deployments
          /\ deployments'[x].device = deployments[x].device
          /\ deployments'[x].resources = deployments[x].resources
          /\ deployments'[x].state = "ACTIVE"
          /\ \A y \in DOMAIN deployments \ {x} : deployments'[y] = deployments[y]
      BY <1>0, <1>4 DEF commit_deployment, TypeOK, Deployment
    <2> QED BY <1>2, <2>1, <2>2 DEF SameHolding
  <1>5. CASE drain_deployment(x)
    <2>1. /\ "DRAINING" \in Holding
          /\ deployments[x].state \in Holding
          /\ deployments' = Deployments({x}, "DRAINING")
          /\ ledgers' = ledgers
      BY <1>5 DEF drain_deployment, Drainable, Holding
    <2>2. SameHolding
      BY <2>1, HoldingMoves
    <2> QED BY <2>1, <2>2
  <1> QED BY <1>1, <1>3, <1>4, <1>5

\* Fencing running deployments, while the ledgers stay.
LEMMA FenceHolds ==
  ASSUME TypeOK, NEW S, Fence(S), ledgers' = ledgers,
         \A x \in S : x \in DOMAIN deployments =>
           deployments[x].state \in {"ACTIVE", "DEGRADED", "DRAINING"}
  PROVE  Accounts
  <1>1. /\ "REVALIDATION_REQUIRED" \in Holding
        /\ {"ACTIVE", "DEGRADED", "DRAINING"} \subseteq Holding
        /\ deployments' = Deployments(S, "REVALIDATION_REQUIRED")
    BY DEF Holding, Fence
  <1>2. SameHolding
    BY <1>1, HoldingMoves
  <1> QED BY <1>2 DEF Accounts

\* Every call changes the accounts in one of these ways.
LEMMA AccountKinds ==
  ASSUME TypeOK, TypeOK', Placed, [Next]_vars
  PROVE  Accounts
  <1>1. ASSUME ledgers' = ledgers, deployments' = deployments PROVE Accounts
    BY <1>1 DEF Accounts, SameHolding
  <1>2. CASE DeviceCall
    <2>1. ASSUME NEW rec \in Registrations, register_device(rec)
          PROVE  Accounts
      <3>1. DOMAIN ledgers = DOMAIN devices
        BY DEF TypeOK
      <3>2. Comes
        BY <2>1, <3>1 DEF register_device, Put, Comes
      <3> QED BY <3>2 DEF Accounts
    <2>2. ASSUME NEW rec, update_device(rec)
          PROVE  Accounts
      BY <1>1, <2>2 DEF update_device
    <2>3. ASSUME NEW d \in Devices, retire_device(d)
          PROVE  Accounts
      <3>1. d \in DOMAIN ledgers
        BY <2>3 DEF retire_device, TypeOK
      <3>2. GivesBackAll(d)
        BY <2>3, <3>1 DEF retire_device, Fence, GivesBackAll
      <3> QED BY <3>2 DEF Accounts
    <2>4. ASSUME NEW d \in Devices, fence_device(d)
          PROVE  Accounts
      BY <2>4, FenceHolds DEF fence_device, OnDevice
    <2>5. ASSUME NEW d \in Devices, NEW to, transition_device(d, to)
          PROVE  Accounts
      BY <1>1, <2>5, FenceHolds DEF transition_device, OnDevice
    <2>6. ASSUME NEW d, NEW s, NEW k, set_device_state(d, s, k)
          PROVE  Accounts
      BY <1>1, <2>6 DEF set_device_state
    <2> QED BY <1>2, <2>1, <2>2, <2>3, <2>4, <2>5, <2>6 DEF DeviceCall
  <1>3. CASE DeploymentCall
    <2>1. ASSUME NEW x \in DOMAIN deployments,
                 \/ stage_deployment(x) \/ load_deployment(x)
                 \/ validate_deployment(x) \/ activate_deployment(x)
                 \/ commit_deployment(x) \/ drain_deployment(x)
          PROVE  Accounts
      BY <2>1, GoesOnHolding DEF Accounts
    <2> QED BY <1>3, <2>1, ReserveTakes, EndsGiveBack DEF DeploymentCall
  <1>4. CASE CatalogCall
    BY <1>1, <1>4 DEF CatalogCall, register_service, register_program,
                      retire_program
  <1>5. CASE WorkerCall
    <2>1. ASSUME NEW w, mark_worker_lost(w) PROVE Accounts
      BY <2>1, FenceHolds DEF mark_worker_lost
    <2> QED BY <1>1, <1>5, <2>1 DEF WorkerCall, register_worker
  <1>6. CASE RecoveryCall
    <2>1. ASSUME NEW policy, apply_recovery(policy) PROVE Accounts
      BY <2>1, FenceHolds DEF apply_recovery
    <2> QED BY <1>1, <1>6, <2>1 DEF RecoveryCall, advance_epoch
  <1>7. CASE UNCHANGED vars
    BY <1>1, <1>7 DEF vars
  <1> QED BY <1>2, <1>3, <1>4, <1>5, <1>6, <1>7 DEF Next

\* Deployments stay placed.
LEMMA PlacedStep ==
  ASSUME TypeOK, Placed, Accounts
  PROVE  Placed'
  <1>1. CASE UNCHANGED ledgers /\ SameHolding
    BY <1>1 DEF Placed, SameHolding, Holding, Ended
  <1>2. CASE Comes
    BY <1>2 DEF Placed, Comes
  <1>3. ASSUME NEW n, NEW d, NEW r, Takes(n, d, r)
        PROVE  Placed'
    <2>1. PICK dep : /\ deployments' = Put(deployments, n, dep)
                     /\ dep.device = d
                     /\ dep.resources = r
                     /\ dep.state = "RESERVED"
      BY <1>3 DEF Takes
    <2>2. /\ DOMAIN deployments' = DOMAIN deployments \cup {n}
          /\ deployments'[n] = dep
          /\ \A x \in DOMAIN deployments : deployments'[x] = deployments[x]
      BY <1>3, <2>1 DEF Put, Takes
    <2>3. /\ DOMAIN ledgers' = DOMAIN ledgers
          /\ d \in DOMAIN ledgers
          /\ \E req \in Requests : r = Wanted(req)
      BY <1>3 DEF Takes, TypeOK
    <2> QED BY <2>1, <2>2, <2>3 DEF Placed
  <1>4. ASSUME NEW S, NEW to, to # "PLANNED", deployments' = Deployments(S, to),
               DOMAIN ledgers' = DOMAIN ledgers
        PROVE  Placed'
    BY <1>4, DeploymentsFields DEF Placed
  <1>5. ASSUME NEW x \in DOMAIN deployments, NEW to, GivesBack(x, to)
        PROVE  Placed'
    <2>1. DOMAIN ledgers' = DOMAIN ledgers
      BY <1>5 DEF GivesBack, release_resources, TypeOK
    <2> QED BY <1>4, <1>5, <2>1 DEF GivesBack, Ended
  <1>6. ASSUME NEW d \in Devices, GivesBackAll(d)
        PROVE  Placed'
    <2>1. DOMAIN ledgers' = DOMAIN ledgers
      BY <1>6 DEF GivesBackAll, TypeOK
    <2> QED BY <1>4, <1>6, <2>1 DEF GivesBackAll
  <1> QED BY <1>1, <1>2, <1>3, <1>5, <1>6 DEF Accounts

\* In any run deployments are placed.
LEMMA AlwaysPlaced == Spec => []Placed
  <1>1. Init => Placed
    BY EmptyMapType DEF Init, Placed
  <1>2. TypeOK /\ TypeOK' /\ Placed /\ [Next]_vars => Placed'
    BY AccountKinds, PlacedStep
  <1> QED BY <1>1, <1>2, TypeCorrect, PTL DEF Spec

-----------------------------------------------------------------------------
(* What these ways do to what the deployments of a device hold *)

\* As many deployments as there are ids can reserve what is wanted of one
\* device without a counter wrapping.  The code's counters have 64 bits.
TogetherFit ==
  \E most \in Nat : /\ MaxId * most < Modulus
                    /\ \A req \in Requests, i \in Dims : Wanted(req)[i] <= most

HeldFit == \A d \in Devices, i \in Dims : Held(d, i) < Modulus

LEMMA HeldFitNow ==
  ASSUME TogetherFit
  PROVE  TypeOK /\ Placed => HeldFit
  <1> SUFFICES ASSUME TypeOK, Placed, NEW d \in Devices, NEW i \in Dims
               PROVE  Held(d, i) < Modulus
    BY DEF HeldFit
  <1>1. PICK most \in Nat :
          /\ MaxId * most < Modulus
          /\ \A req \in Requests, j \in Dims : Wanted(req)[j] <= most
    BY DEF TogetherFit
  <1>2. ASSUME NEW x \in 1 .. MaxId
        PROVE  HeldBy(x, d, i) <= most
    <2>1. CASE x \in DOMAIN deployments
      <3>1. deployments[x].resources[i] <= most
        BY <1>1, <2>1 DEF Placed
      <3> QED BY <3>1 DEF HeldBy
    <2>2. CASE x \notin DOMAIN deployments
      BY <2>2 DEF HeldBy
    <2> QED BY <2>1, <2>2
  <1>3. Held(d, i) <= MaxId * most /\ Held(d, i) \in Nat
    BY <1>2, HeldBounds
  <1>4. MaxId * most \in Nat /\ Modulus \in Nat
    BY EngineAssumption, LedgerAssumption
  <1> QED BY <1>1, <1>3, <1>4

LEMMA HeldFitNext ==
  ASSUME TogetherFit
  PROVE  TypeOK' /\ Placed' => HeldFit'
  BY HeldFitNow, PTL

\* Deployments that change otherwise hold what they held.
LEMMA SameHeld ==
  ASSUME SameHolding, NEW d, NEW i
  PROVE  Held(d, i)' = Held(d, i)
  <1> SUFFICES ASSUME NEW x \in 1 .. MaxId
               PROVE  HeldBy(x, d, i)' = HeldBy(x, d, i)
    BY HeldSame
  <1>1. CASE x \in DOMAIN deployments
    <2>1. deployments'[x].state \in Holding <=> deployments[x].state \in Holding
      BY <1>1 DEF SameHolding, Holding, Ended
    <2> QED BY <1>1, <2>1 DEF SameHolding, HeldBy
  <1>2. CASE x \notin DOMAIN deployments
    BY <1>2 DEF SameHolding, HeldBy
  <1> QED BY <1>1, <1>2

\* A new deployment adds what it takes, and the counter can hold the sum.
LEMMA TakesHeld ==
  ASSUME TypeOK, TypeOK', HeldFit', NEW n, NEW d, NEW r, Takes(n, d, r),
         NEW e \in Devices, NEW i \in Dims
  PROVE  /\ e # d => Held(e, i)' = Held(e, i)
         /\ e = d => /\ Held(e, i)' = Held(e, i) + r[i]
                     /\ Held(e, i) + r[i] < Modulus
  <1>1. PICK dep : /\ deployments' = Put(deployments, n, dep)
                   /\ dep.device = d
                   /\ dep.resources = r
                   /\ dep.state = "RESERVED"
    BY DEF Takes
  <1>2. /\ n \in 1 .. MaxId
        /\ n \notin DOMAIN deployments
        /\ DOMAIN deployments' = DOMAIN deployments \cup {n}
        /\ deployments'[n] = dep
        /\ \A x \in DOMAIN deployments : deployments'[x] = deployments[x]
    BY <1>1 DEF Put, Takes
  <1>3. ASSUME NEW y \in 1 .. MaxId \ {n}
        PROVE  HeldBy(y, e, i)' = HeldBy(y, e, i)
    <2>1. y \in DOMAIN deployments' <=> y \in DOMAIN deployments
      BY <1>2
    <2>2. y \in DOMAIN deployments => deployments'[y] = deployments[y]
      BY <1>2
    <2> QED BY <2>1, <2>2 DEF HeldBy
  <1>4. HeldBy(n, e, i) = 0
    BY <1>2 DEF HeldBy
  <1>5. HeldBy(n, e, i)' = IF e = d THEN r[i] ELSE 0
    BY <1>1, <1>2 DEF HeldBy, Holding
  <1>6. Held(e, i)' + HeldBy(n, e, i) = Held(e, i) + HeldBy(n, e, i)'
    BY <1>2, <1>3, HeldChanges
  <1>7. /\ Held(e, i) \in Nat /\ Held(e, i)' \in Nat
        /\ HeldBy(n, e, i) \in Nat /\ HeldBy(n, e, i)' \in Nat
    BY <1>2, HeldTypedNow, HeldTypedNext DEF HeldTyped
  <1>8. Held(e, i)' < Modulus
    BY DEF HeldFit
  <1> QED BY <1>4, <1>5, <1>6, <1>7, <1>8

\* A deployment that ends no longer holds what it held.
LEMMA GivesBackHeld ==
  ASSUME TypeOK, TypeOK', NEW x \in DOMAIN deployments, NEW to,
         GivesBack(x, to), deployments[x].state \in Holding,
         NEW e \in Devices, NEW i \in Dims
  PROVE  /\ e # deployments[x].device => Held(e, i)' = Held(e, i)
         /\ e = deployments[x].device =>
              /\ Held(e, i)' + deployments[x].resources[i] = Held(e, i)
              /\ deployments[x].resources[i] <= Held(e, i)
  <1>1. x \in 1 .. MaxId
    BY EngineAssumption DEF TypeOK
  <1>2. deployments' = Deployments({x}, to) /\ to \notin Holding
    BY DEF GivesBack, Ended, Holding
  <1>3. /\ DOMAIN deployments' = DOMAIN deployments
        /\ \A y \in DOMAIN deployments :
             /\ deployments'[y].device = deployments[y].device
             /\ deployments'[y].resources = deployments[y].resources
             /\ y \in {x} => deployments'[y].state = to
             /\ y \notin {x} => deployments'[y].state = deployments[y].state
    BY <1>2, DeploymentsFields
  <1>4. ASSUME NEW y \in 1 .. MaxId \ {x}
        PROVE  HeldBy(y, e, i)' = HeldBy(y, e, i)
    BY <1>3 DEF HeldBy
  <1>5. HeldBy(x, e, i)' = 0
    BY <1>2, <1>3 DEF HeldBy
  <1>6. HeldBy(x, e, i) = IF e = deployments[x].device
                          THEN deployments[x].resources[i] ELSE 0
    BY DEF HeldBy
  <1>7. Held(e, i)' + HeldBy(x, e, i) = Held(e, i) + HeldBy(x, e, i)'
    BY <1>1, <1>4, HeldChanges
  <1>8. /\ Held(e, i) \in Nat /\ Held(e, i)' \in Nat
        /\ HeldBy(x, e, i) \in Nat
        /\ HeldBy(x, e, i) <= Held(e, i)
    BY <1>1, HeldTypedNow, HeldTypedNext DEF HeldTyped
  <1> QED BY <1>5, <1>6, <1>7, <1>8

-----------------------------------------------------------------------------
(* The accounting is exact when nothing is released twice *)

\* A sum below the modulus does not wrap.
LEMMA NoWrap ==
  ASSUME NEW m \in Nat, NEW n \in Nat, m + n < Modulus
  PROVE  Plus(m, n) = m + n
  BY LedgerAssumption DEF Plus

\* What every release of a loop keeps, the loop keeps.
LEMMA LoopKeeps ==
  ASSUME NEW n \in Nat, NEW S, NEW req, NEW T, NEW used \in T,
         \A k \in S, u \in T : release(u, req[k]) \in T
  PROVE  ReleaseEach(used, req, S, n) \in T
  <1> DEFINE after == CHOOSE f : IsRun(f, used, req, S, n)
  <1>1. IsRun(after, used, req, S, n)
    BY RunExists
  <1>2. ReleaseEach(used, req, S, n) = after[n]
    BY DEF ReleaseEach, IsRun
  <1> HIDE DEF after
  <1>3. /\ after[0] = used
        /\ \A k \in 1 .. n :
             after[k] = IF k \in S THEN release(after[k - 1], req[k])
                        ELSE after[k - 1]
    BY <1>1 DEF IsRun
  <1> DEFINE B == {k \in 0 .. n : after[k] \in T}
  <1>4. 0 \in B
    BY <1>3
  <1>5. ASSUME NEW k \in 1 .. n, k - 1 \in B
        PROVE  k \in B
    BY <1>3, <1>5
  <1>6. n \in B
    <2>1. 0 .. n \subseteq B
      <3> HIDE DEF B
      <3> QED BY <1>4, <1>5, CountUp
    <2> QED BY <2>1
  <1> QED BY <1>2, <1>6

\* A reservation is counted.
LEMMA TakesExact ==
  ASSUME TypeOK, TypeOK', HeldFit', LedgerExact, NEW n, NEW d, NEW r,
         Takes(n, d, r)
  PROVE  LedgerExact'
  <1>1. /\ DOMAIN ledgers' = DOMAIN ledgers
        /\ d \in DOMAIN ledgers
        /\ \A e \in DOMAIN ledgers \ {d} : ledgers'[e] = ledgers[e]
        /\ ledgers'[d].used = apply(ledgers[d].used, r)
    BY DEF Takes, TypeOK, Ledger
  <1>2. r \in Usage
    BY DEF Takes, Deployment
  <1> SUFFICES ASSUME NEW e \in DOMAIN ledgers, NEW i \in Dims
               PROVE  ledgers'[e].used[i] = Held(e, i)'
    BY <1>1 DEF LedgerExact
  <1>3. e \in Devices
    BY DEF TypeOK
  <1>4. ledgers[e].used[i] = Held(e, i)
    BY DEF LedgerExact
  <1>5. CASE e # d
    BY <1>1, <1>3, <1>4, <1>5, TakesHeld
  <1>6. CASE e = d
    <2>1. /\ Held(e, i)' = Held(e, i) + r[i]
          /\ Held(e, i) + r[i] < Modulus
      BY <1>3, <1>6, TakesHeld
    <2>2. Held(e, i) \in Nat /\ r[i] \in Nat
      BY <1>2, <1>3, HeldTypedNow, LedgerAssumption
         DEF HeldTyped, Usage, Quantity
    <2>3. Plus(Held(e, i), r[i]) = Held(e, i) + r[i]
      BY <2>1, <2>2, NoWrap
    <2>4. ledgers'[e].used[i] = Plus(ledgers[e].used[i], r[i])
      BY <1>1, <1>6 DEF apply
    <2> QED BY <1>4, <2>1, <2>3, <2>4
  <1> QED BY <1>5, <1>6

\* The ledger after release_resources.
LEMMA ReleasedLedger ==
  ASSUME TypeOK, Placed, NEW x \in DOMAIN deployments, release_resources(x),
         NEW d, d = deployments[x].device
  PROVE  /\ d \in DOMAIN ledgers
         /\ DOMAIN ledgers' = DOMAIN ledgers
         /\ \A e \in DOMAIN ledgers \ {d} : ledgers'[e] = ledgers[e]
         /\ ledgers'[d].used = release(ledgers[d].used, deployments[x].resources)
  <1>1. d \in DOMAIN ledgers
    BY DEF Placed
  <1>2. ledgers' = [ledgers EXCEPT ![d].used =
                      release(ledgers[d].used, deployments[x].resources)]
    BY <1>1 DEF release_resources
  <1> QED BY <1>1, <1>2 DEF TypeOK, Ledger

\* A release of what is held is never refused.
LEMMA GivesBackExact ==
  ASSUME TypeOK, TypeOK', Placed, LedgerExact, NEW x \in DOMAIN deployments,
         NEW to, GivesBack(x, to), deployments[x].state \in Holding
  PROVE  LedgerExact'
  <1>0. PICK d, r : d = deployments[x].device /\ r = deployments[x].resources
    OBVIOUS
  <1>1. /\ d \in DOMAIN ledgers
        /\ DOMAIN ledgers' = DOMAIN ledgers
        /\ \A e \in DOMAIN ledgers \ {d} : ledgers'[e] = ledgers[e]
        /\ ledgers'[d].used = release(ledgers[d].used, r)
    BY <1>0, ReleasedLedger DEF GivesBack
  <1>2. \A e \in DOMAIN ledgers : e \in Devices
    BY DEF TypeOK
  <1>3. ASSUME NEW j \in Dims
        PROVE  /\ r[j] <= ledgers[d].used[j]
               /\ Held(d, j)' + r[j] = ledgers[d].used[j]
    BY <1>0, <1>1, <1>2, GivesBackHeld DEF LedgerExact
  <1>4. r \in Usage /\ ledgers[d].used \in Usage
    BY <1>0, <1>1 DEF TypeOK, Deployment, Ledger
  <1>5. \A j \in Dims : r[j] \in Nat /\ ledgers[d].used[j] \in Nat
    BY <1>4, LedgerAssumption DEF Usage, Quantity
  <1>6. ledgers'[d].used = [j \in Dims |-> ledgers[d].used[j] - r[j]]
    <2>1. ~ \E j \in Dims : ledgers[d].used[j] < r[j]
      BY <1>3, <1>5
    <2> QED BY <1>1, <2>1 DEF release
  <1> SUFFICES ASSUME NEW e \in DOMAIN ledgers, NEW i \in Dims
               PROVE  ledgers'[e].used[i] = Held(e, i)'
    BY <1>1 DEF LedgerExact
  <1>7. CASE e # d
    <2>1. Held(e, i)' = Held(e, i)
      BY <1>0, <1>2, <1>7, GivesBackHeld
    <2> QED BY <1>1, <1>7, <2>1 DEF LedgerExact
  <1>8. CASE e = d
    <2>1. Held(d, i)' \in Nat
      BY <1>1, <1>2, HeldTypedNext DEF HeldTyped
    <2>2. ledgers'[d].used[i] = ledgers[d].used[i] - r[i]
      BY <1>6
    <2> QED BY <1>3, <1>5, <1>8, <2>1, <2>2
  <1> QED BY <1>7, <1>8

\* A step that changes neither what is counted nor what is held.
LEMMA KeepsExact ==
  ASSUME TypeOK, LedgerExact, SameHolding, DOMAIN ledgers' = DOMAIN ledgers,
         \A d \in DOMAIN ledgers : ledgers'[d].used = ledgers[d].used
  PROVE  LedgerExact'
  BY SameHeld DEF LedgerExact

\* The loop of retire_device leaves what is held alone.
LEMMA GivesBackAllHolds ==
  ASSUME TypeOK, NEW d, GivesBackAll(d)
  PROVE  SameHolding
  <1>1. /\ "REVALIDATION_REQUIRED" \in Holding
        /\ {"ACTIVE", "DEGRADED", "DRAINING"} \subseteq Holding
    BY DEF Holding
  <1>2. PICK S : /\ S = OnDevice(d, {"ACTIVE", "DEGRADED", "DRAINING"})
                 /\ deployments' = Deployments(S, "REVALIDATION_REQUIRED")
    BY DEF GivesBackAll
  <1>3. \A x \in S : deployments[x].state \in Holding
    BY <1>1, <1>2 DEF OnDevice
  <1> QED BY <1>1, <1>2, <1>3, HoldingMoves

\* A device is only retired without running deployments by callers that
\* release nothing twice, and then nothing is given back.
LEMMA GivesBackAllExact ==
  ASSUME TypeOK, LedgerExact, NEW d, GivesBackAll(d), ReleasesOnce
  PROVE  LedgerExact'
  <1>1. PICK S, req :
          /\ S = OnDevice(d, {"ACTIVE", "DEGRADED", "DRAINING"})
          /\ ledgers' = [ledgers EXCEPT
               ![d].used = ReleaseEach(ledgers[d].used, req, S, MaxId)]
          /\ deployments' = Deployments(S, "REVALIDATION_REQUIRED")
    BY DEF GivesBackAll
  <1>2. d \in DOMAIN ledgers
    BY DEF GivesBackAll
  <1>3. /\ DOMAIN ledgers' = DOMAIN ledgers
        /\ \A e \in DOMAIN ledgers \ {d} : ledgers'[e] = ledgers[e]
        /\ ledgers'[d].used = ReleaseEach(ledgers[d].used, req, S, MaxId)
    BY <1>1, <1>2 DEF TypeOK, Ledger
  <1>4. ledgers'[d].used = ledgers[d].used
    <2>1. CASE S = {}
      <3>1. \A k \in S, u \in {ledgers[d].used} :
              release(u, req[k]) \in {ledgers[d].used}
        BY <2>1
      <3>2. MaxId \in Nat /\ ledgers[d].used \in {ledgers[d].used}
        BY EngineAssumption
      <3>3. ReleaseEach(ledgers[d].used, req, S, MaxId) \in {ledgers[d].used}
        BY <3>1, <3>2, LoopKeeps
      <3> QED BY <1>3, <3>3
    <2>2. CASE S # {}
      <3>1. PICK x \in S : TRUE
        BY <2>2
      <3>2. /\ x \in DOMAIN deployments
            /\ deployments[x].device = d
            /\ deployments[x].state # "REVALIDATION_REQUIRED"
        BY <1>1, <3>1 DEF OnDevice
      <3>3. deployments'[x].state = "REVALIDATION_REQUIRED"
        BY <1>1, <3>1, <3>2, DeploymentsFields
      <3>4. ledgers'[d] = ledgers[d]
        BY <3>2, <3>3 DEF ReleasesOnce
      <3> QED BY <3>4
    <2> QED BY <2>1, <2>2
  <1>5. SameHolding
    BY GivesBackAllHolds
  <1> QED BY <1>3, <1>4, <1>5, KeepsExact

\* On a device that comes nothing is held.
LEMMA NothingHeld ==
  ASSUME TypeOK, Placed, NEW d \in Devices \ DOMAIN ledgers, NEW i \in Dims
  PROVE  Held(d, i) = 0
  <1>1. ASSUME NEW x \in 1 .. MaxId
        PROVE  HeldBy(x, d, i) <= 0
    BY DEF Placed, HeldBy
  <1>2. Held(d, i) \in Nat /\ Held(d, i) <= MaxId * 0
    BY <1>1, HeldBounds
  <1>3. MaxId * 0 = 0
    BY EngineAssumption
  <1> QED BY <1>2, <1>3

\* A device that comes disturbs no account.
LEMMA ComesHeld ==
  ASSUME TypeOK, TypeOK', Placed, Comes, NEW d \in DOMAIN ledgers', NEW i \in Dims
  PROVE  /\ Held(d, i)' = Held(d, i)
         /\ d \in DOMAIN ledgers => ledgers'[d] = ledgers[d]
         /\ d \notin DOMAIN ledgers => /\ ledgers'[d].used[i] = 0
                                       /\ Held(d, i) = 0
  <1>1. d \in Devices
    BY DEF TypeOK
  <1>2. SameHolding
    BY DEF Comes, SameHolding
  <1> QED BY <1>1, <1>2, SameHeld, NothingHeld DEF Comes, NoUsage

LEMMA ComesExact ==
  ASSUME TypeOK, TypeOK', Placed, LedgerExact, Comes
  PROVE  LedgerExact'
  <1> SUFFICES ASSUME NEW d \in DOMAIN ledgers', NEW i \in Dims
               PROVE  ledgers'[d].used[i] = Held(d, i)'
    BY DEF LedgerExact
  <1>1. /\ Held(d, i)' = Held(d, i)
        /\ d \in DOMAIN ledgers => ledgers'[d] = ledgers[d]
        /\ d \notin DOMAIN ledgers => /\ ledgers'[d].used[i] = 0
                                      /\ Held(d, i) = 0
    BY ComesHeld
  <1>2. CASE d \in DOMAIN ledgers
    BY <1>1, <1>2 DEF LedgerExact
  <1>3. CASE d \notin DOMAIN ledgers
    BY <1>1, <1>3
  <1> QED BY <1>2, <1>3

\* One step of a caller that releases nothing twice.
LEMMA ExactStep ==
  ASSUME TogetherFit, TypeOK, TypeOK', Placed, Placed', LedgerExact, Accounts,
         ReleasesOnce
  PROVE  LedgerExact'
  <1>1. HeldFit'
    BY HeldFitNext
  <1>2. CASE UNCHANGED ledgers /\ SameHolding
    BY <1>2, KeepsExact
  <1>3. CASE Comes
    BY <1>3, ComesExact
  <1>4. ASSUME NEW n, NEW d, NEW r, Takes(n, d, r)
        PROVE  LedgerExact'
    BY <1>1, <1>4, TakesExact
  <1>5. ASSUME NEW x \in DOMAIN deployments, NEW to, GivesBack(x, to)
        PROVE  LedgerExact'
    <2>1. deployments' = Deployments({x}, to)
      BY <1>5 DEF GivesBack
    <2>2. deployments'[x].state = to
      BY <2>1, DeploymentsFields
    <2>3. deployments[x].state \in Holding
      BY <1>5, <2>2 DEF GivesBack, ReleasesOnce
    <2> QED BY <1>5, <2>3, GivesBackExact
  <1>6. ASSUME NEW d \in Devices, GivesBackAll(d)
        PROVE  LedgerExact'
    BY <1>6, GivesBackAllExact
  <1> QED BY <1>2, <1>3, <1>4, <1>5, <1>6 DEF Accounts

\* For callers that release nothing twice, and as long as the counters cannot
\* wrap, the ledgers count exactly what the deployments hold: every call that
\* ends a deployment gives back what reserve_deployment took for it, and no
\* release is refused.
THEOREM ExactAccounts ==
  ASSUME TogetherFit
  PROVE  Spec /\ [][ReleasesOnce]_vars => []LedgerExact
  <1>1. Init => LedgerExact
    BY EmptyMapType DEF Init, LedgerExact
  <1>2. /\ TypeOK /\ TypeOK' /\ Placed /\ Placed' /\ LedgerExact
        /\ [Next]_vars /\ [ReleasesOnce]_vars
        => LedgerExact'
    <2> SUFFICES ASSUME TypeOK, TypeOK', Placed, Placed', LedgerExact,
                        [Next]_vars, [ReleasesOnce]_vars
                 PROVE  LedgerExact'
      OBVIOUS
    <2>1. CASE ReleasesOnce
      <3>1. Accounts
        BY AccountKinds
      <3> QED BY <2>1, <3>1, ExactStep
    <2>2. CASE UNCHANGED vars
      <3>1. SameHolding
        BY <2>2 DEF vars, SameHolding
      <3>2. ledgers' = ledgers
        BY <2>2 DEF vars
      <3> QED BY <3>1, <3>2, KeepsExact
    <2> QED BY <2>1, <2>2
  <1> QED BY <1>1, <1>2, TypeCorrect, AlwaysPlaced, PTL DEF Spec

-----------------------------------------------------------------------------
(* Equal requests never leak *)

OneAmount == \A p, q \in Requests : Wanted(p) = Wanted(q)

\* u is some number of reservations of the amount a.
IsMultiple(u, a) == \E m \in Nat : \A i \in Dims : u[i] = m * a[i]

Multiples(a) == \A d \in DOMAIN ledgers : IsMultiple(ledgers[d].used, a)

\* What a release leaves: as much less, or nothing at all.
LEMMA ReleaseMultiple ==
  ASSUME NEW a \in Usage, NEW u \in Usage, IsMultiple(u, a)
  PROVE  /\ IsMultiple(release(u, a), a)
         /\ \/ \A i \in Dims : release(u, a)[i] = 0
            \/ \A i \in Dims : release(u, a)[i] = u[i] - a[i]
  <1>1. PICK m \in Nat : \A i \in Dims : u[i] = m * a[i]
    BY DEF IsMultiple
  <1>2. \A i \in Dims : a[i] \in Nat /\ u[i] \in Nat
    BY LedgerAssumption DEF Usage, Quantity
  <1>3. CASE m = 0
    <2>1. \A i \in Dims : u[i] = 0
      <3> SUFFICES ASSUME NEW i \in Dims PROVE u[i] = 0
        OBVIOUS
      <3>1. u[i] = 0 * a[i] /\ a[i] \in Nat
        BY <1>1, <1>2, <1>3
      <3> QED BY <3>1
    <2>2. \A i \in Dims : release(u, a)[i] = 0
      <3>1. CASE \E i \in Dims : u[i] < a[i]
        BY <2>1, <3>1 DEF release
      <3>2. CASE ~ \E i \in Dims : u[i] < a[i]
        <4>1. release(u, a) = [i \in Dims |-> u[i] - a[i]]
          BY <3>2 DEF release
        <4> SUFFICES ASSUME NEW i \in Dims PROVE release(u, a)[i] = 0
          OBVIOUS
        <4>2. a[i] \in Nat /\ u[i] = 0 /\ ~(u[i] < a[i])
          BY <1>2, <2>1, <3>2
        <4>3. a[i] = 0
          BY <4>2
        <4>4. release(u, a)[i] = u[i] - a[i]
          BY <4>1
        <4> QED BY <4>2, <4>3, <4>4
      <3> QED BY <3>1, <3>2
    <2>3. \A i \in Dims : release(u, a)[i] = m * a[i]
      BY <1>1, <1>3, <2>1, <2>2
    <2> QED BY <2>2, <2>3 DEF IsMultiple
  <1>4. CASE m # 0
    <2>1. ASSUME NEW i \in Dims
          PROVE  u[i] - a[i] = (m - 1) * a[i] /\ ~(u[i] < a[i])
      <3>1. PICK v \in Nat : v = a[i]
        BY <1>2
      <3>2. u[i] = m * v
        BY <1>1, <3>1
      <3>3. PICK k \in Nat : k = m - 1
        BY <1>4
      <3>4. m * v = k * v + v /\ k * v \in Nat
        BY <3>3
      <3> QED BY <3>1, <3>2, <3>3, <3>4
    <2>2. release(u, a) = [i \in Dims |-> u[i] - a[i]]
      BY <2>1 DEF release
    <2>3. m - 1 \in Nat
      BY <1>4
    <2>4. \A i \in Dims : release(u, a)[i] = (m - 1) * a[i]
      BY <2>1, <2>2
    <2> QED BY <2>2, <2>3, <2>4 DEF IsMultiple
  <1> QED BY <1>3, <1>4

\* The ledgers stay multiples, and do not leak, when one of them shrinks to
\* a multiple.
LEMMA ShrinksToMultiple ==
  ASSUME TypeOK, TypeOK', NoLeak, NEW a, Multiples(a),
         NEW d \in DOMAIN ledgers, DOMAIN ledgers' = DOMAIN ledgers,
         \A e \in DOMAIN ledgers \ {d} : ledgers'[e] = ledgers[e],
         IsMultiple(ledgers'[d].used, a),
         \A e \in Devices \ {d}, i \in Dims : Held(e, i)' = Held(e, i),
         \A i \in Dims : ledgers'[d].used[i] <= Held(d, i)'
  PROVE  NoLeak' /\ Multiples(a)'
  <1>1. DOMAIN ledgers \subseteq Devices
    BY DEF TypeOK
  <1>2. NoLeak'
    BY <1>1 DEF NoLeak
  <1>3. Multiples(a)'
    BY DEF Multiples
  <1> QED BY <1>2, <1>3

\* A reservation adds as much to the ledger as to what is held.
LEMMA TakesNoLeak ==
  ASSUME TypeOK, TypeOK', HeldFit', NoLeak, NEW a \in Usage, Multiples(a),
         NEW n, NEW d, Takes(n, d, a)
  PROVE  NoLeak' /\ Multiples(a)'
  <1>1. /\ DOMAIN ledgers' = DOMAIN ledgers
        /\ d \in DOMAIN ledgers
        /\ \A e \in DOMAIN ledgers \ {d} : ledgers'[e] = ledgers[e]
        /\ ledgers'[d].used = apply(ledgers[d].used, a)
    BY DEF Takes, TypeOK, Ledger
  <1>2. d \in Devices /\ ledgers[d].used \in Usage
    BY <1>1 DEF TypeOK, Ledger
  <1>3. ASSUME NEW i \in Dims
        PROVE  /\ ledgers'[d].used[i] = ledgers[d].used[i] + a[i]
               /\ ledgers'[d].used[i] <= Held(d, i)'
    <2>1. /\ Held(d, i)' = Held(d, i) + a[i]
          /\ Held(d, i) + a[i] < Modulus
      BY <1>2, TakesHeld
    <2>2. ledgers[d].used[i] <= Held(d, i)
      BY <1>1 DEF NoLeak
    <2>3. /\ a[i] \in Nat /\ ledgers[d].used[i] \in Nat
          /\ Held(d, i) \in Nat /\ Modulus \in Nat
      BY <1>2, HeldTypedNow, LedgerAssumption DEF HeldTyped, Usage, Quantity
    <2>4. ledgers[d].used[i] + a[i] < Modulus
      BY <2>1, <2>2, <2>3
    <2>5. Plus(ledgers[d].used[i], a[i]) = ledgers[d].used[i] + a[i]
      BY <2>3, <2>4, NoWrap
    <2>6. ledgers'[d].used[i] = ledgers[d].used[i] + a[i]
      BY <1>1, <2>5 DEF apply
    <2> QED BY <2>1, <2>2, <2>3, <2>6
  <1>4. IsMultiple(ledgers'[d].used, a)
    <2>1. PICK m \in Nat : \A i \in Dims : ledgers[d].used[i] = m * a[i]
      BY <1>1 DEF Multiples, IsMultiple
    <2>2. ASSUME NEW i \in Dims
          PROVE  ledgers'[d].used[i] = (m + 1) * a[i]
      <3>1. PICK v \in Nat : v = a[i]
        BY LedgerAssumption DEF Usage, Quantity
      <3>2. ledgers'[d].used[i] = m * v + v
        BY <1>3, <2>1, <3>1
      <3>3. m * v + v = (m + 1) * v
        OBVIOUS
      <3> QED BY <3>1, <3>2, <3>3
    <2>3. m + 1 \in Nat
      OBVIOUS
    <2> QED BY <2>2, <2>3 DEF IsMultiple
  <1>5. \A e \in Devices \ {d}, i \in Dims : Held(e, i)' = Held(e, i)
    BY TakesHeld
  <1> QED BY <1>1, <1>3, <1>4, <1>5, ShrinksToMultiple

\* A release takes from the ledger as much as from what is held, or empties
\* it; a second one takes something that others hold.
LEMMA GivesBackNoLeak ==
  ASSUME TypeOK, TypeOK', Placed, NoLeak, NEW a \in Usage, Multiples(a),
         NEW x \in DOMAIN deployments, deployments[x].resources = a,
         NEW to, GivesBack(x, to)
  PROVE  NoLeak' /\ Multiples(a)'
  <1>0. PICK d : d = deployments[x].device
    OBVIOUS
  <1>1. /\ d \in DOMAIN ledgers
        /\ DOMAIN ledgers' = DOMAIN ledgers
        /\ \A e \in DOMAIN ledgers \ {d} : ledgers'[e] = ledgers[e]
        /\ ledgers'[d].used = release(ledgers[d].used, a)
    BY <1>0, ReleasedLedger DEF GivesBack
  <1>2. d \in Devices /\ ledgers[d].used \in Usage
    BY <1>1 DEF TypeOK, Ledger
  <1>3. IsMultiple(ledgers[d].used, a)
    BY <1>1 DEF Multiples
  <1>4. /\ IsMultiple(ledgers'[d].used, a)
        /\ \/ \A i \in Dims : ledgers'[d].used[i] = 0
           \/ \A i \in Dims : ledgers'[d].used[i] = ledgers[d].used[i] - a[i]
    BY <1>1, <1>2, <1>3, ReleaseMultiple
  <1>5. ASSUME NEW i \in Dims
        PROVE  /\ ledgers[d].used[i] <= Held(d, i)
               /\ ledgers[d].used[i] \in Nat /\ a[i] \in Nat
               /\ Held(d, i) \in Nat /\ Held(d, i)' \in Nat
    BY <1>1, <1>2, HeldTypedNow, HeldTypedNext, LedgerAssumption
       DEF NoLeak, HeldTyped, Usage, Quantity
  <1>6. CASE deployments[x].state \in Holding
    <2>1. \A e \in Devices \ {d}, i \in Dims : Held(e, i)' = Held(e, i)
      BY <1>0, <1>6, GivesBackHeld
    <2>2. ASSUME NEW i \in Dims
          PROVE  ledgers'[d].used[i] <= Held(d, i)'
      <3>1. Held(d, i)' + a[i] = Held(d, i)
        BY <1>0, <1>2, <1>6, GivesBackHeld
      <3>2. CASE ledgers'[d].used[i] = 0
        BY <1>5, <3>2
      <3>3. CASE ledgers'[d].used[i] = ledgers[d].used[i] - a[i]
        BY <1>5, <3>1, <3>3
      <3> QED BY <1>4, <3>2, <3>3
    <2> QED BY <1>1, <1>4, <2>1, <2>2, ShrinksToMultiple
  <1>7. CASE deployments[x].state \notin Holding
    <2>1. /\ deployments[x].state \in Ended
          /\ to \in Ended
          /\ deployments' = Deployments({x}, to)
      BY <1>7 DEF GivesBack, Ended
    <2>2. /\ DOMAIN deployments' = DOMAIN deployments
          /\ \A y \in DOMAIN deployments :
               /\ deployments'[y].device = deployments[y].device
               /\ deployments'[y].resources = deployments[y].resources
               /\ y \in {x} => deployments'[y].state = to
               /\ y \notin {x} => deployments'[y].state = deployments[y].state
      BY <2>1, DeploymentsFields
    <2>3. SameHolding
      BY <2>1, <2>2 DEF SameHolding
    <2>4. \A e \in Devices, i \in Dims : Held(e, i)' = Held(e, i)
      BY <2>3, SameHeld
    <2>5. ASSUME NEW i \in Dims
          PROVE  ledgers'[d].used[i] <= Held(d, i)'
      <3>1. Held(d, i)' = Held(d, i)
        BY <1>2, <2>4
      <3>2. CASE ledgers'[d].used[i] = 0
        BY <1>5, <3>2
      <3>3. CASE ledgers'[d].used[i] = ledgers[d].used[i] - a[i]
        BY <1>5, <3>1, <3>3
      <3> QED BY <1>4, <3>2, <3>3
    <2> QED BY <1>1, <1>4, <2>4, <2>5, ShrinksToMultiple
  <1> QED BY <1>6, <1>7

\* The loop of retire_device gives back what its deployments still hold.
LEMMA GivesBackAllNoLeak ==
  ASSUME TypeOK, TypeOK', NoLeak, NEW a \in Usage, Multiples(a),
         \A x \in DOMAIN deployments : deployments[x].resources = a,
         NEW d \in Devices, GivesBackAll(d)
  PROVE  NoLeak' /\ Multiples(a)'
  <1>1. PICK S, req :
          /\ S = OnDevice(d, {"ACTIVE", "DEGRADED", "DRAINING"})
          /\ req = [x \in S |-> deployments[x].resources]
          /\ ledgers' = [ledgers EXCEPT
               ![d].used = ReleaseEach(ledgers[d].used, req, S, MaxId)]
    BY DEF GivesBackAll
  <1>2. d \in DOMAIN ledgers
    BY DEF GivesBackAll
  <1>3. /\ DOMAIN ledgers' = DOMAIN ledgers
        /\ \A e \in DOMAIN ledgers \ {d} : ledgers'[e] = ledgers[e]
        /\ ledgers'[d].used = ReleaseEach(ledgers[d].used, req, S, MaxId)
    BY <1>1, <1>2 DEF TypeOK, Ledger
  <1>4. PICK u : u = ledgers[d].used
    OBVIOUS
  <1>5. u \in Usage /\ IsMultiple(u, a)
    BY <1>2, <1>4 DEF TypeOK, Ledger, Multiples
  <1> DEFINE T == {v \in Usage : IsMultiple(v, a) /\ LeqUsage(v, u)}
  <1>6. u \in T
    BY <1>5, LeqUsageOrder
  <1>7. ASSUME NEW k \in S, NEW v \in T
        PROVE  release(v, req[k]) \in T
    <2>1. req[k] = a
      BY <1>1 DEF OnDevice
    <2>2. release(v, a) \in Usage /\ LeqUsage(release(v, a), v)
      BY ReleaseType
    <2>3. IsMultiple(release(v, a), a)
      BY ReleaseMultiple
    <2>4. LeqUsage(release(v, a), u)
      BY <1>5, <2>2, LeqUsageOrder
    <2> QED BY <2>1, <2>2, <2>3, <2>4
  <1>8. ledgers'[d].used \in T
    <2>1. MaxId \in Nat
      BY EngineAssumption
    <2>2. ReleaseEach(u, req, S, MaxId) \in T
      <3> HIDE DEF T
      <3> QED BY <1>6, <1>7, <2>1, LoopKeeps
    <2> QED BY <1>3, <1>4, <2>2
  <1>9. SameHolding
    BY GivesBackAllHolds
  <1>10. \A e \in Devices, i \in Dims : Held(e, i)' = Held(e, i)
    BY <1>9, SameHeld
  <1>11. ASSUME NEW i \in Dims
         PROVE  ledgers'[d].used[i] <= Held(d, i)'
    <2>1. /\ ledgers'[d].used[i] <= u[i]
          /\ u[i] <= Held(d, i)
      BY <1>2, <1>4, <1>8 DEF LeqUsage, NoLeak
    <2>2. /\ ledgers'[d].used[i] \in Nat /\ u[i] \in Nat
          /\ Held(d, i) \in Nat
      BY <1>5, <1>8, HeldTypedNow, LedgerAssumption
         DEF HeldTyped, Usage, Quantity
    <2> QED BY <1>10, <2>1, <2>2
  <1> QED BY <1>2, <1>3, <1>8, <1>10, <1>11, ShrinksToMultiple

\* A device that comes has nothing to leak.
LEMMA ComesNoLeak ==
  ASSUME TypeOK, TypeOK', Placed, NoLeak, NEW a \in Usage, Multiples(a), Comes
  PROVE  NoLeak' /\ Multiples(a)'
  <1>1. NoLeak'
    <2> SUFFICES ASSUME NEW d \in DOMAIN ledgers', NEW i \in Dims
                 PROVE  ledgers'[d].used[i] <= Held(d, i)'
      BY DEF NoLeak
    <2>1. /\ Held(d, i)' = Held(d, i)
          /\ d \in DOMAIN ledgers => ledgers'[d] = ledgers[d]
          /\ d \notin DOMAIN ledgers => /\ ledgers'[d].used[i] = 0
                                        /\ Held(d, i) = 0
      BY ComesHeld
    <2>2. CASE d \in DOMAIN ledgers
      BY <2>1, <2>2 DEF NoLeak
    <2>3. CASE d \notin DOMAIN ledgers
      BY <2>1, <2>3
    <2> QED BY <2>2, <2>3
  <1>2. Multiples(a)'
    <2> SUFFICES ASSUME NEW d \in DOMAIN ledgers'
                 PROVE  IsMultiple(ledgers'[d].used, a)
      BY DEF Multiples
    <2>1. CASE d \in DOMAIN ledgers
      BY <2>1 DEF Comes, Multiples
    <2>2. CASE d \notin DOMAIN ledgers
      <3>1. ledgers'[d].used = NoUsage
        BY <2>2 DEF Comes
      <3>2. ASSUME NEW i \in Dims
            PROVE  NoUsage[i] = 0 * a[i]
        <4>1. PICK v \in Nat : v = a[i]
          BY LedgerAssumption DEF Usage, Quantity
        <4>2. 0 * v = 0
          OBVIOUS
        <4> QED BY <4>1, <4>2 DEF NoUsage
      <3> QED BY <3>1, <3>2 DEF IsMultiple
    <2> QED BY <2>1, <2>2
  <1> QED BY <1>1, <1>2

\* One step of callers that all want the same.
LEMMA NoLeakStep ==
  ASSUME TogetherFit, TypeOK, TypeOK', Placed, Placed', NoLeak, Accounts,
         NEW a \in Usage, Multiples(a),
         \A req \in Requests : Wanted(req) = a
  PROVE  NoLeak' /\ Multiples(a)'
  <1>1. HeldFit'
    BY HeldFitNext
  <1>2. \A x \in DOMAIN deployments : deployments[x].resources = a
    BY DEF Placed
  <1>3. CASE UNCHANGED ledgers /\ SameHolding
    BY <1>3, SameHeld DEF NoLeak, Multiples
  <1>4. CASE Comes
    BY <1>4, ComesNoLeak
  <1>5. ASSUME NEW n, NEW d, NEW r, Takes(n, d, r)
        PROVE  NoLeak' /\ Multiples(a)'
    <2>1. r = a
      BY <1>5 DEF Takes
    <2> QED BY <1>1, <1>5, <2>1, TakesNoLeak
  <1>6. ASSUME NEW x \in DOMAIN deployments, NEW to, GivesBack(x, to)
        PROVE  NoLeak' /\ Multiples(a)'
    BY <1>2, <1>6, GivesBackNoLeak
  <1>7. ASSUME NEW d \in Devices, GivesBackAll(d)
        PROVE  NoLeak' /\ Multiples(a)'
    BY <1>2, <1>7, GivesBackAllNoLeak
  <1> QED BY <1>3, <1>4, <1>5, <1>6, <1>7 DEF Accounts

\* When all requests want the same, no call leaks, whichever calls interleave
\* and also for callers that release twice: a second release only takes away
\* what the deployments still hold, it never makes a later one be refused
\* while the ledger counts anything.
THEOREM EqualNeverLeaks ==
  ASSUME TogetherFit, OneAmount
  PROVE  Spec => []NoLeak
  <1>1. PICK a \in Usage : \A req \in Requests : Wanted(req) = a
    <2>1. \A req \in Requests : Wanted(req) \in Usage
      BY EngineAssumption DEF Wanted
    <2>2. NoUsage \in Usage
      BY NoUsageType
    <2> QED BY <2>1, <2>2 DEF OneAmount
  <1>2. Init => NoLeak /\ Multiples(a)
    BY EmptyMapType DEF Init, NoLeak, Multiples
  <1>3. /\ TypeOK /\ TypeOK' /\ Placed /\ Placed' /\ NoLeak /\ Multiples(a)
        /\ [Next]_vars
        => NoLeak' /\ Multiples(a)'
    BY <1>1, AccountKinds, NoLeakStep
  <1> QED BY <1>2, <1>3, TypeCorrect, AlwaysPlaced, PTL DEF Spec

-----------------------------------------------------------------------------
(* Records and ledgers agree, and every device is in the order *)

\* The reports of a device agree on its capacity.
ReportsAgree ==
  \A p, q \in Registrations \cup Updates :
    p.device_id = q.device_id => p.resource_capacity = q.resource_capacity

\* The capacity in a device's record is the reported one, and so is the one
\* its ledger was created with.
CapacityReported ==
  \A d \in DOMAIN devices :
    \E rec \in Registrations \cup Updates :
      /\ rec.device_id = d
      /\ devices[d].resource_capacity = rec.resource_capacity
      /\ ledgers[d].cap = rec.resource_capacity

AllInOrder ==
  \A d \in DOMAIN devices : \E i \in DOMAIN device_order : device_order[i] = d

\* The calls other than register_device add no device, and change a capacity
\* only to a reported one.
RecordsKept ==
  /\ device_order' = device_order
  /\ DOMAIN devices' = DOMAIN devices
  /\ \A d \in DOMAIN devices :
       \/ devices'[d].resource_capacity = devices[d].resource_capacity
       \/ \E rec \in Updates : rec.device_id = d /\ devices'[d] = rec

\* One device's record changes, but not its capacity.
LEMMA OneRecord ==
  ASSUME NEW d \in DOMAIN devices, NEW r,
         r.resource_capacity = devices[d].resource_capacity,
         devices' = [devices EXCEPT ![d] = r], device_order' = device_order,
         DOMAIN devices' = DOMAIN devices
  PROVE  RecordsKept
  <1> SUFFICES ASSUME NEW e \in DOMAIN devices
               PROVE  devices'[e].resource_capacity = devices[e].resource_capacity
    BY DEF RecordsKept
  <1>1. devices'[e] = IF e = d THEN r ELSE devices[e]
    OBVIOUS
  <1> QED BY <1>1

LEMMA DeviceCallRecords ==
  ASSUME TypeOK, DeviceCall, \A rec \in Registrations : ~register_device(rec)
  PROVE  RecordsKept
  <1>0. \A d \in DOMAIN devices : devices[d] \in DeviceRecord
    BY DEF TypeOK
  <1>1. ASSUME NEW rec \in Updates, update_device(rec)
        PROVE  RecordsKept
    <2>1. /\ DOMAIN devices' = DOMAIN devices
          /\ device_order' = device_order
          /\ \A d \in DOMAIN devices :
               devices'[d] = IF d = rec.device_id THEN rec ELSE devices[d]
      BY <1>1 DEF update_device, registry
    <2> QED BY <2>1 DEF RecordsKept
  <1>2. ASSUME NEW d \in Devices, retire_device(d)
        PROVE  RecordsKept
    <2>1. d \in DOMAIN devices /\ devices[d] \in DeviceRecord
      BY <1>0, <1>2 DEF retire_device
    <2>2. PICK r : /\ r.resource_capacity = devices[d].resource_capacity
                   /\ devices' = [devices EXCEPT ![d] = r]
      BY <1>2, <2>1 DEF retire_device, DeviceRecord
    <2> QED BY <1>2, <2>1, <2>2, OneRecord DEF retire_device, registry
  <1>3. ASSUME NEW d \in Devices, fence_device(d)
        PROVE  RecordsKept
    <2>1. d \in DOMAIN devices /\ devices[d] \in DeviceRecord
      BY <1>0, <1>3 DEF fence_device
    <2>2. PICK r : /\ r.resource_capacity = devices[d].resource_capacity
                   /\ devices' = [devices EXCEPT ![d] = r]
      BY <1>3, <2>1 DEF fence_device, DeviceRecord
    <2> QED BY <1>3, <2>1, <2>2, OneRecord DEF fence_device, registry
  <1>4. ASSUME NEW d \in Devices, NEW to, transition_device(d, to)
        PROVE  RecordsKept
    BY <1>0, <1>4, OneRecord DEF transition_device, registry, DeviceRecord
  <1>5. ASSUME NEW d \in Devices, NEW s, NEW k, set_device_state(d, s, k)
        PROVE  RecordsKept
    BY <1>0, <1>5, OneRecord DEF set_device_state, registry, DeviceRecord
  <1> QED BY <1>1, <1>2, <1>3, <1>4, <1>5 DEF DeviceCall

LEMMA OtherRecords ==
  ASSUME TypeOK, [Next]_vars, \A rec \in Registrations : ~register_device(rec)
  PROVE  RecordsKept
  <1>0. \A d \in DOMAIN devices : devices[d] \in DeviceRecord
    BY DEF TypeOK
  <1>1. ASSUME UNCHANGED <<devices, device_order>>
        PROVE  RecordsKept
    BY <1>1 DEF RecordsKept
  <1>2. CASE CatalogCall
    BY <1>1, <1>2 DEF CatalogCall, register_service, register_program,
                      retire_program
  <1>3. CASE WorkerCall
    <2>1. ASSUME NEW w, mark_worker_lost(w)
          PROVE  RecordsKept
      BY <1>0, <2>1 DEF mark_worker_lost, registry, RecordsKept, DeviceRecord
    <2> QED BY <1>1, <1>3, <2>1 DEF WorkerCall, register_worker, registry
  <1>4. CASE DeploymentCall
    BY <1>1, <1>4
       DEF DeploymentCall, reserve_deployment, stage_deployment,
           load_deployment, validate_deployment, activate_deployment,
           commit_deployment, cancel_deployment, rollback_deployment,
           drain_deployment, retire_deployment, fail_deployment, registry
  <1>5. CASE RecoveryCall
    <2>1. ASSUME NEW policy, apply_recovery(policy)
          PROVE  RecordsKept
      BY <1>0, <2>1 DEF apply_recovery, registry, RecordsKept, DeviceRecord
    <2> QED BY <1>1, <1>5, <2>1 DEF RecoveryCall, advance_epoch, registry
  <1>6. CASE UNCHANGED vars
    BY <1>1, <1>6 DEF vars
  <1> QED BY <1>2, <1>3, <1>4, <1>5, <1>6, DeviceCallRecords DEF Next

\* No call changes the capacity of a ledger.
LEMMA LedgerCaps ==
  ASSUME TypeOK, Placed, Accounts, NEW d \in DOMAIN ledgers
  PROVE  ledgers'[d].cap = ledgers[d].cap
  <1>0. \A e \in DOMAIN ledgers : ledgers[e] \in Ledger
    BY DEF TypeOK
  <1>1. CASE Comes
    BY <1>1 DEF Comes
  <1>2. ASSUME NEW n, NEW e, NEW r, Takes(n, e, r)
        PROVE  ledgers'[d].cap = ledgers[d].cap
    BY <1>0, <1>2 DEF Takes, Ledger
  <1>3. ASSUME NEW x \in DOMAIN deployments, NEW to, GivesBack(x, to)
        PROVE  ledgers'[d].cap = ledgers[d].cap
    BY <1>0, <1>3 DEF GivesBack, release_resources, Ledger
  <1>4. ASSUME NEW e \in Devices, GivesBackAll(e)
        PROVE  ledgers'[d].cap = ledgers[d].cap
    <2>1. PICK u : ledgers' = [ledgers EXCEPT ![e].used = u]
      BY <1>4 DEF GivesBackAll
    <2> QED BY <1>0, <2>1 DEF Ledger
  <1> QED BY <1>1, <1>2, <1>3, <1>4 DEF Accounts

\* What register_device does to the records, the ledgers and the order.
LEMMA RegisterAt ==
  ASSUME TypeOK, NEW rec \in Registrations, register_device(rec),
         NEW d, d = rec.device_id
  PROVE  /\ DOMAIN devices' = DOMAIN devices \cup {d}
         /\ devices'[d] = rec
         /\ ledgers'[d].cap = rec.resource_capacity
         /\ \A e \in DOMAIN devices : devices'[e] = devices[e]
         /\ \E n \in DOMAIN device_order' : device_order'[n] = d
         /\ \A i \in DOMAIN device_order : /\ i \in DOMAIN device_order'
                                           /\ device_order'[i] = device_order[i]
  <1>1. /\ d \notin DOMAIN devices
        /\ devices' = Put(devices, d, rec)
        /\ device_order' = Append(device_order, d)
        /\ ledgers' = Put(ledgers, d, [cap |-> rec.resource_capacity,
                                       used |-> NoUsage])
    BY DEF register_device, TypeOK
  <1>2. /\ DOMAIN devices' = DOMAIN devices \cup {d}
        /\ devices'[d] = rec
        /\ ledgers'[d].cap = rec.resource_capacity
        /\ \A e \in DOMAIN devices : devices'[e] = devices[e]
    BY <1>1 DEF Put
  <1> DEFINE n == Len(device_order) + 1
  <1>3. /\ n \in DOMAIN device_order'
        /\ device_order'[n] = d
        /\ \A i \in DOMAIN device_order : /\ i \in DOMAIN device_order'
                                          /\ device_order'[i] = device_order[i]
    BY <1>1 DEF TypeOK
  <1> QED BY <1>2, <1>3

LEMMA OrderStep ==
  ASSUME TypeOK, AllInOrder, [Next]_vars
  PROVE  AllInOrder'
  <1>1. ASSUME NEW rec \in Registrations, register_device(rec)
        PROVE  AllInOrder'
    <2>1. PICK d : d = rec.device_id
      OBVIOUS
    <2>2. /\ DOMAIN devices' = DOMAIN devices \cup {d}
          /\ \E n \in DOMAIN device_order' : device_order'[n] = d
          /\ \A i \in DOMAIN device_order : /\ i \in DOMAIN device_order'
                                            /\ device_order'[i] = device_order[i]
      BY <1>1, <2>1, RegisterAt
    <2> SUFFICES ASSUME NEW e \in DOMAIN devices'
                 PROVE  \E i \in DOMAIN device_order' : device_order'[i] = e
      BY DEF AllInOrder
    <2>3. CASE e = d
      BY <2>2, <2>3
    <2>4. CASE e # d
      <3>1. PICK i \in DOMAIN device_order : device_order[i] = e
        BY <2>2, <2>4 DEF AllInOrder
      <3> QED BY <2>2, <3>1
    <2> QED BY <2>3, <2>4
  <1>2. ASSUME \A rec \in Registrations : ~register_device(rec)
        PROVE  AllInOrder'
    BY <1>2, OtherRecords DEF RecordsKept, AllInOrder
  <1> QED BY <1>1, <1>2

LEMMA AlwaysInOrder == Spec => []AllInOrder
  <1>1. Init => AllInOrder
    BY EmptyMapType DEF Init, AllInOrder
  <1>2. TypeOK /\ AllInOrder /\ [Next]_vars => AllInOrder'
    BY OrderStep
  <1> QED BY <1>1, <1>2, TypeCorrect, PTL DEF Spec

LEMMA ReportedStep ==
  ASSUME ReportsAgree, TypeOK, TypeOK', Placed, CapacityReported, [Next]_vars
  PROVE  CapacityReported'
  <1>0. Accounts
    BY AccountKinds
  <1>1. /\ DOMAIN ledgers = DOMAIN devices
        /\ \A d \in DOMAIN devices : ledgers'[d].cap = ledgers[d].cap
    BY <1>0, LedgerCaps DEF TypeOK
  <1>2. ASSUME NEW rec \in Registrations, register_device(rec)
        PROVE  CapacityReported'
    <2>1. PICK d : d = rec.device_id
      OBVIOUS
    <2>2. /\ DOMAIN devices' = DOMAIN devices \cup {d}
          /\ devices'[d] = rec
          /\ ledgers'[d].cap = rec.resource_capacity
          /\ \A e \in DOMAIN devices : devices'[e] = devices[e]
      BY <1>2, <2>1, RegisterAt
    <2> QED BY <1>1, <2>1, <2>2 DEF CapacityReported
  <1>3. ASSUME \A rec \in Registrations : ~register_device(rec)
        PROVE  CapacityReported'
    <2>1. RecordsKept
      BY <1>3, OtherRecords
    <2>2. ASSUME NEW d \in DOMAIN devices
          PROVE  \E rec \in Registrations \cup Updates :
                   /\ rec.device_id = d
                   /\ devices'[d].resource_capacity = rec.resource_capacity
                   /\ ledgers'[d].cap = rec.resource_capacity
      <3>1. PICK rec \in Registrations \cup Updates :
              /\ rec.device_id = d
              /\ devices[d].resource_capacity = rec.resource_capacity
              /\ ledgers[d].cap = rec.resource_capacity
        BY DEF CapacityReported
      <3>2. CASE devices'[d].resource_capacity = devices[d].resource_capacity
        BY <1>1, <3>1, <3>2
      <3>3. ASSUME NEW new \in Updates, new.device_id = d, devices'[d] = new
            PROVE  devices'[d].resource_capacity = rec.resource_capacity
        BY <3>1, <3>3 DEF ReportsAgree
      <3> QED BY <1>1, <2>1, <3>1, <3>2, <3>3 DEF RecordsKept
    <2> QED BY <2>1, <2>2 DEF RecordsKept, CapacityReported
  <1> QED BY <1>2, <1>3

LEMMA AlwaysReported ==
  ASSUME ReportsAgree
  PROVE  Spec => []CapacityReported
  <1>1. Init => CapacityReported
    BY EmptyMapType DEF Init, CapacityReported
  <1>2. /\ TypeOK /\ TypeOK' /\ Placed /\ CapacityReported /\ [Next]_vars
        => CapacityReported'
    BY ReportedStep
  <1> QED BY <1>1, <1>2, TypeCorrect, AlwaysPlaced, PTL DEF Spec

-----------------------------------------------------------------------------
(* Measures and totals *)

\* A quotient at most n.
LEMMA Quotient ==
  ASSUME NEW a \in Nat, NEW c \in Nat \ {0}, NEW n \in Nat, a <= n * c
  PROVE  a \div c \in 0 .. n
  OBVIOUS

\* A used share is a fraction.
LEMMA ShareType ==
  ASSUME TypeOK, NEW d \in DOMAIN devices, NEW i \in Dims
  PROVE  Share(d, i) \in 0 .. Unit
  <1>1. devices[d].resource_capacity \in Usage /\ ledgers[d].used \in Usage
    BY DEF TypeOK, DeviceRecord, Ledger
  <1>2. PICK c \in Nat, u \in Nat : c = cap(d)[i] /\ u = usage(d)[i]
    BY <1>1, LedgerAssumption DEF cap, usage, Usage, Quantity
  <1>3. Unit \in Nat
    BY EligibilityAssumption
  <1>4. CASE c = 0 \/ u >= c
    BY <1>2, <1>3, <1>4 DEF Share
  <1>5. CASE c # 0 /\ u < c
    <2>1. Share(d, i) = (u * Unit) \div c
      BY <1>2, <1>5 DEF Share
    <2>2. u * Unit \in Nat /\ c \in Nat \ {0} /\ u * Unit <= Unit * c
      BY <1>3, <1>5
    <2>3. (u * Unit) \div c \in 0 .. Unit
      BY <1>3, <2>2, Quotient
    <2> QED BY <2>1, <2>3
  <1> QED BY <1>4, <1>5

\* The largest share is one.
LEMMA LargestShare ==
  ASSUME TypeOK, NEW d \in DOMAIN devices
  PROVE  \E m \in 0 .. Unit : /\ headroom(d) = Unit - m
                              /\ \A i \in Dims : Share(d, i) <= m
  <1> DEFINE S == {Share(d, i) : i \in Dims}
             G == {Unit - v : v \in S}
  <1>1. Unit \in Nat /\ QueueDim \in Dims
    BY EligibilityAssumption
  <1>2. S # {} /\ S \subseteq 0 .. Unit
    BY <1>1, ShareType
  <1>3. \E m \in S : \A v \in S : m >= v
    <2> HIDE DEF S
    <2>0. ASSUME NEW v \in S PROVE Unit - v \in Nat
      BY <1>1, <1>2
    <2>1. G # {} /\ G \subseteq Nat
      BY <1>2, <2>0
    <2>2. PICK g \in G : \A k \in G : g <= k
      <3> HIDE DEF G
      <3> QED BY <2>1, LeastNumber
    <2>3. PICK m \in S : g = Unit - m
      OBVIOUS
    <2>4. ASSUME NEW v \in S PROVE m >= v
      <3>1. Unit - m <= Unit - v
        BY <2>2, <2>3
      <3>2. m \in Int /\ v \in Int
        BY <1>2
      <3> QED BY <1>1, <3>1, <3>2
    <2> QED BY <2>4
  <1>4. Max(S) \in S /\ \A v \in S : Max(S) >= v
    <2> HIDE DEF S
    <2> QED BY <1>3 DEF Max
  <1>5. PICK m : m = Max(S)
    OBVIOUS
  <1>6. headroom(d) = Unit - m
    BY <1>5 DEF headroom
  <1>7. m \in 0 .. Unit /\ \A v \in S : m >= v
    BY <1>2, <1>4, <1>5
  <1>8. ASSUME NEW i \in Dims PROVE Share(d, i) <= m
    <2>1. Share(d, i) \in S
      OBVIOUS
    <2>2. m >= Share(d, i) /\ Share(d, i) \in Int
      BY <1>2, <1>7, <2>1
    <2> QED BY <1>7, <2>2
  <1> QED BY <1>6, <1>7, <1>8

\* The parts of a score that do not depend on what runs on the device.
Fixed(d, ask) ==
  3 * normalized(d, ask).LOCALITY
    + 2 * normalized(d, ask).HOST_CPU_SAVINGS
    - 3 * normalized(d, ask).FAILURE_RISK
    + 3 * normalized(d, ask).POLICY_PREFERENCE

\* A fraction of a fraction.
LEMMA TenthsType ==
  ASSUME NEW n \in Nat
  PROVE  /\ Tenths(n) \in Nat
         /\ 10 * Tenths(n) <= n * Unit
  <1>1. Unit \in Nat
    BY EligibilityAssumption
  <1>2. PICK a \in Nat : a = n * Unit
    BY <1>1
  <1>3. a \div 10 \in Nat /\ 10 * (a \div 10) <= a
    OBVIOUS
  <1> QED BY <1>2, <1>3 DEF Tenths

LEMMA FixedType ==
  ASSUME NEW d \in Devices, NEW ask
  PROVE  /\ normalized(d, ask).LOCALITY \in Int
         /\ normalized(d, ask).HOST_CPU_SAVINGS \in Int
         /\ normalized(d, ask).FAILURE_RISK \in Int
         /\ normalized(d, ask).POLICY_PREFERENCE \in Int
         /\ Fixed(d, ask) \in Int
  <1> DEFINE n == normalized(d, ask)
  <1>1. n.LOCALITY \in Int
    <2>1. PICK k \in Nat : locality_value(Hardware[d].locality) = Tenths(k)
      BY EligibilityAssumption DEF locality_value
    <2>2. n.LOCALITY = Tenths(k)
      BY <2>1 DEF normalized
    <2> QED BY <2>2, TenthsType
  <1>2. n.FAILURE_RISK \in Int
    <2>1. PICK k \in Nat : k = 2 * health_severity(Hardware[d].health)
      BY EligibilityAssumption DEF health_severity
    <2>2. n.FAILURE_RISK = Tenths(k)
      BY <2>1 DEF normalized
    <2> QED BY <2>2, TenthsType
  <1>3. n.HOST_CPU_SAVINGS \in Int
    <2>1. Tenths(8) \in Int /\ Tenths(5) \in Int
      BY TenthsType
    <2>2. n.HOST_CPU_SAVINGS =
            IF ask.offload_class \in {"ENCRYPTION", "COMPRESSION"}
            THEN Tenths(8) ELSE Tenths(5)
      BY DEF normalized
    <2> QED BY <2>1, <2>2
  <1>4. n.POLICY_PREFERENCE \in Int
    BY EligibilityAssumption DEF normalized
  <1>5. Fixed(d, ask) \in Int
    <2> HIDE DEF n
    <2> QED BY <1>1, <1>2, <1>3, <1>4 DEF Fixed, n
  <1> QED BY <1>1, <1>2, <1>3, <1>4, <1>5

\* The total of a device.
LEMMA TotalIs ==
  ASSUME TypeOK, NEW d \in DOMAIN devices, NEW ask
  PROVE  /\ total(d, ask) =
              Fixed(d, ask) + 2 * headroom(d) + 2 * (Unit - queue_pressure(d))
                + (Unit - device_load(d))
                + (IF warm(d, ask) THEN 5 * Unit + Tenths(7)
                   ELSE Tenths(4) + Tenths(5))
         /\ Fixed(d, ask) \in Int
         /\ headroom(d) \in 0 .. Unit
         /\ queue_pressure(d) \in 0 .. Unit
         /\ device_load(d) \in 0 .. Unit
         /\ total(d, ask) \in Int
  <1> DEFINE n == normalized(d, ask)
  <1>0. d \in Devices /\ Unit \in Nat /\ QueueDim \in Dims /\ SlotDim \in Dims
    BY EligibilityAssumption DEF TypeOK
  <1>1. /\ n.WARM_SERVICE = IF warm(d, ask) THEN Unit ELSE 0
        /\ n.HEADROOM = headroom(d)
        /\ n.QUEUE_PRESSURE = Unit - queue_pressure(d)
        /\ n.DEVICE_LOAD = Unit - device_load(d)
        /\ n.STATE_TRANSFER = IF warm(d, ask) THEN Unit ELSE Tenths(4)
        /\ n.OFFLOAD_VALUE = IF warm(d, ask) THEN Tenths(7) ELSE Tenths(5)
        /\ n.ENERGY = Tenths(5)
    BY DEF normalized
  <1>2. /\ n.LOCALITY \in Int
        /\ n.HOST_CPU_SAVINGS \in Int
        /\ n.FAILURE_RISK \in Int
        /\ n.POLICY_PREFERENCE \in Int
        /\ Fixed(d, ask) \in Int
    BY <1>0, FixedType
  <1> HIDE DEF n
  <1>3. total(d, ask) =
          n.WARM_SERVICE * 4 + n.LOCALITY * 3 + n.HEADROOM * 2
            + n.QUEUE_PRESSURE * 2 + n.DEVICE_LOAD * 1 + n.STATE_TRANSFER * 1
            + n.HOST_CPU_SAVINGS * 2 + n.OFFLOAD_VALUE * 1
            + n.FAILURE_RISK * (-3) + n.ENERGY * 0 + n.POLICY_PREFERENCE * 3
    BY DEF total, weight_of, n
  <1>4. Fixed(d, ask) = 3 * n.LOCALITY + 2 * n.HOST_CPU_SAVINGS
                          - 3 * n.FAILURE_RISK + 3 * n.POLICY_PREFERENCE
    BY DEF Fixed, n
  <1>5. headroom(d) \in 0 .. Unit
    BY <1>0, LargestShare
  <1>6. queue_pressure(d) \in 0 .. Unit
    BY <1>0, ShareType DEF queue_pressure
  <1>7. Tenths(4) \in Nat /\ Tenths(5) \in Nat /\ Tenths(7) \in Nat
    BY TenthsType
  <1>8. device_load(d) \in 0 .. Unit
    <2>1. 10 * Tenths(5) <= 5 * Unit
      BY TenthsType
    <2>2. Tenths(5) \in 0 .. Unit
      BY <1>0, <1>7, <2>1
    <2> QED BY <1>0, <2>2, ShareType DEF device_load
  <1>9. PICK L \in Int, C \in Int, R \in Int, P \in Int, h \in Int, q \in Int,
             l \in Int, u \in Int, four \in Int, five \in Int, seven \in Int :
          /\ L = n.LOCALITY /\ C = n.HOST_CPU_SAVINGS /\ R = n.FAILURE_RISK
          /\ P = n.POLICY_PREFERENCE /\ h = headroom(d)
          /\ q = queue_pressure(d) /\ l = device_load(d) /\ u = Unit
          /\ four = Tenths(4) /\ five = Tenths(5) /\ seven = Tenths(7)
    <2>1. /\ headroom(d) \in Int /\ queue_pressure(d) \in Int
          /\ device_load(d) \in Int /\ Unit \in Int
      BY <1>0, <1>5, <1>6, <1>8
    <2>2. Tenths(4) \in Int /\ Tenths(5) \in Int /\ Tenths(7) \in Int
      BY <1>7
    <2> QED BY <1>2, <2>1, <2>2, Zenon
  <1>10. Fixed(d, ask) = 3 * L + 2 * C - 3 * R + 3 * P
    BY <1>4, <1>9
  <1>11. CASE warm(d, ask)
    <2>1. total(d, ask) = u * 4 + L * 3 + h * 2 + (u - q) * 2 + (u - l) * 1
                            + u * 1 + C * 2 + seven * 1 + R * (-3) + five * 0
                            + P * 3
      BY <1>1, <1>3, <1>9, <1>11
    <2>2. u * 4 + L * 3 + h * 2 + (u - q) * 2 + (u - l) * 1
            + u * 1 + C * 2 + seven * 1 + R * (-3) + five * 0 + P * 3
            = (3 * L + 2 * C - 3 * R + 3 * P) + 2 * h + 2 * (u - q) + (u - l)
                + (5 * u + seven)
      OBVIOUS
    <2> QED BY <1>2, <1>5, <1>6, <1>8, <1>9, <1>10, <1>11, <2>1, <2>2
  <1>12. CASE ~warm(d, ask)
    <2>1. total(d, ask) = 0 * 4 + L * 3 + h * 2 + (u - q) * 2 + (u - l) * 1
                            + four * 1 + C * 2 + five * 1 + R * (-3) + five * 0
                            + P * 3
      BY <1>1, <1>3, <1>9, <1>12
    <2>2. 0 * 4 + L * 3 + h * 2 + (u - q) * 2 + (u - l) * 1
            + four * 1 + C * 2 + five * 1 + R * (-3) + five * 0 + P * 3
            = (3 * L + 2 * C - 3 * R + 3 * P) + 2 * h + 2 * (u - q) + (u - l)
                + (four + five)
      OBVIOUS
    <2> QED BY <1>2, <1>5, <1>6, <1>8, <1>9, <1>10, <1>12, <2>1, <2>2
  <1> QED BY <1>11, <1>12

-----------------------------------------------------------------------------
(* The front of the ranking *)

\* Place i with score p goes before place j with score q in a stable sort by
\* descending score.
Before(p, i, q, j) == p > q \/ (p = q /\ i <= j)

LEMMA BeforeTurns ==
  ASSUME NEW p \in Int, NEW q \in Int, NEW r \in Int,
         NEW i \in Nat, NEW j \in Nat, NEW k \in Nat,
         Before(p, i, r, j), ~Before(p, i, q, k), j <= k
  PROVE  Before(q, k, r, j)
  BY DEF Before

\* A finite, nonempty set of places has a first one.
LEMMA FirstExists ==
  ASSUME NEW n \in Nat, NEW S, S \subseteq 1 .. n, S # {},
         NEW score \in [S -> Int]
  PROVE  \E i \in S : \A j \in S : Before(score[i], i, score[j], j)
  <1> DEFINE First(k) == \/ \A j \in S : j > k
                         \/ \E i \in S : \A j \in S : j <= k => Before(score[i], i, score[j], j)
             T == {k \in 0 .. n : First(k)}
  <1>1. 0 \in T
    OBVIOUS
  <1>2. ASSUME NEW k \in 1 .. n, k - 1 \in T
        PROVE  k \in T
    <2>0. \A j \in S : j \in Nat /\ score[j] \in Int
      OBVIOUS
    <2>1. CASE k \notin S
      <3>1. \A j \in S : j # k
        BY <2>1
      <3>2. \A j \in S : (j > k - 1 => j > k) /\ (j <= k => j <= k - 1)
        BY <2>0, <3>1
      <3>3. First(k)
        BY <1>2, <3>2
      <3> QED BY <3>3
    <2>2. CASE k \in S
      <3>1. CASE \A j \in S : j > k - 1
        <4>1. ASSUME NEW j \in S, j <= k
              PROVE  Before(score[k], k, score[j], j)
          <5>1. j > k - 1
            BY <3>1
          <5>2. j = k
            BY <2>0, <4>1, <5>1
          <5> QED BY <5>2 DEF Before
        <4>2. First(k)
          BY <2>2, <4>1
        <4> QED BY <4>2
      <3>2. ASSUME NEW i \in S,
                   \A j \in S : j <= k - 1 => Before(score[i], i, score[j], j)
            PROVE  k \in T
        <4>1. CASE Before(score[i], i, score[k], k)
          <5>1. ASSUME NEW j \in S, j <= k PROVE Before(score[i], i, score[j], j)
            <6>1. j = k \/ j <= k - 1
              BY <2>0, <5>1
            <6> QED BY <3>2, <4>1, <6>1
          <5>2. First(k)
            BY <5>1
          <5> QED BY <5>2
        <4>2. CASE ~Before(score[i], i, score[k], k)
          <5>1. ASSUME NEW j \in S, j <= k PROVE Before(score[k], k, score[j], j)
            <6>1. CASE j = k
              BY <6>1 DEF Before
            <6>2. CASE j # k
              <7>1. Before(score[i], i, score[j], j)
                BY <2>0, <3>2, <5>1, <6>2
              <7>2. score[i] \in Int /\ score[k] \in Int /\ score[j] \in Int
                BY <2>0, <2>2
              <7>3. i \in Nat /\ j \in Nat /\ k \in Nat /\ j <= k
                BY <2>0, <5>1
              <7> QED BY <4>2, <7>1, <7>2, <7>3, BeforeTurns, Zenon
            <6> QED BY <6>1, <6>2
          <5>2. First(k)
            BY <2>2, <5>1
          <5> QED BY <5>2
        <4> QED BY <4>1, <4>2
      <3> QED BY <1>2, <3>1, <3>2
    <2> QED BY <2>1, <2>2
  <1>3. n \in T
    <2> HIDE DEF T
    <2>1. 0 .. n \subseteq T
      BY <1>1, <1>2, CountUp
    <2> QED BY <2>1
  <1>4. ~ \A j \in S : j > n
    <2>1. PICK j \in S : TRUE
      OBVIOUS
    <2>2. j \in Nat /\ j <= n
      BY <2>1
    <2> QED BY <2>2
  <1>5. \A j \in S : j <= n
    OBVIOUS
  <1> QED BY <1>3, <1>4, <1>5

\* What evaluate_offload selects passed, and no device that passed has a
\* higher total.
LEMMA SelectedIsBest ==
  ASSUME TypeOK, NEW ask, NEW d, d = evaluate_offload(ask).selected, d # Null
  PROVE  /\ d \in DOMAIN devices
         /\ Rejections(d, ask) = {}
         /\ \A j \in DOMAIN device_order :
              /\ device_order[j] \in DOMAIN devices
              /\ Rejections(device_order[j], ask) = {}
              => total(device_order[j], ask) <= total(d, ask)
  <1>1. PICK S, n :
          /\ S = passed(ask)
          /\ n = Len(device_order)
    OBVIOUS
  <1>2. /\ S # {}
        /\ d = front(S, ask)
    BY <1>1 DEF evaluate_offload
  <1>3. n \in Nat /\ DOMAIN device_order = 1 .. n
    BY <1>1 DEF TypeOK
  <1>4. /\ S \subseteq 1 .. n
        /\ \A i \in DOMAIN device_order :
             i \in S <=> /\ device_order[i] \in DOMAIN devices
                         /\ Rejections(device_order[i], ask) = {}
    BY <1>1, <1>3 DEF passed
  <1>5. PICK score : score = [i \in S |-> total(device_order[i], ask)]
    OBVIOUS
  <1>6. score \in [S -> Int]
    BY <1>3, <1>4, <1>5, TotalIs
  <1>7. \E i \in S : \A j \in S : Before(score[i], i, score[j], j)
    BY <1>2, <1>3, <1>4, <1>6, FirstExists
  <1> DEFINE best == CHOOSE i \in S : \A j \in S : Before(score[i], i, score[j], j)
  <1>8. best \in S /\ \A j \in S : Before(score[best], best, score[j], j)
    BY <1>7
  <1>9. d = device_order[best]
    BY <1>2, <1>5 DEF front, Before
  <1> HIDE DEF best
  <1>10. d \in DOMAIN devices /\ Rejections(d, ask) = {}
    BY <1>3, <1>4, <1>8, <1>9
  <1>11. ASSUME NEW j \in DOMAIN device_order,
                device_order[j] \in DOMAIN devices,
                Rejections(device_order[j], ask) = {}
         PROVE  total(device_order[j], ask) <= total(d, ask)
    <2>1. j \in S
      BY <1>4, <1>11
    <2>2. /\ score[j] = total(device_order[j], ask)
          /\ score[best] = total(d, ask)
      BY <1>5, <1>8, <1>9, <2>1
    <2>3. score[j] \in Int /\ score[best] \in Int
      BY <1>6, <1>8, <2>1
    <2>4. score[best] > score[j] \/ score[best] = score[j]
      BY <1>8, <2>1 DEF Before
    <2> QED BY <2>2, <2>3, <2>4
  <1> QED BY <1>10, <1>11


-----------------------------------------------------------------------------
(* What is selected can be reserved *)

\* A hard constraint that holds is among the reasons.
LEMMA NothingFails ==
  ASSUME NEW d, NEW ask, Rejections(d, ask) = {}
  PROVE  /\ devices[d].lifecycle # "DRAINING"
         /\ devices[d].lifecycle # "FAILED"
         /\ ~EvidenceStale(d)
         /\ devices[d].lifecycle = "READY"
         /\ ~(wanted_program(ask) # Null /\ Artifact(ask) = Null)
         /\ ~(headroom(d) * 100 < Policy.min_headroom * Unit)
         /\ can_admit(d, Resources(ask))
  <1>1. devices[d].lifecycle # "DRAINING" /\ devices[d].lifecycle # "FAILED"
    BY DEF Rejections, DeviceReasons, When
  <1>2. ~EvidenceStale(d)
    BY <1>1 DEF Rejections, DeviceReasons, When
  <1>3. devices[d].lifecycle = "READY"
    BY <1>1, <1>2 DEF Rejections, DeviceReasons, When
  <1>4. ~(wanted_program(ask) # Null /\ Artifact(ask) = Null)
    BY DEF Rejections, CatalogReasons, When
  <1>5. ~(headroom(d) * 100 < Policy.min_headroom * Unit)
    BY DEF Rejections, LoadReasons, When
  <1>6. can_admit(d, Resources(ask))
    BY DEF Rejections, LoadReasons, When
  <1> QED BY <1>1, <1>2, <1>3, <1>4, <1>5, <1>6

LEMMA EligibleNow ==
  ASSUME TypeOK, CapacityReported, ReportsAgree
  PROVE  EligibleIsDeployable
  <1> SUFFICES ASSUME NEW ask \in Asks, NEW d,
                      d = evaluate_offload(ask).selected, d # Null,
                      ask.service \in services \cup {Null},
                      ask.service = Null \/ ask.required_program = Null,
                      NEW p, p = BoundProgram(ask)
               PROVE  /\ is_ready_for_offload(d)
                      /\ can_reserve(ledgers[d].cap, ledgers[d].used,
                                     Resources(ask))
                      /\ p # Null => ProgramCurrent(p, current_program_gen[p])
    BY DEF EligibleIsDeployable
  <1>1. d \in DOMAIN devices /\ Rejections(d, ask) = {}
    BY SelectedIsBest
  <1>2. is_ready_for_offload(d)
    BY <1>1, NothingFails DEF is_ready_for_offload, EvidenceStale, TypeOK,
                              DeviceRecord
  <1>3. can_reserve(ledgers[d].cap, ledgers[d].used, Resources(ask))
    <2>1. cap(d) = ledgers[d].cap /\ usage(d) = ledgers[d].used
      BY <1>1 DEF CapacityReported, cap, usage
    <2>2. can_admit(d, Resources(ask))
      BY <1>1, NothingFails
    <2> QED BY <2>1, <2>2 DEF can_admit, can_reserve
  <1>4. ASSUME p # Null
        PROVE  ProgramCurrent(p, current_program_gen[p])
    <2>1. wanted_program(ask) = p
      <3>1. Null \notin services
        BY EngineAssumption DEF TypeOK
      <3>2. CASE ask.service = Null
        BY <3>1, <3>2 DEF wanted_program, ServiceOf, BoundProgram
      <3>3. CASE ask.service # Null
        BY <3>1, <3>3 DEF wanted_program, ServiceOf, BoundProgram
      <3> QED BY <3>2, <3>3
    <2>2. Artifact(ask) # Null
      BY <1>1, <1>4, <2>1, NothingFails
    <2>3. current_program_gen[p] \in programs[p]
      BY <1>4, <2>1, <2>2 DEF Artifact
    <2>4. p \in Programs
      <3>1. CASE ask.required_program # Null \/ ask.service = Null
        BY <1>4, <3>1, EligibilityAssumption DEF BoundProgram
      <3>2. CASE ~(ask.required_program # Null \/ ask.service = Null)
        <4>1. ask.service \in Services
          BY <3>2 DEF TypeOK
        <4> QED BY <1>4, <3>2, <4>1, EngineAssumption DEF BoundProgram
      <3> QED BY <3>1, <3>2
    <2>5. current_program_gen[p] \in 1 .. MaxProgramGen
      BY <2>3, <2>4 DEF TypeOK
    <2> QED BY <2>5, EngineAssumption DEF ProgramCurrent
  <1> QED BY <1>2, <1>3, <1>4

\* EligibleIsDeployable: evaluate_offload checks the capacity in a device's
\* record and the program table of a snapshot, reserve_deployment and
\* commit_deployment check the ledger and the table of the engine; a device
\* that the first selects is one that the others accept, if the reports of a
\* device agree on its capacity.
THEOREM SelectedIsDeployable ==
  ASSUME ReportsAgree
  PROVE  Spec => []EligibleIsDeployable
  <1>1. TypeOK /\ CapacityReported => EligibleIsDeployable
    BY EligibleNow
  <1> QED BY <1>1, TypeCorrect, AlwaysReported, PTL

-----------------------------------------------------------------------------
(* The warm device goes first *)

LEMMA SevenTenths == Tenths(5) <= Tenths(7)
  <1>1. PICK u \in Nat : u = Unit
    BY EligibilityAssumption
  <1>2. (5 * u) \div 10 <= (7 * u) \div 10
    OBVIOUS
  <1> QED BY <1>1, <1>2 DEF Tenths

\* What a device costs that passed the headroom limit: its pressure and its
\* load are at most M, nine tenths of the whole.
LEMMA Loaded ==
  ASSUME TypeOK, NEW d \in DOMAIN devices, NEW ask, Rejections(d, ask) = {},
         Policy.min_headroom \in Nat, Policy.min_headroom >= 10
  PROVE  /\ 10 * headroom(d) >= Unit
         /\ 10 * queue_pressure(d) <= 9 * Unit
         /\ 10 * device_load(d) <= 9 * Unit
  <1>1. PICK m \in 0 .. Unit : /\ headroom(d) = Unit - m
                               /\ \A i \in Dims : Share(d, i) <= m
    BY LargestShare
  <1>2. PICK u \in Nat, h \in Int, k \in Nat :
          u = Unit /\ h = headroom(d) /\ k = Policy.min_headroom
    BY <1>1, EligibilityAssumption
  <1>3. ~(h * 100 < k * u)
    BY <1>2, NothingFails
  <1>4. k * u >= 10 * u
    BY <1>2
  <1>5. 10 * h >= u
    BY <1>3, <1>4
  <1>6. 10 * m <= 9 * u
    BY <1>1, <1>2, <1>5
  <1>7. \A i \in Dims : Share(d, i) \in Nat /\ 10 * Share(d, i) <= 9 * u
    <2> SUFFICES ASSUME NEW i \in Dims
                 PROVE  Share(d, i) \in Nat /\ 10 * Share(d, i) <= 9 * u
      OBVIOUS
    <2>1. Share(d, i) \in 0 .. Unit /\ Share(d, i) <= m
      BY <1>1, ShareType
    <2>2. PICK v \in Nat : v = Share(d, i) /\ v <= m
      BY <1>2, <2>1
    <2>3. 10 * v <= 9 * u
      BY <1>1, <1>2, <1>6, <2>2
    <2> QED BY <2>2, <2>3
  <1>8. 10 * queue_pressure(d) <= 9 * Unit
    BY <1>2, <1>7, EligibilityAssumption DEF queue_pressure
  <1>9. 10 * device_load(d) <= 9 * Unit
    <2>1. CASE cap(d)[SlotDim] = 0
      <3>1. Tenths(5) \in Nat /\ 10 * Tenths(5) <= 5 * Unit
        BY TenthsType
      <3>2. 10 * Tenths(5) <= 9 * u
        BY <1>2, <3>1
      <3> QED BY <1>2, <2>1, <3>2 DEF device_load
    <2>2. CASE cap(d)[SlotDim] # 0
      BY <1>2, <1>7, <2>2, EligibilityAssumption DEF device_load
    <2> QED BY <2>1, <2>2
  <1> QED BY <1>2, <1>5, <1>8, <1>9

\* Of two devices with the same hardware the warm one has the higher total.
LEMMA WarmIsHigher ==
  ASSUME TypeOK, NEW ask, NEW d \in DOMAIN devices, NEW e \in DOMAIN devices,
         Hardware[d] = Hardware[e],
         d \in Policy.preferred_devices <=> e \in Policy.preferred_devices,
         warm(d, ask), ~warm(e, ask), Rejections(d, ask) = {},
         Policy.min_headroom \in Nat, Policy.min_headroom >= 10
  PROVE  ~(total(d, ask) <= total(e, ask))
  <1>1. Fixed(d, ask) = Fixed(e, ask)
    BY DEF Fixed, normalized
  <1>2. /\ Tenths(4) \in Nat /\ Tenths(5) \in Nat /\ Tenths(7) \in Nat
        /\ 10 * Tenths(4) <= 4 * Unit
        /\ Tenths(5) <= Tenths(7)
    BY TenthsType, SevenTenths
  <1>3. PICK u \in Nat \ {0}, f \in Int, four \in Nat, five \in Nat,
             seven \in Nat :
          /\ u = Unit /\ f = Fixed(d, ask) /\ four = Tenths(4)
          /\ five = Tenths(5) /\ seven = Tenths(7)
    BY <1>2, TotalIs, EligibilityAssumption
  <1>4. PICK h \in 0 .. u, q \in 0 .. u, l \in 0 .. u :
          h = headroom(d) /\ q = queue_pressure(d) /\ l = device_load(d)
    BY <1>3, TotalIs
  <1>5. PICK h2 \in 0 .. u, q2 \in 0 .. u, l2 \in 0 .. u :
          h2 = headroom(e) /\ q2 = queue_pressure(e) /\ l2 = device_load(e)
    BY <1>3, TotalIs
  <1>6. total(d, ask) = f + 2 * h + 2 * (u - q) + (u - l) + (5 * u + seven)
    BY <1>3, <1>4, TotalIs
  <1>7. total(e, ask) = f + 2 * h2 + 2 * (u - q2) + (u - l2) + (four + five)
    BY <1>1, <1>3, <1>5, TotalIs
  <1>8. 10 * h >= u /\ 10 * q <= 9 * u /\ 10 * l <= 9 * u
    BY <1>3, <1>4, Loaded
  <1>9. 10 * four <= 4 * u /\ five <= seven
    BY <1>2, <1>3
  <1>10. ~( f + 2 * h + 2 * (u - q) + (u - l) + (5 * u + seven)
              <= f + 2 * h2 + 2 * (u - q2) + (u - l2) + (four + five) )
    BY <1>8, <1>9
  <1> QED BY <1>6, <1>7, <1>10

LEMMA WarmNow ==
  ASSUME TypeOK, AllInOrder,
         Policy.min_headroom \in Nat, Policy.min_headroom >= 10
  PROVE  WarmPreferred
  <1> SUFFICES ASSUME NEW ask \in Asks,
                      NEW d \in DOMAIN devices, NEW e \in DOMAIN devices,
                      Hardware[d] = Hardware[e],
                      d \in Policy.preferred_devices
                        <=> e \in Policy.preferred_devices,
                      Rejections(d, ask) = {}, warm(d, ask), ~warm(e, ask),
                      evaluate_offload(ask).selected = e
               PROVE  FALSE
    BY DEF WarmPreferred
  <1>1. e # Null
    BY EngineAssumption DEF TypeOK
  <1>2. PICK i \in DOMAIN device_order : device_order[i] = d
    BY DEF AllInOrder
  <1>3. total(d, ask) <= total(e, ask)
    BY <1>1, <1>2, SelectedIsBest
  <1> QED BY <1>3, WarmIsHigher

\* WarmPreferred: with the weights of Policy::defaults and a headroom limit
\* of a tenth or more, as there, what evaluate_offload gives a device for
\* its room, its queues and its load never outweighs what it gives another,
\* on the same hardware, for already running what is asked for.
THEOREM WarmGoesFirst ==
  ASSUME Policy.min_headroom \in Nat, Policy.min_headroom >= 10
  PROVE  Spec => []WarmPreferred
  <1>1. TypeOK /\ AllInOrder => WarmPreferred
    BY WarmNow
  <1> QED BY <1>1, TypeCorrect, AlwaysInOrder, PTL

\* The calls between which requests are evaluated are calls of the engine:
\* what holds of Spec holds of them.
LEMMA PlacementIsSpec == PlacementSpec => Spec
  <1>1. PlacementCall => Next
    BY DEF PlacementCall, Next, DeviceCall
  <1> QED BY <1>1, PTL DEF PlacementSpec, Spec

=============================================================================

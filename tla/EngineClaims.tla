---------------------------- MODULE EngineClaims ----------------------------
(***************************************************************************)
(* What the repository's README, comments and tests say of the engine,     *)
(* beyond the properties that Engine itself states.  Some of these hold    *)
(* under conditions the runs make explicit; others the code does not keep, *)
(* and the runs that show it are the findings of this project.             *)
(***************************************************************************)
EXTENDS Engine

\* The states in which a deployment holds the resources it reserved.
Holding == {"RESERVED", "STAGING", "LOADED", "VALIDATING", "ACTIVATING",
            "ACTIVE", "DEGRADED", "DRAINING", "REVALIDATION_REQUIRED"}

\* What deployment x, if there is one, holds of device d in dimension i.
HeldBy(x, d, i) ==
  IF /\ x \in DOMAIN deployments
     /\ deployments[x].device = d
     /\ deployments[x].state \in Holding
  THEN deployments[x].resources[i] ELSE 0

\* The sum of amount[1], ..., amount[n].
SumTo(amount, n) ==
  LET sum[k \in 0 .. n] == IF k = 0 THEN 0 ELSE sum[k - 1] + amount[k]
  IN  sum[n]

\* What the deployments of device d hold together in dimension i.
Held(d, i) == SumTo([x \in 1 .. MaxId |-> HeldBy(x, d, i)], MaxId)

\* README, Resource governance: "no leakage after failure, cancellation,
\* rollback, worker death, coordinator restart, drain, or retirement".  What
\* the ledger counts as used is held by some deployment.
NoLeak ==
  \A d \in DOMAIN ledgers, i \in Dims : ledgers[d].used[i] <= Held(d, i)

\* A caller that neither rolls back a deployment that has failed nor retires
\* a device under its running deployments: the two calls after which the
\* engine releases one reservation twice.
ReleasesOnce ==
  \A x \in DOMAIN deployments :
    LET d == deployments[x].device
    IN  /\ ~ /\ deployments[x].state = "FAILED"
             /\ deployments'[x].state = "ABORTED"
        /\ ~ /\ deployments[x].state # "REVALIDATION_REQUIRED"
             /\ deployments'[x].state = "REVALIDATION_REQUIRED"
             /\ ledgers'[d] # ledgers[d]

\* For such a caller the accounting is exact: the ledger counts what the
\* deployments hold, through every failure, cancellation, rollback, fence,
\* drain and retirement.
LedgerExact ==
  \A d \in DOMAIN ledgers, i \in Dims : ledgers[d].used[i] = Held(d, i)

\* src/engine.cpp:241: "Fence deployments whose authority is bound to the
\* dead worker's boot".  After the loss of a worker no deployment is ACTIVE
\* on a device whose evidence came from it.
WorkerLossFences ==
  [][\A w \in Workers :
       (w \in DOMAIN workers /\ w \notin DOMAIN workers') =>
         \A x \in DOMAIN deployments' :
           deployments'[x].state = "ACTIVE" =>
             devices'[deployments'[x].device].owning_worker # w]_vars

\* The AuthorityContext of deployment x: what its authority has to be bound
\* to in order to be current now.  A worker is that which owns the device.
Context(x) ==
  LET dep == deployments[x]
      dev == devices[dep.device]
      w == dev.owning_worker
  IN  [epoch |-> epoch, worker |-> w,
       worker_boot |-> IF w \in DOMAIN workers THEN workers[w] ELSE Null,
       device_boot |-> dev.boot_id,
       service_gen |-> IF dep.service = Null THEN 0
                       ELSE ServiceDef[dep.service].service_gen,
       program_gen |-> IF dep.program = Null THEN 0
                       ELSE current_program_gen[dep.program],
       deployment_gen |-> dep.generation,
       activation_gen |-> dep.activation_gen,
       policy_gen |-> policy_generation,
       evidence_gen |-> dev.evidence_gen]

\* The components of the authority recorded for x that are not current.
Stale(x) ==
  LET au == activations[deployments[x].activation].authority
  IN  {c \in DOMAIN Context(x) : au[c] # Context(x)[c]}

\* ActivationAuthority::is_current.
is_current(x) == Stale(x) = {}

\* src/engine.cpp:383: "Authority is only granted if every generation/boot
\* component is current."
GrantsOnlyCurrent ==
  [][\A x \in DOMAIN deployments :
       (~deployments[x].authoritative /\ deployments'[x].authoritative) =>
         is_current(x)']_vars

\* What commit_deployment does ensure, for any callers: of an authority that
\* it grants only the device's boot may be out of date, which it takes from
\* the reservation, and on a device that a worker owns the worker and its
\* boot.  The program, the epoch and the evidence have moved on under the
\* deployment since it was reserved, or the activation is not its first.
GrantsStaleOnlyByBoot ==
  [][\A x \in DOMAIN deployments :
       (~deployments[x].authoritative /\ deployments'[x].authoritative) =>
         /\ Stale(x)' \subseteq {"device_boot", "worker", "worker_boot"}
         /\ devices'[deployments[x].device].owning_worker = Null =>
              Stale(x)' \subseteq {"device_boot"}]_vars
=============================================================================

# DPU Fabric: a TLA+ model of the coordinator

DPU Fabric keeps a registry of offload devices (DPUs, SmartNICs), decides which
of them may run a service, and grants, fences and revokes the authority to run
it. This directory holds TLA+ modules of its coordinator, TLC configurations
that check them on small instances, and theorems checked by TLAPS. Paths below
are relative to the root of the repository.

## 1. The system

| Part | Where | State | Operations |
|---|---|---|---|
| Device registry | `src/engine.cpp`, `device.h`, `capability.h`, `registry.h` | `devices`, `device_order`, `ledgers`, `usage` | register, update, retire, transition, `set_device_state`, fence |
| Services and programs | `src/engine.cpp`, `program.h` | `services`, `programs`, `current_program_gen` | register a service; register and retire a program |
| Workers | `src/engine.cpp` | `worker_boots` | register, heartbeat (no effect), mark lost |
| Deployments and activations | `src/engine.cpp`, `deployment.h` | `deployments`, `activations`, `id_seq_` | reserve, stage, load, validate, activate, commit, cancel, roll back, drain, retire, fail |
| Resource ledger | `resource.h` | capacity and usage of one device | `can_reserve`, `try_reserve` + `commit`, `release` |
| Epoch and recovery policy | `src/engine.cpp` | `epoch` | `advance_epoch`, `apply_recovery` |
| Snapshots | `registry.h`, `src/engine.cpp` | `atomic<shared_ptr<const Snapshot>>` | published by every mutator, read without the lock |
| Eligibility and ranking | `src/eligibility.cpp` | none: a function of a snapshot | `evaluate`, constraints and factors |
| Persistence | `src/persistence.cpp` | a file, a temporary file | `save`, `load`, `persist`, `recover_from` |
| Coordinator | `tools/dpu_fabric_coordinator.cpp` | connections with role and boot, the engine | one loop: HELLO, REGISTER_DEVICE, PUBLISH_EVIDENCE, admin requests, closed connections |
| Worker | `tools/dpu_fabric_worker.cpp` | its boot, its devices | register, publish evidence, answer commands |
| Transport | `src/mp_transport.cpp`, `wire.h`, `protocol.h` | sockets | frames with length and checksum |
| Backends | `backends/` | none | discovery |
| Summaries, CLI | `src/summarize.cpp`, `tools/dpu_fabric_cli.cpp` | none | formatting |

How they interact. Every mutator of the engine takes the one mutex, changes
`LiveState` and publishes a snapshot, so threads interleave by calls. Readers
(`evaluate`, the summaries, `persist`) use a snapshot and hold no lock: what
they learn may be old when it is used, in particular the device that `evaluate`
selected and that `reserve_deployment` is then given. A deployment takes seven
calls from reserve to commit, and any other call may come between two of them.
The coordinator drives the engine from one thread, out of messages of workers
and administrators; it persists after a deployment was created, on request and
when it ends, and it may be killed anywhere.

What is hard in this code, and what is at stake (the list with lines is in
`PROJECT.json`, "hazards"):

- *Authority.* A deployment table and an activation table are updated by hand
  in some twelve handlers; fencing cuts across every lifecycle. Correct means:
  authority is where the state says it is, in both tables, and a grant that was
  revoked needs a new generation.
- *Stale facts.* Eligibility, boot ids and program generations are read in one
  call and used in a later one.
- *Accounting.* A reservation is released in seven places; `release_` hides a
  second release; counters are 64 bits wide and sums may wrap.
- *Restart.* Replacing a file in several steps, a process killed in between,
  and a new process that may take nothing from disk for current.
- *The protocol.* Workers that reconnect, are restarted or end with frames
  under way; connections whose sockets are used again; one loop for all peers,
  which saves between two of its turns and may be killed in any of them.
- *Reading without the lock.* Snapshots published in the middle of a call, and
  backends whose results are compared with a table that others change.
- *Two encodings.* Some sixty fields of a device are named in an order by a
  writer and once more by a reader, on the wire and in the state file.
- *Streams.* Frames arrive in pieces, and end or are reset within one.

## 2. Modules

| Module | Models | Kind |
|---|---|---|
| `ResourceLedger` | `resource.h` | operators on usage vectors, modular sums |
| `Engine` | `src/engine.cpp` over `LiveState` | state machine, one action per call |
| `AuthorityLease` | what the engine promises about authority | abstract specification |
| `Eligibility` | `src/eligibility.cpp` over the engine's state | pure operators |
| `EngineClaims` | statements of README, comments and tests about the engine | properties |
| `Restart` | `persist`, `recover_from`, `save`, `load`, start and death of the coordinator | composes `Engine` with a file system |
| `RestartClaims` | statements about restarts and the state file | properties |
| `Protocol` | the coordinator's loop, worker and administrator processes, their connections | composes `Engine` and `Eligibility` with a network |
| `Fleet` | the coordinator as a whole: loop, saves, shutdown, death, restart | composes `Protocol` and `Restart` |
| `Snapshots` | publications of snapshots and `run_all_backends` | refines `Engine` |
| `FrameChannel` | what `Protocol` takes a connection to be | abstract specification |
| `Transport` | `src/mp_transport.cpp`, the frames of `protocol.h` | refines `FrameChannel` |
| `Layout` | how the writers and readers treat a structure: member by member, vectors after their length, optionals after a flag | operators, with those for its members as parameters |
| `Codec` | `wire.h`, `tools/mpproto.h`, the writers and readers of `src/persistence.cpp` | layouts; instances of `Layout`, one for each depth of nesting |
| `Journey` | a device record from a worker's report to the next coordinator | composes `Codec` with `Eligibility` |
| `MCEngine`, `MCEligibility`, `MCRestart`, `MCFleet`, `MCSnapshots`, `MCTransport`, `MCJourney` | the instances that TLC checks | model values |
| `EngineProofs` | lemmas on `ResourceLedger`, `TypeOK`, `AuthorityBinding` | proofs |
| `HistoryProofs` | `DeploymentTransitionsValid`, `GenerationHistory`, `ImplementsLease`, `EvidenceFenced`, `GrantsStaleOnlyByBoot` | proofs |
| `CapacityProofs` | `LedgerWithinCapacity`, `LedgerExact`, `NoLeak`, `EligibleIsDeployable`, `WarmPreferred` | proofs |
| `FleetProofs` | `FileNeverTorn`, `AuthorityOfThisProcess`, `RecoveredIsOlder`, `ReadyIsConnected`, `NoneHalfway` | proofs |
| `SnapshotProofs` | `ImplementsEngine`, `ViewIsBound`, `DevicesOnce` | proofs |
| `TransportProofs` | `NeverThrows`, `ImplementsChannel` | proofs |
| `LayoutProofs` | reading what was written, for any layout | proofs |
| `JourneyProofs` | `WireLosesOnlyIsolation`, `StoreKeepsAll`, `SavedIsLoadable` | proofs |

### Correspondence with the code

`Engine`. A `std::map` is a function with the keys as its domain, an empty
optional activation is 0, ids are the numbers the generator `id_seq_` draws. A
call that throws before it changed anything has no action; one that throws
later has: a reservation that the ledger refuses has already drawn two ids, and
`reserve_deployment` keeps that as its second disjunct. Guards are the code's
own tests, which are hand-written lists of states in most handlers
(`Cancellable`, `Rollbackable`, `Drainable`, `Retirable`) and the table
`valid_deployment_transition` in the others. Abstractions:

- a `DeviceRecord` keeps what a handler reads: lifecycle, freshness, boot and
  evidence generation, pci reference, capacity, owner, capability states. Its
  descriptive fields, ports and functions are left out; so are `usage`, a copy
  of the ledger's usage, `worker_seq` and the contexts, which nothing reads;
- an `ActivationAuthority` keeps all its components, with the device's boot for
  the pair of its boot id and generation, which are reported together. Some never
  change: a service is defined once (`register_service` refuses a second
  definition), a deployment is always of generation 1, and so is the policy
  (`policy_generation`); no worker or boot of one is ever written into it;
- the device that `reserve_deployment` is given is any registered device: the
  caller may hold any earlier eligibility result;
- dereferencing an empty optional in `commit_deployment` is undefined, and
  `ActivationRead` lets it be any id. `AuthorityBound` (below) proves that this
  never happens in an engine that was not recovered;
- timestamps, reasons and notes are left out.

`EngineClaims` has `ActivationAuthority::is_current`, which only tests call: `Context`
is the `AuthorityContext` of a deployment as the engine's tables have it now, with
the worker that owns the device and its registered boot, and `Stale` the
components in which the recorded authority differs from it, any of which makes
`is_current` false.

`ResourceLedger`. Usage is a vector over the dimensions; `Plus` wraps at
`Modulus`, 2^64 in the code. `release` is all or nothing and silent.
`ReleaseEach` is the loop of `retire_device`.

`Restart`. `save` is five steps (open and truncate, write, remove, rename, or
an error) on a file system of two names, interleaved with the engine's calls;
a saver that has a file open follows it when another one renames or removes it
(`Moved`). `Crash` is possible between any two steps. `load` and `recover_from`
are one step, since they run before the coordinator serves anybody. An `Image`
is the record of what is written; a half-written file is the value `Torn`, which
the checksum makes `load` refuse. `boot_epoch` is history: the epoch that this
process started in. `ToolSpec` allows the calls that `dpu_fabric_coordinator`
makes, in any order.

`Eligibility`. `evaluate_offload` is one operator: the set `Rejections` of the
reasons for which a device is rejected (those of its state, its capabilities,
the catalog, isolation, bindings and load), the ranking as a weighted sum, and the
front of the stable sort. It reads the present state; a caller that holds an
old answer is already in `Engine`, whose `reserve_deployment` takes any device.
The fields of a device that handlers never read and that no two reports of it
change are the constant `Hardware`; what services, artifacts and requests ask
for are `ServiceNeeds`, `ArtifactNeeds` and `Asks`, and all generations of a
program ask for the same. Fractions are counted in units of `1 / Unit`, exact
when the capacities divide `Unit`. `PROGRAM_GENERATION_STALE` is left out: the
artifact is found under the generation that the code then compares it with. So
are the scores and explanations in the result. `PlacementSpec` moves the state
with the calls that change an answer: reports, fences, capability changes, the
catalog and deployments.

`Protocol`. `conns`, `conn_worker`, `sock_by_worker`, `pending` and `cmd_seq`
are the variables of the coordinator's `main`; `loop` is the place of its
thread inside CREATE_DEPLOYMENT. `Hello`, `RegisterDevice`, `PublishEvidence`,
`Result`, `Create` and `CloseConn` each take one frame, or the end of the
stream, and do all that the loop does with it; `Proceed` is one of the five
engine calls that follow a reservation, with the answer and the command after
the last. `peer` has the process at the other end of each socket, with its
place in `dpu_fabric_worker.cpp`'s `main`. A connection is a queue of whole
frames in each direction. A process may end at any point (`End`), and the
frames it leaves are delivered or, from some point on, lost. A socket that both
sides have let go of may be given to the next connection. The id of a boot
names one process at a time. An administrator stands for the clients of the
multiprocess tests (`tests/test_mp_*.cpp`).

`Fleet`. The thread of the coordinator is in one place: `loop` and `save` say
where, and `duty` which save it has to do before it goes on: after a creation
was answered, before SHUTDOWN is answered, or at its end. `Proceeds`, `Shutdown`
and `Leaves` give it a duty, `Saves` is a step of `Restart` done for it. After
SHUTDOWN the pass over the connections is finished: `turns` are those that are
still to come. `Dies` is `Crash` with the sockets of the process: what it had not
read and the other ends of its connections are gone. `Restarts` is a start of
`Restart`, with or without a file. Everything else is a step of `Protocol` beside
which nothing is saved.

`Snapshots`. `view` is the published snapshot, cut down to the two tables of
authority. Every call publishes when it ends; `activate_deployment` is two
steps, with the mutex held, since `do_deploy_transition` publishes by itself.
A thread in `run_all_backends` has what its backend found, looks at the device
table without the mutex, and then calls `register_device` or `update_device`,
which may throw; while other threads still insert devices, the search may miss
one that is there. `Atomic` is the refinement mapping: with the first half of an
activation undone, every step is one of `Engine`.

`FrameChannel`, `Transport`. A stream is a sequence of cells, each of which knows
its place in a frame: a header of `HeaderSize` cells and the payload. Any number
of them is on the way, up to `BufferSize`; `Reads` is one call of `recv`, by the
probe or by `recv_n`, and takes what is there up to what `recv_frame` still
misses. `payload_len` is what stands where the header has the length, whichever
cell that is, and `decodes` is the test of magic, length and checksum. The loop
visits `accept` and each connection in turn (`at`) and blocks where a frame has
begun. A process that ends takes with it what it had not sent, and a reset what
was not read. The mapping takes for sent the frames whose last cell is on the
way.

`Layout`, `Codec`, `Journey`. A layout is the sequence of what a writer writes, or a reader
reads, in the order of the code: values, structures, counted vectors, optionals
after a flag. There is a layout for each function of the code, so that a field
that is left out or changes places in one of a pair shows. `Write` and `Read`
are `wire::Writer` and `wire::Reader` with a value as the unit. `Layout` says
what is done for the items of one structure and has the operators for what is
inside them as constants; `Codec` instantiates it five times, `L1` for values in
a structure up to `L5` for the payload, which is as deep as the functions of the
code call each other. So nothing is recursive, and what holds of one level for
any operators below it holds of all five. `Journey` takes
a record through `put_device`, `get_device`, the coordinator's table,
`PersistenceStore::save` and `load`, and evaluates requests on it at both ends
with the operators of `Eligibility` (`There`, the worker's engine; `Here`, the
coordinator's). The coordinator that loads is a new one: `load` is given the
state of its engine, with the policy it was constructed with (`Defaults`), and
`LoadedPolicy` appends the weights that it reads to those that are there. The
fencing after `load` is in `Restart`.

Definitions called `Mut_X` are faulty versions of `X`, each with the mistake in
its comment. No specification uses them: with one in the place of `X`, the
property that `PROJECT.json` pairs it with ("mutants") is violated, which shows
that the property says something about that line of the code.

## 3. What the runs check

Passing runs:

| Run | Instance | Shows |
|---|---|---|
| `core` | 1 device of 2 slots that is reported again with fresh evidence, 6 ids, 2 epochs, every device and deployment call | `TypeOK`; `AuthorityBinding`: both tables agree on authority; `GenerationHistory`: activations of a deployment have distinct generations and the newest is its own; `EvidenceFenced`: an ACTIVE deployment stands on fresh evidence; `NoLeak` for equal requests; `DeploymentTransitionsValid`: the hand-written guards stay inside the table; `ImplementsLease`: the engine refines `AuthorityLease` |
| `placement` | 2 equal devices (symmetric) of 10 slots, a service, a program of 2 generations, 3 requests, deployments of 1 and 9 slots, 3 ids, `PlacementSpec` | `EligibleIsDeployable`: what `evaluate_offload` selects can be reserved and committed at once, although the two sides check with code of their own; `WarmPreferred`: of equal devices the one that runs the service is chosen, up to the headroom and queue limits |
| `grants` | 1 device of 2 slots that reboots or gets an owner, a program of 2 generations, requests of 2 sizes, 2 epochs, 4 ids, sums that wrap at 4 | `GrantsStaleOnlyByBoot`: of the components that `is_current` compares, those of an authority that is granted are current but for the device's boot and, where a worker owns the device, the worker and its boot, although the program, the epoch and the evidence move on after the reservation; `LedgerWithinCapacity` |
| `fleet` | 1 worker with 2 boot ids, 2 sockets, administrators that ask for a deployment or for shutdown, 1 saving thread, 2 epochs, `FSpec` | `ReadyIsConnected`: a device that can be selected belongs to a connected worker, also when frames of a dead process are still read, refused connections come between and the coordinator is replaced; `NoneHalfway`: a creation never stops half way; `FileNeverTorn`: a kill leaves a whole state file or none; `AuthorityOfThisProcess`, `RecoveredIsOlder`: nothing recovered has authority or passes for a record of this epoch; `LossIsFenced`: a worker that is gone for good leaves no selectable device; `StayingIsReady`: one that stays gets its device ready, whatever its refused twins do |
| `snapshots` | 2 devices, one of which may be registered at another PCI address, 1 thread in `run_all_backends` beside other callers, 4 ids, `SSpec` | `ImplementsEngine`: every step is a call of `Engine` or none; `ViewIsBound`: a reader sees no authority without its record, not even in the middle of an activation; `DevicesOnce`, `FoundIsRegistered`: what a backend found is registered, once, whatever the look without the mutex said; `LedgerExact`: for callers that never roll back a FAILED deployment or retire a device under running ones, usage is exactly what the deployments hold |
| `transport` | 2 connections, used again, frames with and without payload, 2 on each connection, headers of 2 cells, buffers of 3, `TSpec` | `NeverThrows`: `recv_frame` stays in step however the stream is cut; `ImplementsChannel`: frames arrive whole, in order, before the end; `ArrivedIsDelivered`: no connection waits for good for another one |
| `codec` | 864 reports (generations around what services ask for, bindings, ports, capabilities) to 4 coordinators with 0 to 2 entries in every table and vector, 4 requests | `WireLosesOnlyIsolation`: the coordinator rejects a reported device for every reason for which the worker's own engine would, and for no other than that its isolation is not proven; `StoreKeepsAll`: the next coordinator, which is constructed with two weights, parses the state that was saved, with the saved weights behind its own; `SavedIsLoadable`: and finds nothing left of the file, which `expect_end` would refuse |

Runs that show where the code departs from what its documentation, comments or
tests say (`PROJECT.json`, "findings", quotes the lines):

| Run | Property | What happens |
|---|---|---|
| `leak` | `NoLeak` | A FAILED deployment is rolled back: its resources are released a second time, out of the share of another deployment; the release of that one underflows, is skipped, and usage stays that nobody holds. |
| `workerloss` | `WorkerLossFences` | `mark_worker_lost` fences nothing: `Deployment::worker_boot`, which it compares, is never assigned. |
| `reboot` | `GrantsOnlyCurrent` | A device that reboots between reserve and commit gets an authority for its old boot id. |
| `ids` | `NeverOverwritten` | The id generator starts at 1 after a restart and a reservation overwrites a recovered deployment. |
| `weights` | `FileLoads` | Each restart appends the persisted policy weights to the default ones; the save after the fifth restart writes more than `load` accepts. |

The model also makes these visible; no run is kept for them. `registry.h:61`
says that "readers never observe a partially-updated view": they may see an
ACTIVATING deployment that has no activation yet, which is harmless
(`ViewIsBound`). `hardware_isolation` is not in the report of a device, so that
no service that needs proven isolation can be placed by the coordinator. The
hard capabilities of a policy are not saved. A report that a backend made earlier
makes a device READY that was fenced or lost since, and PUBLISH_EVIDENCE makes
any device READY, also a RETIRED one, where `README.md:34` has transitions
validated. `save` removes the
state file before it renames the new one into place (`src/persistence.cpp:449`),
so that a kill in between leaves none, where `README.md:43` says "atomically
replaced". PUBLISH_EVIDENCE is accepted from a worker that does not own the
device, and revives it after its owner was lost. The boot id of a lost worker is
forgotten: an old one is accepted again, where `README.md:129` says it is
rejected; and a restarted worker is refused while the end of its old connection
has not been seen. `transition_device`
to DRAINING, DEGRADED or RETIRED leaves deployments ACTIVE on the device.
`evaluate_offload` takes a request for a service that is not registered as one
for no service; it lets the program of the service precede that of the request,
where `reserve_deployment` binds the request's; with a service it ignores the
isolation and the resources of the request, and it never reads the request's
`min_headroom` and `max_queue_pressure` except to refuse values above 100; a
HOST_PROCESSOR that passes is selected as HOST_FALLBACK even under
`OFFLOAD_REQUIRED`.
An activation stays authoritative after what it is bound to has moved on, where
`README.md:38` has it authoritative "only while every generation/boot/epoch
component matches": `retire_program`, `register_program`, `advance_epoch` and
`update_device` fence nothing, and the engine never calls `is_current`.
`update_device` can bring a RETIRED device back and can report less capacity than the ledger goes on
using. `recover_from` advances the epoch in memory only, so two processes that
start from one file serve in the same epoch; it leaves the recovered usage at
zero although recovered deployments hold resources; deployments from RESERVED
to ACTIVATING are recovered in their state, and committing an ACTIVATING one
dereferences an empty optional. Two threads that persist at once share one
temporary file.

### Bounds

- `MaxId` bounds the id generator. A reservation draws two ids, an activation
  one. The six of `core` allow three reservations, or two with two activations,
  or one with four activations: enough for a release to hit another
  deployment's share and for a fenced deployment to be validated and activated
  again. Three or four are used where other parts of the instance are larger.
- `MaxProgramGen = 2` and `MaxEpoch = 2`: a newer one under a deployment, and a
  return to an older program generation after `retire_program`.
- In `grants`, four ids: one deployment that is activated up to twice, or two
  that hold resources together.
- `Unit` is 10 and so are the slots of `placement`, whose only dimension is both
  slots and queues: a deployment of 9 puts a device at the limits of 10%
  headroom and 90% pressure, where a warm device is just still eligible and
  its score is lowest.
- `Modulus`: 8 or 32 where nothing shall wrap, 4 in `grants`, where a device of 2
  with requests of 1 and 2 has both refused requests and wrapped sums. The code
  has 2^64; `CapacityKept` is proved for every modulus.
- Capacities are 2, so that two small requests or a large one fit.
- One device where handlers touch one device, its ledger and its deployments.
  `snapshots` and `placement` have two, so that a release for the wrong one, or
  a wrong choice, shows.
- In `Restart` and `Fleet`, `MaxEpoch` bounds restarts through the guard of
  `Crash`; two epochs give a process that recovers, saves again and is shut down
  or stays. `weights` needs eight, and has no devices.
- In `fleet`, two sockets: a worker and an administrator, two processes of
  one worker, or a socket that is used again while the other is in use. Two boot
  ids: the process that is there and its restarted twin; an ended process gives
  its id back, so there are as many restarts as a behaviour likes. `MaxId = 3`
  allows one deployment in each life of the coordinator.
- In `snapshots`, one thread is between its look and its call while the other
  callers register the same devices themselves, as a second thread would; four
  ids are a deployment that is activated twice.
- In `transport`, two connections, since the loop can wait in one while another
  has frames; two frames, so that one follows the end of another; a header of
  two cells, which can be cut; a buffer shorter than the longer frame, so that
  no read can have all of it, and longer than a header, so that a read can reach
  into the next frame.
- In `codec`, vectors of up to two elements and tables of up to two entries,
  since items are written one after the other; every value that no request reads
  is the name of its field, so that two that change places differ. `HalfRange`
  is 8 for 2^31.
- Deadlock is checked in every run and never found, but for `codec`, whose
  behaviours are journeys that end.

### Fairness

Liveness is checked in `fleet`, `snapshots` and `transport`; elsewhere the
calls are those that threads make or do not make.

`FFairness`: the coordinator's thread goes on (`Thread`): nothing in the handlers
or in a save waits for another process. Its loop accepts and serves every
connection: each pass polls every connection once, and once a socket has a frame
or its end it stays readable, so weak fairness suffices. A running worker does
its next step when it can (`WorkerStep(c)`). A process whose connection the
coordinator has closed ends (`~Open(c) /\ End(c)`), since its `recv` fails.
Nobody has to start a coordinator or a worker, and none has to stay or to end
otherwise: the liveness properties have that as their condition.

`TFairness`: the coordinator's thread goes on, and so does a process that has
begun to send a frame (`Sends(c)`): it ends or sends the rest. This is what
`write_frame` does; a process that is stopped in the middle of a frame without
being ended would hold up the loop, since `recv_n` has no timeout there.
`ArrivedIsDelivered` then justifies the fairness that `FFairness` has for each
connection, and `ImplementsChannel` the queues of whole frames in `Protocol`.

`SFairness`: `activate_deployment` returns, and a thread in `run_all_backends`
goes on. Its calls wait for the mutex, which others take again and again, so
that is strong fairness: whoever waits gets it in the end.

## 4. What is proved

All theorems hold for every value of the constants that satisfies the
assumptions of the modules: `LedgerAssumption` (the modulus is positive),
`EngineAssumption` (the inputs of the calls are well-formed records, `Null` is
none of the ids, the bounds are natural numbers), and in the modules above them
`EligibilityAssumption` (a request names a program or none, health and locality
are values of their enumerations), `RestartAssumption` (`Torn` is not `Null`),
`SnapshotsAssumption` (what a backend finds may be registered and reported),
`TransportAssumption` (headers and buffers are not empty), `JourneyAssumption` (a
report has the members of a DeviceRecord, a coordinator's state those of a
LiveState, and the policy it is constructed with those of a Policy; weights are in the width of an int, epochs start at one, and what is
current is registered). TLC evaluates each in the runs of its module. A theorem with a further hypothesis states it with
ASSUME; each is discussed below.

### The engine

- `TypeCorrect` (`EngineProofs`): `Spec => []TypeOK`. `TypeOK` is inductive by
  itself: ids in use lie below the generator, the domains of `devices` and
  `ledgers` are equal, counters stay in their width. One lemma per call; the
  loop of `retire_device` needs `ReleaseEachType`.
- `ReleaseEachType` (`EngineProofs`): however many reservations a loop
  releases, the usage is in range and no counter grew. By induction on the
  loop, as a minimal counterexample argument over natural numbers.
- `AuthorityBound` (`EngineProofs`): `Spec => []AuthorityBinding`. The
  invariant is inductive together with `TypeOK`. The statement has to speak of
  both tables in both directions: that an ACTIVATING deployment has a PENDING
  activation of its own is what commit needs, and that no other activation
  names the deployment as ACTIVE or PENDING is what keeps fencing, which sets
  only the activation a deployment names, from missing one. The lemmas follow
  the ways handlers change the tables: `MoveBinding` for those that end
  authority, `IdleBinding` for those that never had it, and one each for
  reserve, activate and commit.

`HistoryProofs` rests on one lemma, `StepKinds`: given `AuthorityBinding`, a step
opens one deployment, activates one, commits one, moves a set of them to
another state (with their activations, where they have one), or keeps both
tables. Each property is then proved for these five kinds, not for some twenty
calls.

- `AlongTheTable`: `DeploymentTransitionsValid`. What the guards of the handlers
  do not say, `AuthorityBinding` does.
- `HistoryKept`: `GenerationHistory`, inductive with `TypeOK` and
  `AuthorityBinding`.
- `LeaseImplemented`: `Spec => ImplementsLease`. Initial states map to initial
  states; opening, minting, granting and revoking are steps of the lease, where
  `GenerationHistory` is what makes a token that is granted a new one.
- `EvidenceKept`: `EvidenceFenced`, under `FreshReports`: reports say fresh, and
  of no worker's device. Both are needed. A report of stale evidence takes effect
  without a fence (`update_device`), and so does the loss of a worker
  (`mark_worker_lost` reaches the records of its devices but not their
  deployments: the finding of `workerloss`).
- `GrantsAreCurrent`: `GrantsStaleOnlyByBoot`, for any callers. The invariant,
  `AllInCatalog`, is that a deployment has the generation of its service, one of a
  program only if it has a program, and no worker's boot; it is kept since no
  call changes what a deployment was reserved for (`ReservationStays`). The rest
  is what commit tests or takes from the present state. The components that the
  theorem excepts can be out of date: `reboot` shows the boot of the device, and
  the worker and its boot are never recorded at all.

`CapacityProofs` has the accounts and the placement.

- `CapacityKept`: `Spec => []LedgerWithinCapacity`, from `TypeOK` and from
  `release` never increasing a counter; the check and the update of a
  reservation compute the same wrapped sum, so wrapping cannot exceed a limit.
- `ExactAccounts`: `LedgerExact` for callers that release nothing twice
  (`ReleasesOnce`, as an action that every step is). `AccountKinds` is to
  capacity what `StepKinds` is to the tables: a ledger comes, one deployment
  takes, one gives back, all on a device give back, or none changes what it
  holds. `Placed`, which is inductive beside it, says that a deployment is on a
  registered device and holds what some request wanted. `TogetherFit` is the
  hypothesis that as many reservations as there are ids fit the counters
  together; with 64 bits and capacities in bytes they do. Without it usage is
  right only modulo the width, and `release_` compares the wrapped numbers.
- `EqualNeverLeaks`: `NoLeak` without `ReleasesOnce`, when all requests want the
  same (`OneAmount`). A second release then takes away a whole share or nothing:
  the invariant is that usage is a multiple of the amount, at most what is
  held. `leak` shows that requests of two sizes do leak.
- `SelectedIsDeployable`: `EligibleIsDeployable`, under `ReportsAgree`: reports
  of a device agree on its capacity. The ledger keeps the capacity that a device
  was created with, `can_admit` reads the one in the record, and
  `update_device` changes only the latter. The invariant is that both are the
  reported one. That the front of the ranking is one of the devices that
  passed, and of the highest total, is `SelectedIsBest`; it needs that a finite set
  of places has a first one in the order of the sort (`FirstExists`).
- `WarmGoesFirst`: `WarmPreferred`, for a headroom limit of a tenth or more, the
  limit of the default policy. A device that passed keeps a tenth of what room,
  queues and load (weights 2, 2 and 1) can earn it, so a warm one has half a unit
  and the 5 of being warm and needing no transfer; a cold one on the same hardware
  has at most 5 and the 0.4 of a transfer. The margin is a tenth of a unit, and
  there is none with the weight of headroom raised to 3 (`Mut_weight_of`). Every
  device is in `device_order` (`AlwaysInOrder`), else a warm one could be missed.

The run `placement` checks the last two for `PlacementSpec`; `PlacementIsSpec`
proves that its behaviours are behaviours of `Spec`.

### The process

`FleetProofs` proves about `ToolSpec`, whose calls come in any order, and
`FSpec`, where the loop makes them. `RStep` is what a step of either is to the
engine, the file and the savers, and each invariant is proved once, for `RStep`.
`TypeOK` is not available here: the ids of recovered deployments are not below
the generator (the finding of `ids`), so each proof carries the typing that it
needs, of the live tables, the images in the file, and the images that savers
hold.

- `FileWholeInTool`, `FileWhole`: `FileNeverTorn` for one saver `t`, which is what
  the coordinator has. `SoleSaver(t)` says what the temporary name holds at each
  place of the save. With two savers it fails, since `persist` takes no lock. A
  torn file is a value of its own: `TornIsNoImage`, which holds of any model value.
- `AuthorityIsLive`, `RecoveryIsOlder`: `EpochsOK` says that what lives is of this
  epoch or older, what has authority was granted by this process, and what any
  file or saver holds is not newer than the epoch it was taken in.
- `ReadyConnected`: `ReadyIsConnected`, under `OneReporter`: no two workers report
  one device (with two it fails, see section 5). `FleetOK` ties the three maps of
  the loop together (`Links`: a socket's worker, a worker's socket and the role in
  `conns`), and has every device, in the table and on disk, owned by the worker
  that reports it.
- `CreationIsWhole`: `NoneHalfway`, without a hypothesis. What `evaluate` selects
  is ready and has room in the state in which `reserve_deployment` sees it, since
  the loop is one thread; the five calls that follow find the deployment in the
  state the one before left it in, since nothing else moves it; `SettledDisk`: no
  image was taken in between. `Halfway` also has that the coordinator registers
  no program (`NoPrograms`), so that a request for which a device passes wants none,
  and the commit does not fail for it.

### Threads and streams

- `CallsAreAtomic` (`SnapshotProofs`): `SSpec => ImplementsEngine`. `SnapOK` says
  that, with the first half of an activation undone (`Undone`), `TypeOK` and
  `AuthorityBinding` hold. Their lemmas are not proved again: `Under` is
  `EngineProofs` with that substitution, so that its lemmas hold of the
  refinement.
- `ReadersSeeBound`: `ViewIsBound`, by `SnapOK`: what is published is what the tables
  hold, and between the two publications of an activation lacks only its second half.
- `OrderIsOnce`: `DevicesOnce`. A thread that looked without the lock may be wrong,
  and `register_device` throws then.
- `FramesStayWhole` (`TransportProofs`): `TSpec => []NeverThrows`. `TransportOK` says
  of each connection that what was read of a frame, what is on the way and what
  is still to be sent are one sequence in which each cell is followed by the next
  of its frame or, if it is the last, by the first of another, and which starts
  where a frame does. All that a read or a killed process does is to take a part
  off one of the ends.
- `ChannelImplemented`: `TSpec => ImplementsChannel`, step by step: a cell that ends a
  frame sends it, a read that completes one delivers it, and everything else that
  moves cells stutters. The mapping, `Complete`, is a recursive function over
  the cells; the lemmas about it (one more cell, two streams one after the other,
  the first cells of a stream, the beginning of one frame) are proved by counting
  up (`CountUp`), which needs no induction rule with an operator as parameter.
  `TransportOK` gives that what was read and does not end a frame has completed
  none, so that closing a connection loses nothing that had arrived. This is what
  `Protocol` takes for granted of its queues.

### The two encodings

- `RoundTrip` (`LayoutProofs`): of any layout and any value that has its members
  (`Fits`), `Read` makes the value again and leaves what follows it on the stream,
  if the operators for the members do so of what the layout names for them.
  `Read` is a recursive function over the items, and `ReadEach` one over the
  elements of a vector; both are compared with `FlattenSeq`, from what is left of
  the stream after each part (`WhatIsLeft`), by counting up (`CountsUp`). `Codec0`
  to `Codec5` in `JourneyProofs` apply it level by level, so that it holds of the
  payload of the state file, at any length of its tables.
- `WireKeepsReasons`: `WireLosesOnlyIsolation`. `ReportHeard`: what `get_device`
  makes of a report is the report, with the initial value of every member that
  `put_device` does not write, in the record and in its capabilities.
  `SameRejections` then compares the reasons, group by group: they are equal but
  for `IsolationReasons`, which can only grow, since `hardware_isolation` is
  FALSE at the coordinator. It holds for every catalog, policy and request.
- `StoreComplete`, `StoreLoadable`: `StoreKeepsAll` and `SavedIsLoadable`.
  `FileKeeps` says of any LiveState that has registered the device, with any
  services, programs, deployments and usage, that its payload is read back and
  `Loaded` makes the same tables of it, and the policy that `Recovered` says: what
  was saved, with the weights of the loading engine in front, and its own value of
  what is not saved. The weights that are read are those that were saved because
  they are in the range of the cast (`WeightKept`), and the marks of current generations make the
  same map again because what is current is registered (`CurrentKept`). Several
  devices in one file are not covered, by the proof or by the run: `Journey`
  follows one.

`JInv` is the inductive invariant for all three: it says what the stream and the
coordinator hold, by how far the record has come. A layout of a reader that
differs from its writer's in the place of one member makes `SameLayouts` false,
and the proofs fail there.

### Only model-checked

- `LossIsFenced`, `StayingIsReady`, `FoundIsRegistered`, `ArrivedIsDelivered`:
  liveness under fairness, with ENABLED, is beyond the prover.
- What the violated runs show. The theorems above show the other side: for `leak` and
  `workerloss`, what callers would have to do, or not to do, for the property to
  hold (`ExactAccounts`, `EqualNeverLeaks`, `EvidenceKept`); for `reboot`, that nothing
  else is out of date (`GrantsAreCurrent`).

## 5. Not modelled

- The scores and explanations that `evaluate` returns; the energy and policy
  weights other than the defaults. (A restart appends to the weights; `weight_of`
  takes the first of a factor, so that the default ones stay in effect.)
- *Policies other than the default*: the coordinator constructs no other. Hard
  capabilities and preferred devices are in `Eligibility` as constants.
- *Protocol*: STATUS, which changes nothing; PING and BYE, which nobody sends; a
  write to a connection that was reset, which on POSIX ends the coordinator by
  SIGPIPE and in the model does nothing; two workers that report one device, with
  which `ReadyIsConnected` does not hold, as PUBLISH_EVIDENCE is accepted from
  either; what a worker says of `owner_worker_boot`, which nothing reads.
- *Bytes*: how a value is represented, and the checksum, which is taken to tell
  a whole frame or file from another one; bounds that no legal state exceeds.
  A process that writes no frames at all makes `recv_frame` throw and ends the
  coordinator.
- *A full direction*: the coordinator and a worker that both block in `send_n`
  would wait for each other; a worker has at most one answer per command, and
  a device limits the commands.
- *Backends*: what they find are constants; the system backend probes the host.
- `recover_from` on an engine in use, which no caller does.
- *Undefined behaviour* beyond its modelled outcome: the race of
  `run_all_backends` is a search that may miss a device.
- Execution contexts (unused), identifiers, errors, summaries, the CLI: data
  and formatting.

## 6. Plan

1. `Engine`, `ResourceLedger`, `AuthorityLease` with type correctness, the
   authority invariant and the capacity bound proved: done.
2. `Restart`, `Protocol` and their composition `Fleet`: done.
3. `Eligibility`: `evaluate` as operators on the engine's state, checked
   against the calls that follow it: done.
4. `Snapshots` over `Engine`, `Transport` over `FrameChannel`, `Layout`, `Codec`
   and `Journey`: done.
5. Proofs of every safety property, action property and refinement that a passing
   run checks: done. What proofs could still add:
   `LedgerExact` of the threaded code, through `CallsAreAtomic`; `ReadyIsConnected`
   in a weaker form for two workers that report one device.
6. What modelling could still add: two workers that report one device, with the
   properties that hold of them; tenants of deployments, and dedicated devices.

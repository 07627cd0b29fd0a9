------------------------------- MODULE Journey -------------------------------
(***************************************************************************)
(* The way of a device record through the program: a worker's backend      *)
(* makes it, put_device and get_device carry it to the coordinator, which  *)
(* registers it and saves its state, and the next coordinator loads it.    *)
(* Restart and Fleet take these transports for the identity; here is what  *)
(* they do.                                                                *)
(***************************************************************************)
EXTENDS Codec

CONSTANTS
  Reports,     \* DeviceRecords that a worker reports
  States,      \* LiveStates of a coordinator that has no device yet
  Defaults,    \* the Policy that a coordinator is constructed with
  Worker, WorkerBoot,
  Keys, Services, Programs, ServiceDef, ServiceNeeds, ArtifactNeeds, Asks,
  Policy, Dims, QueueDim, SlotDim, Modulus, Unit   \* see Eligibility

\* A Policy.  A weight is a 32 bit integer.
IsPolicy(p) ==
  /\ p = [f \in L5!Fields(save_policy) \cup UnsavedPolicy |-> p[f]]
  /\ p.weights \in
       Seq([factor : {w.factor : w \in ToSet(p.weights)},
            weight : -HalfRange .. HalfRange - 1])

\* A LiveState that has no device yet.  An epoch starts at one, and what is
\* current is registered.
IsLiveState(s) ==
  /\ s = [f \in {"epoch", "policy", "devices", "device_order", "services",
                 "programs", "current_program_gen", "deployments", "usage"} |->
            s[f]]
  /\ IsPolicy(s.policy)
  /\ Fits(save_layout, Payload(s))
  /\ s.epoch \in Nat \ {0}
  /\ s.devices = <<>> /\ s.device_order = <<>>
  /\ s.programs \in Seq(ToSet(s.programs))
  /\ \A i \in DOMAIN s.programs :
       /\ s.programs[i] = [program_id |-> s.programs[i].program_id,
                           generations |-> s.programs[i].generations]
       /\ s.programs[i].generations \in
            Seq([program_gen : Nat,
                 artifact : {g.artifact :
                               g \in ToSet(s.programs[i].generations)}])
  /\ s.current_program_gen =
       [p \in DOMAIN s.current_program_gen |-> s.current_program_gen[p]]
  /\ \A p \in DOMAIN s.current_program_gen :
       \E i \in DOMAIN s.programs :
         /\ s.programs[i].program_id = p
         /\ \E g \in ToSet(s.programs[i].generations) :
              g.program_gen = s.current_program_gen[p]

ASSUME JourneyAssumption ==
  /\ HalfRange \in Nat \ {0}
  /\ \A r \in Reports : Fits(write_device, r)
  /\ \A s \in States : IsLiveState(s)
  /\ IsPolicy(Defaults)

VARIABLES
  report,      \* the record that the worker has
  place,       \* how far it has come
  cells,       \* the stream it is in, on the wire or in the state file
  live,        \* the LiveState of the coordinator
  before       \* history: the LiveState that was saved

jvars == <<report, place, cells, live, before>>

-----------------------------------------------------------------------------

\* put_device
Reporting ==
  /\ place = "worker"
  /\ cells' = Write(put_device, report)
  /\ place' = "wire"
  /\ UNCHANGED <<report, live, before>>

\* REGISTER_DEVICE: the coordinator adds whose device it is.
Registering ==
  LET d == [Reported(cells) EXCEPT !.owning_worker = Worker,
                                   !.owner_worker_boot = WorkerBoot]
  IN  /\ place = "wire"
      /\ live' = [live EXCEPT !.devices = L5!Assign(@, d.device_id, d),
                              !.device_order = Append(@, d.device_id)]
      /\ place' = "coordinator"
      /\ UNCHANGED <<report, cells, before>>

Saving ==
  /\ place = "coordinator"
  /\ cells' = Saved(live)
  /\ before' = live
  /\ place' = "file"
  /\ UNCHANGED <<report, live>>

\* recover_from, in an engine that was just constructed.  expect_end: nothing
\* is left of the payload.
Loading ==
  /\ place = "file"
  /\ Read(load_layout, cells).rest = <<>>
  /\ live' = Loaded(cells, Defaults)
  /\ place' = "loaded"
  /\ UNCHANGED <<report, cells, before>>

JInit ==
  /\ report \in Reports
  /\ live \in States
  /\ place = "worker"
  /\ cells = <<>>
  /\ before = live

JNext == Reporting \/ Registering \/ Saving \/ Loading

JSpec == JInit /\ [][JNext]_jvars

-----------------------------------------------------------------------------
(* What evaluate_offload makes of a record *)

\* CapabilitySet::find, on the capabilities in the order of their keys.
KeysOf(r) == {r.capabilities[i].key : i \in DOMAIN r.capabilities}
CapOf(r, k) ==
  r.capabilities[CHOOSE i \in DOMAIN r.capabilities :
                   r.capabilities[i].key = k]

\* The record as Engine has it.
EngineRecord(r) ==
  [device_id |-> report, lifecycle |-> r.lifecycle,
   evidence_fresh |-> r.evidence_fresh, boot_id |-> r.boot_id,
   evidence_gen |-> r.evidence_gen, pci_reference |-> r.pci_reference,
   resource_capacity |-> r.resource_capacity,
   owning_worker |-> r.owning_worker,
   capabilities |->
     [k \in Keys |-> IF k \in KeysOf(r) THEN CapOf(r, k).state ELSE "ABSENT"]]

\* The rest of it, as Eligibility has it.
HardwareOf(r) ==
  [device_class |-> r.device_class, health |-> r.health,
   offload_classes |-> ToSet(r.offload_classes),
   version |-> [k \in KeysOf(r) |-> CapOf(r, k).version],
   architecture |-> r.architecture, firmware_gen |-> r.firmware_gen,
   runtime_gen |-> r.runtime_gen, hardware_isolation |-> r.hardware_isolation,
   isolation_proven |-> r.isolation_proven,
   isolation_domain |-> r.isolation_domain, tenant |-> r.tenant,
   ports |-> ToSet(r.ports), functions |-> ToSet(r.functions),
   locality |-> r.locality]

HardwareSent == [r \in Reports |-> HardwareOf(r)]
HardwareReported ==
  [r \in Reports |-> HardwareOf(Reported(Write(put_device, r)))]

\* An engine that has one device, unused, and the whole catalog.
OnlyOf(record) == [r \in {report} |-> record]
Unused(record) ==
  [cap |-> record.resource_capacity, used |-> [i \in Dims |-> 0]]
AllPrograms == [p \in Programs |-> {1}]
AllCurrent == [p \in Programs |-> 1]

\* That of the worker.
There ==
  INSTANCE Eligibility WITH
    Devices <- Reports, Workers <- {Worker}, WorkerBoots <- {WorkerBoot},
    Registrations <- {}, Updates <- {}, Requests <- {},
    MaxId <- 0, MaxProgramGen <- 1, MaxEpoch <- 1,
    Hardware <- HardwareSent,
    devices <- OnlyOf(EngineRecord(report)), device_order <- <<report>>,
    ledgers <- OnlyOf(Unused(EngineRecord(report))),
    services <- Services, programs <- AllPrograms,
    current_program_gen <- AllCurrent,
    workers <- <<>>, deployments <- <<>>, activations <- <<>>,
    epoch <- 1, id_seq <- 1

\* That of the coordinator.
Here ==
  INSTANCE Eligibility WITH
    Devices <- Reports, Workers <- {Worker}, WorkerBoots <- {WorkerBoot},
    Registrations <- {}, Updates <- {}, Requests <- {},
    MaxId <- 0, MaxProgramGen <- 1, MaxEpoch <- 1,
    Hardware <- HardwareReported,
    devices <- OnlyOf(EngineRecord(live.devices[report.device_id])),
    device_order <- <<report>>,
    ledgers <-
      OnlyOf(Unused(EngineRecord(live.devices[report.device_id]))),
    services <- Services, programs <- AllPrograms,
    current_program_gen <- AllCurrent,
    workers <- <<>>, deployments <- <<>>, activations <- <<>>,
    epoch <- 1, id_seq <- 1

\* A device that a worker reports is rejected for every reason for which the
\* worker's own engine would reject it, and for no other one than that its
\* isolation is not proven: hardware_isolation is not on the wire.
WireLosesOnlyIsolation ==
  place = "coordinator" =>
    LET d == live.devices[report.device_id]
    IN  \A ask \in Asks :
          LET there == There!Rejections(report, ask)
              here == Here!Rejections(report, ask)
          IN  /\ HardwareOf(d) = HardwareReported[report]
              /\ there \subseteq here
              /\ here \subseteq there \cup {"ISOLATION_UNPROVEN",
                                            "SECURITY_MODE_INCOMPATIBLE"}

\* A policy after it was saved and loaded: what the file has no room for is
\* that of the constructor, whose weights the saved ones are put behind.
Recovered(policy) ==
  [f \in DOMAIN policy |->
     IF f = "weights" THEN Defaults.weights \o policy.weights
     ELSE IF f \in UnsavedPolicy THEN Defaults[f]
     ELSE policy[f]]

\* The next coordinator parses what the last one saved, before it fences it:
\* all of it but for the policy, of which it keeps the hard capabilities, the
\* preferred devices, the preferred statefulness and, before the saved ones,
\* the weights of its own.
StoreKeepsAll ==
  place = "loaded" => live = [before EXCEPT !.policy = Recovered(@)]

\* load does not refuse what save wrote: the readers take as much off the
\* stream as the writers put there, and expect_end finds nothing more.
SavedIsLoadable ==
  place = "file" => Read(load_layout, cells).rest = <<>>
=============================================================================

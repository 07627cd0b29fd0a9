------------------------------ MODULE MCEngine ------------------------------
(***************************************************************************)
(* Small instances of Engine for TLC.                                      *)
(***************************************************************************)
EXTENDS EngineClaims, TLC

CONSTANTS d1, d2, s1, p1, k1, w1, b1, b2, slots

Amount(n) == [i \in Dims |-> n]

\* A device as a backend or worker reports it.
Record(d, lc, fresh, boot, cap, owner) ==
  [device_id |-> d, lifecycle |-> lc, evidence_fresh |-> fresh,
   boot_id |-> boot, evidence_gen |-> boot, pci_reference |-> 1,
   resource_capacity |-> Amount(cap), owning_worker |-> owner,
   capabilities |-> [k \in Keys |-> "ABSENT"]]

\* What Registrations, Updates, ServiceDef and Requests stand for in a cfg.
ReadyDevices == {Record(d, "READY", TRUE, 1, 2, Null) : d \in Devices}
OwnedDevices == {Record(d, "READY", TRUE, 1, 2, w1) : d \in Devices}

Rebooted == {Record(d, "READY", TRUE, 2, 2, Null) : d \in Devices}
\* The device after a reboot, and as one that a worker owns.
RebootedOrOwned == Rebooted \cup OwnedDevices

Plain(n) == [service |-> Null, required_program |-> Null,
             resource |-> Amount(n)]
OneSize == {Plain(1)}
TwoSizes == {Plain(1), Plain(2)}
\* A request of one slot that names the program and one of two slots.
ProgramOrLarge == {[Plain(1) EXCEPT !.required_program = p1], Plain(2)}

OneService == [s \in Services |-> [service_gen |-> 1, resource |-> Amount(1),
                                   required_program |-> p1]]

\* Nothing tells two devices apart: they are registered with equal records.
AlikeDevices == Permutations(Devices)
=============================================================================

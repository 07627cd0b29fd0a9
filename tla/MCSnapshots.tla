---------------------------- MODULE MCSnapshots -----------------------------
(***************************************************************************)
(* A small instance of Snapshots for TLC.                                  *)
(***************************************************************************)
EXTENDS Snapshots, MCEngine

CONSTANTS t1

\* The synthetic backend's scenario_ab: always the same two devices.
DeviceA == Record(d1, "READY", TRUE, 1, 2, Null)
DeviceB == Record(d2, "READY", TRUE, 1, 2, Null)
ScenarioAB == {<<DeviceA, DeviceB>>}
Discovered == {DeviceA, DeviceB}

\* They may be registered otherwise, too, the first at another PCI address.
Registered == Discovered \cup {[DeviceA EXCEPT !.pci_reference = 2]}
=============================================================================

------------------------------ MODULE MCFleet -------------------------------
(***************************************************************************)
(* Small instances of Fleet for TLC.                                       *)
(***************************************************************************)
EXTENDS Fleet, MCEligibility

CONSTANTS t1

\* What the processes of the one worker report.
OwnDevices ==
  (w1 :> [Record(d1, "READY", TRUE, 1, 10, Null) EXCEPT
            !.capabilities = [k \in Keys |-> "SUPPORTED"]])

\* A service that needs no program.
PlainService == [s \in Services |-> [service_gen |-> 1, resource |-> Amount(1),
                                     required_program |-> Null]]

\* The request that the coordinator makes of CREATE_DEPLOYMENT.
CreateDeployment ==
  {[AnyDevice EXCEPT !.offload_class = "ENCRYPTION", !.service = s1]}
=============================================================================

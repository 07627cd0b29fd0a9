--------------------------- MODULE RestartClaims ----------------------------
(***************************************************************************)
(* What the repository's README, comments and tests say of restarts and of *)
(* the state file, where the code does not keep it.                        *)
(***************************************************************************)
EXTENDS Restart

\* include/dpufabric/engine.h:115: "monotonic id generator for
\* deployments/activations".  A reservation never takes the id of a recorded
\* deployment.
NeverOverwritten ==
  [][\A x \in DOMAIN deployments :
       up /\ up' /\ deployments'[x].state = "RESERVED"
         => deployments'[x] = deployments[x]]_rvars

\* README, Persistence: "Durable structural knowledge recovers".  What one
\* coordinator saved, load accepts in the next one.
FileLoads == file # Null => Accepted(file)
=============================================================================

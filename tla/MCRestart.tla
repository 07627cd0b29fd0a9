------------------------------ MODULE MCRestart -----------------------------
(***************************************************************************)
(* Small instances of Restart for TLC.                                     *)
(***************************************************************************)
EXTENDS RestartClaims, MCEngine

CONSTANTS t1
=============================================================================

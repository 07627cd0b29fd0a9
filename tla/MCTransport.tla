---------------------------- MODULE MCTransport -----------------------------
(***************************************************************************)
(* A small instance of Transport for TLC.                                  *)
(***************************************************************************)
EXTENDS Transport, TLC

CONSTANTS short, long

\* A frame without a payload and one that is longer than the buffer.
Sizes == short :> 0 @@ long :> 2
=============================================================================

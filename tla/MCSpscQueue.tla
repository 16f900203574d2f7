----------------------------- MODULE MCSpscQueue -----------------------------
(***************************************************************************)
(* A small instance of SpscQueue for TLC: capacity 3 rounds up to 4, and   *)
(* three-bit indices wrap after eight pushes.                              *)
(***************************************************************************)
EXTENDS SpscQueue

CONSTANTS v1, v2, v3
=============================================================================

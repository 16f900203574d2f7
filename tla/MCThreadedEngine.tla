-------------------------- MODULE MCThreadedEngine --------------------------
(***************************************************************************)
(* Small instances of ThreadedEngine for TLC: see the threads_*.cfg files. *)
(***************************************************************************)
EXTENDS ThreadedEngine
=============================================================================

------------------------------- MODULE MCPool -------------------------------
(***************************************************************************)
(* A small instance of Pool for TLC: a type smaller than a pointer, two of *)
(* the same block size, one of them with the other alignment.              *)
(***************************************************************************)
EXTENDS Pool

CONSTANTS l1, l2, engine

Kind(bytes, al) == [bytes |-> bytes, align |-> al]
SomeKinds == {Kind(1, 1), Kind(2, 1), Kind(2, 2), Kind(3, 1)}
=============================================================================

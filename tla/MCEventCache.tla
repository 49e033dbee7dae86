---------------------------- MODULE MCEventCache ----------------------------
(***************************************************************************)
(* An instance of EventCache for TLC: readers are interchangeable.         *)
(***************************************************************************)
EXTENDS EventCache, TLC

Symmetry == Permutations(Readers)
=============================================================================

-------------------------- MODULE MCAccountUpdates --------------------------
(***************************************************************************)
(* Instances of AccountUpdates for TLC.                                    *)
(***************************************************************************)
EXTENDS AccountUpdates, TLC

\* Handlers are interchangeable.
Interchangeable == Permutations(Calls)
=============================================================================

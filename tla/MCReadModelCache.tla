-------------------------- MODULE MCReadModelCache --------------------------
(***************************************************************************)
(* Instances of ReadModelCache for TLC.                                    *)
(***************************************************************************)
EXTENDS ReadModelCache

\* Callers and keys are interchangeable (safety runs only).
Interchangeable == Permutations(Callers) \cup Permutations(Keys)
=============================================================================

-------------------------- MODULE MCDispatchOutbox --------------------------
(***************************************************************************)
(* Instances of DispatchOutbox for TLC.                                    *)
(***************************************************************************)
EXTENDS DispatchOutbox, TLC

\* Workers and producers are interchangeable (safety runs only).
Interchangeable == Permutations(Workers) \cup Permutations(Producers)
=============================================================================

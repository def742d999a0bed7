-------------------------- MODULE MCCollectionRun --------------------------
(***************************************************************************)
(* Instances of CollectionRun for TLC.                                     *)
(***************************************************************************)
EXTENDS CollectionRun, TLC

\* Every process is configured with an id of its own.
OwnIds == [w \in Procs |-> w]

PlatformSymmetry == Permutations(Platforms)

\* With ids of their own, processes are interchangeable together with the ids.
ProcSymmetry == Permutations(Procs)
=============================================================================

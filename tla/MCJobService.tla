---------------------------- MODULE MCJobService ----------------------------
(***************************************************************************)
(* JobService for TLC.  Repository names are interchangeable, and are      *)
(* declared symmetric in the runs that check no liveness property.         *)
(***************************************************************************)
EXTENDS JobService, TLC

CONSTANTS repoA, repoB

RepoSymmetry == Permutations({repoA, repoB})
=============================================================================

----------------------- MODULE MCManagedRepositories -----------------------
(* A small instance of ManagedRepositories for TLC. *)
EXTENDS ManagedRepositories, TLC

Alike == Permutations(Ids) \cup Permutations(Users) \cup Permutations(Collectors)
=============================================================================

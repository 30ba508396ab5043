SPECIFICATION Spec
CONSTANTS
  NumJobs = 3
  repoA = repoA
  repoB = repoB
  Repos = {repoA, repoB}
  NoRepo = NoRepo
  MaxConcurrency = 2
  MaxBoots = 1
INVARIANTS
  OneTaskPerRepository
  NoMissedWakeup
  CancelReachesProcess
PROPERTIES
  ImplementsJobLifecycle
CHECK_DEADLOCK FALSE
SYMMETRY RepoSymmetry

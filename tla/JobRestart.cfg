SPECIFICATION Spec
CONSTANTS
  NumJobs = 2
  repoA = repoA
  repoB = repoB
  Repos = {repoA, repoB}
  NoRepo = NoRepo
  MaxConcurrency = 2
  MaxBoots = 2
INVARIANTS
  NoJobLost
  RunningRowsHaveTask
PROPERTIES
  QueuedJobEnds
  StopComesToAnEnd
CHECK_DEADLOCK FALSE

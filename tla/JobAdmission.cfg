SPECIFICATION Spec
CONSTANTS
  repoA = repoA
  repoB = repoB
  submit = submit
  retry = retry
  other = other
  task = task
  command = command
  service = service
  key = key
  Calls = {submit, retry, other, task, command, service}
  Repos = {repoA, repoB}
  Request <- Requests
  Global = Global
  None = None
  MaxRestarts = 1
INVARIANTS
  CommandExclusion
  RetriesShareOneRow
PROPERTIES
  EveryCallEnds
CHECK_DEADLOCK FALSE

SPECIFICATION Spec
CONSTANTS
  jobA = jobA
  jobB = jobB
  both = both
  single = single
  oneShot = oneShot
  routeA = routeA
  routeB = routeB
  Jobs = {jobA, jobB}
  Waiters = {both, single, oneShot}
  Durable = {both, single}
  JobsOf <- JobsOfWaiter
  FailureWakes = {both}
  Groups = {routeA, routeB}
  GroupOf <- GroupOfWaiter
  MaxWaiters = 2
  Startup = Startup
  None = None
  MaxBoots = 2
INVARIANTS
  DurableKept
  NoOverdue
PROPERTIES
  DoneStaysDone
  DueIsCalled
CHECK_DEADLOCK FALSE

SPECIFICATION HostSpec
CONSTANTS
    t1 = t1
    t2 = t2
    t3 = t3
    t4 = t4
    r1 = r1
    r2 = r2
    None = None
    Tabs <- FourTabs
    Routes = {r1, r2}
    MaxGen = 2
    MaxLiveAttempts = 2
    MaxWakes = 2
    Loads <- AllLoads
INVARIANTS
    TabsBounded
    PreflightBudget
PROPERTIES
    BackoffHolds
    WakePrepared
CHECK_DEADLOCK FALSE

SPECIFICATION Spec
CONSTANTS
    Plans <- ThePlans
    Stages <- TheStages
    Commits <- TheCommits
    Pushes <- ThePushes
    Forwards <- TheForwards
    Guarded <- OnlyGuarded
    NFiles = 2
    MaxCommits = 4
    Loads <- SomeLoads
    None = None
INVARIANTS
    CommitsOnce NoLostEdit ReceiptTruth
CHECK_DEADLOCK FALSE

CONSTANTS
    Kinds <- AllKinds
    Mutations <- Guarded
    Calls <- Waited
    MaxOps = 7
    MaxPending = 2
    MaxEdits = 2
    Loads <- ManyLoads
    None = None
    r1 = r1
    r2 = r2
    Requests = {r1, r2}
    HandsLoads <- ManyHands
    Nothing = Nothing
SPECIFICATION Either
INVARIANTS
    RunsAtMostOnce NeverRanWhenToldSo ResultsAreKept CommitTruth CommitIsPreviewed
    EditsWhatWasNamed CommitAsReported RefusedIsUnrun PreviewLeavesNothing
CHECK_DEADLOCK FALSE

CONSTANTS
    w1 = w1
    w2 = w2
    w3 = w3
    j1 = j1
    j2 = j2
    Job = {j1}
    Worker = {w1, w2}
    OwnerOf <- SharedOwner
    NoOwner = NoOwner
    Kind <- OneAnalysis
    MaxAttempts = 3
    MaxAborts = 1
    AppClockAhead = TRUE
SPECIFICATION FairSpec
INVARIANTS OneHolder HolderKnowsState StartBudget
PROPERTIES ImplementsLifecycle EventuallySettled

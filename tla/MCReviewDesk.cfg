SPECIFICATION FairSpec
CONSTANTS
    SubmitAttempts = 2
    SendAttempts = 2
    MaxRevisions = 2
    FirstKinds = {"ANALYSIS_ONLY", "NOT_REPRODUCED"}
    LaterKinds = {"ANALYSIS_ONLY", "REPRODUCED"}
    Ends = {"DONE", "ERROR", "CANCELLED"}
    Rechecks = 1
    Neighbours = {n1}
    ColumnLimit = 1
    IndexLimit = 1
    Reads = 1
    Commits = 1
CHECK_DEADLOCK FALSE
INVARIANTS FreshViewTellsTruth PhoneSignsWhatItShowed PageMeansIt ListsMeanIt
PROPERTY PageIsCurrent

CONSTANTS
    Poller = {p1}
    Submitter = {s1}
    Runner = {}
    Nobody = Nobody
    Lapsed = Lapsed
    SubmitAttempts = 2
    RunAttempts = 1
    MaxRechecks = 0
    Worlds <- LiveSettings
    MaxTurns = 3
    MaxLapses = 1
SPECIFICATION FairSpec
CHECK_DEADLOCK FALSE
INVARIANT AllowsOnlyApproved
PROPERTIES LeavesTriage SubmissionSettles

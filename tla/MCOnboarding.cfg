CONSTANTS
    w1 = w1
    w2 = w2
    r1 = r1
    Repo = {r1}
    Worker = {w1, w2}
    OwnerOf <- SharedOwner
    NoOwner = "nobody"
    MaxAttempts = 2
    Build = {1, 2}
    Turn = {1}
    MaxRetries = 1
    MaxAborts = 1
    MaxRevokes = 1
    MaxSweeps = 1
SPECIFICATION MCFairSpec
CHECK_DEADLOCK FALSE
PROPERTIES KeepsPromise OnboardingRests

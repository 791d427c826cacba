CONSTANTS
    w1 = w1
    w2 = w2
    d1 = d1
    Delivery = {d1}
    Worker = {w1, w2}
    OwnerOf <- SharedOwner
    NoOwner = NoOwner
    MaxAttempts = 2
    RetryBudget = 1
    Worlds <- Settings
SPECIFICATION FairSpec
INVARIANT OnlyApprovedBytes
PROPERTIES KeepsPromise EventuallySettled

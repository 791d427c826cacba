CONSTANTS
    r1 = r1
    r2 = r2
    v1 = v1
    v2 = v2
    a1 = a1
    a2 = a2
    w1 = w1
    w2 = w2
    Report = {r1, r2}
    Reviewer = {v1, v2}
    Asker = {a1, a2}
    Builder = {w1, w2}
    NoReport = NoReport
    Codes = {1, 2, 3, 4}
    maxCodeSends = 2
    MAX_CODE_ATTEMPTS = 1
    MAX_BUILD_ATTEMPTS = 2
    MaxClaims = 6
    Scenarios <- Some
    t1 = t1
    t2 = t2
    k1 = k1
    k2 = k2
    Original = {t1, t2}
    Connected = {}
    Material = {"archive", "image", "commit"}
    KindOf <- AllKinds
    NoMaterial = "none"
    Starter = {k1, k2}
    MaxChildren = 2
    MaxChanges = 0
SPECIFICATION RetestSpec
CHECK_DEADLOCK FALSE
INVARIANT RefusalIsARepeat

CONSTANTS
    Poller = {p1, p2}
    Submitter = {s1}
    Runner = {r1}
    Nobody = Nobody
    Lapsed = Lapsed
    SubmitAttempts = 2
    RunAttempts = 2
    MaxRechecks = 1
    Worlds <- Settings
    MaxTurns = 3
    MaxLapses = 1
SYMMETRY Symmetry
SPECIFICATION Spec
CHECK_DEADLOCK FALSE
INVARIANTS HumanGate VerdictStands SomethingFinishesIt
PROPERTY KeepsPromise

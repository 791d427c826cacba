CONSTANTS
    Loop = {l1}
    Kinds <- MCKinds
    FailureBudget = 12
    Patience = 4
    Grace = 2
    Deploys = 1
    Outages = 1
    w1 = w1
    w2 = w2
    Workers = {w1, w2}
    MaxThreads = 2
    MaxSessions = 5
    MaxTurns = 6
    Budgets <- Some
    MAX_ATTEMPTS = 2
    Attempt = {a1, a2}
    NoAttempt = NoAttempt
    App = app
    Dependency = {db}
    Built = {app, db}
    Faults <- MCFaults
SPECIFICATION AnalysisSpec
CHECK_DEADLOCK FALSE
PROPERTIES TurnsAreSafe AttemptSettles

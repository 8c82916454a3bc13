SPECIFICATION ServiceSpec
CONSTANTS
    Keys = {k1, k2}
    Passphrases = {p1, p2}
    NoPass = NoPass
    Clients = {c1}
    Timeouts = {0, 1, 3, 4}
    LifetimeModulus = 4
    ExpiryPeriod = 2
    MaxTime = 7
    MaxChanges = 3
    BadFile = BadFile
INVARIANTS TimeoutHonoured AnswersHold
PROPERTY LockKeepsKeys
CHECK_DEADLOCK FALSE
SYMMETRY Symmetry

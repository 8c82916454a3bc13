SPECIFICATION ReadSpec
CONSTANTS
    Requests = {r1, r2, r3}
    KeyPaths = {k1}
    Remotes = {m1}
    Names = {n1, n2}
    Nobody = Nobody
    Absent = Absent
    NoFile = NoFile
    Torn = Torn
    CanFail = TRUE
    CanCrash = TRUE
    MaxClock = 2
INVARIANTS StoreSafe AnswersDurable
PROPERTY DurableSpec
CHECK_DEADLOCK FALSE

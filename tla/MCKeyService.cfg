SPECIFICATION Spec
CONSTANTS
    Keys = {f1, f2, f3}
    Passphrases = {p1}
    NoPass = NoPass
    Clients = {c1, c2}
    Timeouts = {0}
    LifetimeModulus = 4
    ExpiryPeriod = 2
    MaxTime = 0
    MaxChanges = 4
    Names = {n1}
    KeyPasses = {"", "a"}
    KeyKinds = {"UNSPECIFIED", "ED25519_SK"}
    MaxAccidents = 1
    Updates = {u1, u2}
    WatchedCalls = 1
    PushKeys = {g1, g2}
    OtherKey = g0
    MaxPushes = 4
INVARIANTS FilesAsAnswered KeysSafe QuietIsCurrent
PROPERTY PushSafe
SYMMETRY Interchangeable
CHECK_DEADLOCK FALSE

SPECIFICATION Spec
CONSTANTS
    Keys = {k1}
    Passphrases = {p1}
    NoPass = NoPass
    Clients = {}
    Timeouts = {0}
    LifetimeModulus = 4
    ExpiryPeriod = 2
    MaxTime = 0
    MaxChanges = 2
    Subs = {s1}
    Notifiers = {g1, g2}
    Nobody = Nobody

PROPERTY WatchConverges
CHECK_DEADLOCK FALSE

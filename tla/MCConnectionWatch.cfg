SPECIFICATION WatchSpec
CONSTANTS
    m1 = m1  a1 = a1
    Conns = {c1, c2}
    Addrs = {a1}
    Remotes = {m1}
    AddrOf <- Alone
    Moves = {}
    Keys = {k1}
    Reqs = {q1}
    MaxConnections = 1
    NoConn = NoConn  NoKey = NoKey  NoRemote = NoRemote  NoAddr = NoAddr  NoOne = NoOne
    Janitor = Janitor
PROPERTIES KeyRemovalDisconnects KeyWatchEnds CountShown
CHECK_DEADLOCK FALSE

SPECIFICATION Spec
CONSTANTS
    m1 = m1  m2 = m2  a1 = a1  a2 = a2
    Conns = {c1, c2}
    Addrs = {a1, a2}
    Remotes = {m1, m2}
    AddrOf <- Apart
    Moves <- FirstMoves
    Keys = {k1}
    Reqs = {q1, q2}
    MaxConnections = 1
    NoConn = NoConn  NoKey = NoKey  NoRemote = NoRemote  NoAddr = NoAddr  NoOne = NoOne
    Janitor = Janitor
INVARIANTS PoolSafe ShownIsConnected
PROPERTY NoCommandCut
SYMMETRY Interchangeable
CHECK_DEADLOCK FALSE

CONSTANTS
    u1 = u1
    u2 = u2
    t1 = t1
    p1 = p1
    p2 = p2
    w1 = w1
    w2 = w2
    c1 = c1
    c2 = c2
    NoConn = NoConn
    Users = {u1, u2}
    Tabs = {t1}
    Processes = {p1, p2}
    Publishers = {w1, w2}
    Conns = {c1, c2}
    Owner <- MCOwner
    Home <- MCHome
    Buffer = 1
    ReplayLimit = 1
    MaxEvents = 2
    MaxFaults = 1
SYMMETRY MCSymmetry
SPECIFICATION Spec
INVARIANTS NothingFallsBetween HolesExplained
PROPERTY ClosedTakesNothing
CHECK_DEADLOCK FALSE

CONSTANTS
    k1 = k1
    k2 = k2
    s1 = s1
    s2 = s2
    u1 = u1
    u2 = u2
    t1 = t1
    t2 = t2
    NoTask = NoTask
    Users = {u1, u2}
    Tasks = {t1, t2}
    Sessions = {s1, s2}
    Owner <- MCOwner
    HoldAmounts = {1, 2}
    TopupAmounts = {3}
    TopupKeys = {k1, k2}
SPECIFICATION Spec
SYMMETRY MCSymmetry
INVARIANTS HeldExplained NoOverdraft
PROPERTY ImplementsAccounts
CHECK_DEADLOCK FALSE

CONSTANTS
    s = s
    h = h
    t1 = t1
    q1 = q1
    p1 = p1
    p2 = p2
    NoAsset = NoAsset
    Cards = {s, h}
    KindOf <- MCKindOf
    Texts = {1, 2}
    EmptyText = 1
    Params = {p1, p2}
    BadParams = p2
    Assets = {1}
    Places = {1, 2}
    Zooms = {10, 50}
    MaxVersions = 1
    MaxHistory = 1
    Tabs = {t1}
    Handlers = {q1}
    Executor = Executor
    MaxRevision = 2
    MaxFaults = 1
SPECIFICATION Spec
INVARIANTS ReplayRebuilds EveryTextKept BillFollowsCanvas 
 
CHECK_DEADLOCK FALSE

CONSTANTS
    t1 = t1
    t2 = t2
    p1 = p1
    p2 = p2
    s1 = s1
    s2 = s2
    q1 = q1
    q2 = q2
    h1 = h1
    c1 = c1
    NoTask = NoTask
    NoProc = NoProc
    Tasks = {t1}
    Procs = {p1, p2}
    Submitters = {s1, s2}
    Pollers = {q2}
    Hooks = {h1}
    Cancellers = {c1}
    Proc <- MCProc
    SubmitMax = 2
    PollMax = 2
    MaxAttempt = 2
    Crashes = TRUE
    DbFaults = FALSE
    Stalls = FALSE
    PromptHold = TRUE
    MaxRequeues = 0
    MaxRestarts = 0
SPECIFICATION FairSpec
INVARIANTS NothingStaysFrozen RunningIsTended
PROPERTIES EveryTaskEnds
CHECK_DEADLOCK FALSE

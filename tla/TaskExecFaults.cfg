CONSTANTS
    t1 = t1
    t2 = t2
    p1 = p1
    p2 = p2
    s1 = s1
    s2 = s2
    q1 = q1
    q2 = q2
    h1 = h1
    c1 = c1
    NoTask = NoTask
    NoProc = NoProc
    Tasks = {t1}
    Procs = {p1, p2}
    Submitters = {s1, s2}
    Pollers = {q2}
    Hooks = {}
    Cancellers = {c1}
    Proc <- MCProc
    SubmitMax = 1
    PollMax = 1
    MaxAttempt = 1
    Crashes = TRUE
    DbFaults = TRUE
    Stalls = FALSE
    PromptHold = FALSE
    MaxRequeues = 0
    MaxRestarts = 1
SPECIFICATION Spec
INVARIANTS SettledAsShown 
CHECK_DEADLOCK FALSE

CONSTANTS
    t1 = t1
    t2 = t2
    p1 = p1
    p2 = p2
    s1 = s1
    s2 = s2
    s3 = s3
    NoProc = NoProc
    NoTask = NoTask
    Tasks = {t1, t2}
    Procs = {p1, p2}
    Submitters = {s1, s2, s3}
    Proc <- MCProc
    Age <- MCAge
    TTL = 2
    PollBatch = 2
    DistinctDeadlines = TRUE
    Stalls = FALSE
    MaxCrashes = 1
SPECIFICATION FairSpec
 
PROPERTIES ImplementsLeases QueuedIsServed
CHECK_DEADLOCK FALSE

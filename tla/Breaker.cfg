CONSTANTS
    a = a
    b = b
    w1 = w1
    w2 = w2
    w3 = w3
    q1 = q1
    NoProvider = NoProvider
    Providers = {a, b}
    Workers = {w1, w2, w3}
    Pollers = {q1}
    FailureThreshold = 2
    HalfOpenProbes = 2
    MaxAttempts = 2
    MaxFailures = 2
    Withdrawals = {b}
    JobsFail = {b}
SPECIFICATION FairSpec
INVARIANTS ProbeIsOut TripsOnStreak
PROPERTIES Recovers
CHECK_DEADLOCK FALSE

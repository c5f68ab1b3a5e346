CONSTANTS
    q1 = q1
    q2 = q2
    g1 = g1
    g2 = g2
    g3 = g3
    c1 = c1
    c2 = c2
    a1 = a1
    a2 = a2
    m1 = m1
    m2 = m2
    b1 = b1
    u1 = u1
    u2 = u2
    p1 = p1
    p2 = p2
    h1 = h1
    h2 = h2
    Requests = {q1, q2}
    GenerateTokens = {g1, g2, g3}
    ComposeTokens = {c1}
    NoToken = NoToken
    MaxConcurrent = 1
    Credits = 2
    Cost = 1
    MaxEdits = 2
    MaxCards = 2
    MaxRequeues = 1
    Admins = {a1, a2}
    Models = {m1}
    Browsers = {b1}
    MaxVersions = 3
    MaxClock = 2
    Users = {u1, u2}
    Admin0 = {u1, u2}
    Passwords = {p1, p2}
    Handlers = {h1, h2}
    MaxChanges = 2
    MaxRow = 4
    Limit = 2
    MaxTime = 3
    Drafts <- MCDrafts
    Revisions <- MCRevisions
    Texts <- MCTexts
    SeedNumbers <- MCSeedNumbers
    Literals <- MCLiterals
    MaxFiles = 2
    ServedModels <- MCServedModels
SPECIFICATION Spec
INVARIANTS OvershootBounded TokenHeldOnce FingerprintHonest SomeAdminLeft PasswordAsAnswered PagesComplete FormAccepted QuotedIsCharged NothingSwallowed  
PROPERTY OneComposedCard
CHECK_DEADLOCK FALSE
SYMMETRY MCSymmetry

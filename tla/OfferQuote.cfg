CONSTANTS
    Drafts <- MCDrafts
    Revisions <- MCRevisions
    Texts <- MCTexts
    SeedNumbers <- MCSeedNumbers
    Literals <- MCLiterals
    MaxFiles = 2
SPECIFICATION OfferSpec
INVARIANT QuotedIsAlwaysCharged
CHECK_DEADLOCK FALSE

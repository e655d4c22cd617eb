SPECIFICATION FairSpec
CONSTANTS
    k1 = k1
    k2 = k2
    w1 = w1
    w2 = w2
    Invalid = Invalid
    Absent = Absent
    NoDoc = NoDoc
    Key <- MCKey
    WebName <- MCWebName
    Caller = {c1, c2}
    Document <- SharedHostDocuments
    Publication <- OddPublications
    HttpResolver = TRUE
    OpTimeout = 1
    LastCall = 0
    MaxTime = 4
    MaxViews = 2
INVARIANTS
    VouchedSoFar
    RejectionHasCause
PROPERTIES
    KeepsPromise
    CallReturns

SPECIFICATION Spec
CONSTANTS
    k1 = k1
    k2 = k2
    w1 = w1
    w2 = w2
    Invalid = Invalid
    Absent = Absent
    NoDoc = NoDoc
    Key <- MCKey
    WebName <- MCWebName
    Caller = {c1}
    Document <- AllDocuments
    Publication <- Rotations
    HttpResolver = TRUE
    OpTimeout = 1
    LastCall = 1
    MaxTime = 6
    MaxViews = 3
INVARIANTS
    TypeOK
    ValidMeansSound
    RejectionHasCause
    AcceptedWhileFresh
    CallIsBounded
PROPERTIES
    KeepsPromise

SPECIFICATION FairRollout
CONSTANTS
    c1 = c1
    c2 = c2
    c3 = c3
    c4 = c4
    main = main
    canonical = canonical
    None = None
    Commit <- MCCommit
    Ancestry <- MCAncestry
    Branch = {main}
    Main = main
    Checkout = {canonical}
    Canonical = canonical
    PathTarget = canonical
    ManualModes = {"strict", "tolerant"}
    Push <- MCPush
    MaxEdits = 0
    StageMode = "tolerant"
    MaxPushes = 2
INVARIANTS
    RolloutTypeOK
    RolloutIsNotBlocked
    RolloutConverges
    PinsStayReachable
PROPERTY
    RolloutEnds
CHECK_DEADLOCK FALSE

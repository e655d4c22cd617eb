SPECIFICATION Spec
CONSTANTS
    c1 = c1
    c2 = c2
    c3 = c3
    main = main
    topic = topic
    tag = tag
    canonical = canonical
    mirror = mirror
    None = None
    Commit <- MCCommit
    Ancestry <- MCAncestry
    Branch <- MCBranch
    Checkout = {canonical, mirror}
    Canonical = canonical
    PathTarget = mirror
    ManualModes = {"strict", "tolerant"}
    Push <- BranchPushes
    MaxEdits = 2
INVARIANTS
    TypeOK
    
    
PROPERTY
    PushKeepsPins
CHECK_DEADLOCK FALSE

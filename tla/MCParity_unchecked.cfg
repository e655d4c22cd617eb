SPECIFICATION Spec
CONSTANTS
    c1 = c1
    c2 = c2
    c3 = c3
    main = main
    topic = topic
    tag = tag
    canonical = canonical
    mirror = mirror
    None = None
    Commit <- MCCommit
    Ancestry <- MCAncestry
    Branch <- MCBranch
    Checkout = {canonical}
    Canonical = canonical
    PathTarget = canonical
    ManualModes = {}
    Push <- UncheckedPushes
    MaxEdits = 2
PROPERTY
    PushKeepsPins
CHECK_DEADLOCK FALSE

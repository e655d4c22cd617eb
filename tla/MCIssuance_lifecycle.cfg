SPECIFICATION Spec
CONSTANTS
    k1 = k1
    k2 = k2
    Invalid = Invalid
    Absent = Absent
    Key <- MCKey
    WebName = {}
    Draft <- MCDraft
    Edited <- MCEdited
    MaxHeld = 4
    MaxTime = 2
INVARIANTS
    TypeOK
    IssuedVerifies
    VerifiedWasAsked
CHECK_DEADLOCK FALSE

SPECIFICATION Spec
CONSTANTS
    admin = admin
    guest = guest
    None = None
    Worker = {v1, v2}
    Sub <- MCSub
    AdminDid = admin
    VerifierSize = 64
    MaxRequests = 3
    OperatorRow <- MCOperatorRow
    MaxEdits = 1
INVARIANT
    RequestReachesProvider
CHECK_DEADLOCK FALSE

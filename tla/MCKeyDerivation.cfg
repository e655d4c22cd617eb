SPECIFICATION Spec
CONSTANTS
    Seed <- MCSeed
    Index <- MCIndex
    ScalarAttempts = 2
    MaxCalls = 3
INVARIANTS
    TypeOK
    SecretsAreSeparate
    DerivationIsStable
CHECK_DEADLOCK FALSE

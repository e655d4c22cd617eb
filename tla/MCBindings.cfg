SPECIFICATION Spec
CONSTANTS
    Key = {k1}
    WebName = {w1}
    Invalid = Invalid
    Absent = Absent
    Kek = {kek1, kek2}
    Plaintext <- MCPlaintext
    NONCE_LEN = 2
    TAG_LEN = 3
    Thread = {t1, t2}
    Address = {a1, a2}
    Null = Null
    NotUtf8 = NotUtf8
    Draft <- MCDraft
    Malformed = Malformed
    Seed = {seed}
    MaxLoad = 3
SYMMETRY ThreadSymmetry
INVARIANTS
    BindingsTypeOK
    OneOwner
    UnreadProvesNothing
    VaultKeepsPayloads

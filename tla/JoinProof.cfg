\* The bounds of Join.
CONSTANTS
    Client = {c1, c2}
    NoKey = NoKey
    MaxKeys = 4
    MaxMessages = 7
SPECIFICATION Spec
INVARIANTS
    ProofBeforeCredential
CHECK_DEADLOCK FALSE

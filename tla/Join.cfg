\* Two clients whose joins interleave, four keys: two joins, or one that is repeated.
CONSTANTS
    Client = {c1, c2}
    NoKey = NoKey
    MaxKeys = 4
    MaxMessages = 7
SPECIFICATION Spec
INVARIANTS
    KeyEncryptsOnce
PROPERTIES
    CredentialsSpec
CHECK_DEADLOCK FALSE

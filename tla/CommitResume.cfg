\* The commitments of Signing.
SPECIFICATION SigningSpec
CONSTANTS
    UsedParts = {"CommitCounter"}
    IndexSize = 2
    CountRange = 4
    MaxCommits = 4
    MaxResets = 1
    MaxUndone = 1
    MaxSessions = 2
    MaxNonces = 3
    MaxExtends = 2
    Second = 2
    Expirations = {0, 1}
    MaxTime = 4
    MaxEpochs = 2
    MaxTicketResets = 2
    MaxTickets = 1
    Code = {"Create", "Duplicate", "PolicySecret"}
    Duplicate = "Duplicate"
    PolicySecret = "PolicySecret"
    CreateCode = {"Create"}
    Name = {"n1", "n2"}
    Parameters = {"a", "b"}
    NormalLocality = {0, 1}
    ExtendedLocality = {32}
    Order = 13
    Base = 4
    PrivateKey = {3, 5}
    IssuerX = {2, 6}
    IssuerY = {7, 9}
    KnownX = 2
    KnownY = 7
    Draw = {3, 8}
    HashNumber = {0, 3, 6, 9}
    OldByte = {0, 3}
    Text = {"a", "b"}
INVARIANTS
    EndedCommitmentIsNotUsedAgain
CHECK_DEADLOCK FALSE

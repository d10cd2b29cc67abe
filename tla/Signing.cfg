\* Commitments: a two-bit array over two of its turns, to the end of the
\* four counts; one Reset, one signature that a startup undoes.  Sessions: two, with
\* three nonces (a handle is handed out twice) and two extends.
\* Tickets: seconds of two milliseconds, two power periods of two seconds, so that a time
\* of the first comes again in the second, two Resets and one ticket.  Policies: a command
\* that creates, one that duplicates and one that needs a password, two names, two
\* parameters, two normal localities and an extended one.  Daa: a group of 13 in bytes of
\* four values, two keys, four issuers; what is drawn and hashed includes numbers with a
\* leading zero, and the hash 0.
SPECIFICATION SigningSpec
CONSTANTS
    UsedParts = {"CommitCounter", "Sessions", "Tickets", "Policies", "Daa"}
    IndexSize = 2
    CountRange = 4
    MaxCommits = 4
    MaxResets = 1
    MaxUndone = 1
    MaxSessions = 2
    MaxNonces = 3
    MaxExtends = 2
    Second = 2
    Expirations = {0, 1}
    MaxTime = 4
    MaxEpochs = 2
    MaxTicketResets = 2
    MaxTickets = 1
    Code = {"Create", "Duplicate", "PolicySecret"}
    Duplicate = "Duplicate"
    PolicySecret = "PolicySecret"
    CreateCode = {"Create"}
    Name = {"n1", "n2"}
    Parameters = {"a", "b"}
    NormalLocality = {0, 1}
    ExtendedLocality = {32}
    Order = 13
    Base = 4
    PrivateKey = {3, 5}
    IssuerX = {2, 6}
    IssuerY = {7, 9}
    KnownX = 2
    KnownY = 7
    Draw = {3, 8}
    HashNumber = {0, 3, 6, 9}
    OldByte = {0, 3}
    Text = {"a", "b"}
INVARIANTS
    OneSignaturePerCommitment
    CountsAreExact
    SignNeedsConsent
    SignNeedsApprovedPcrs
    NonceAuthorizesOnce
    TimedAuthorizationEnds
    TimedAuthorizationLasts
    PolicyIsExact
    SignatureIsExact
PROPERTIES
    AttestationSpec
CHECK_DEADLOCK FALSE

\* Crashes at every point of a call, commands that fail for want of a slot, PCRs
\* that change, and memory that a failed command did not write holds anything.
\* Enough resets to crash in a setup and to heal in the next one, enough nonces for
\* a join, and two commitments: one that a call leaves open, and the one a later
\* call signs with, or fails to make.  Every step of the bridge is one the TPM's
\* sessions and commitments allow.
CONSTANTS
    IndexSize = 2
    CountRange = 4
    MaxCommits = 2
    MaxResets = 2
    MaxUndone = 0
    MaxSessions = 3
    MaxNonces = 3
    MaxExtends = 1
    MaxObjects = 2
    Leftovers = TRUE
SPECIFICATION Spec
INVARIANTS
    EnableHeals
    SignatureUsesCallersConsent
    SignUsesItsOwnCommitment
    ExternalKeysDoNotLeak
PROPERTIES
    SessionsSpec
    CommitSpec
CHECK_DEADLOCK FALSE

\* Any calls in any order, as long as a join and two signatures, on a TPM with
\* the slots of the build; nobody crashes and the PCRs stay.
CONSTANTS
    IndexSize = 2
    CountRange = 4
    MaxCommits = 5
    MaxResets = 1
    MaxUndone = 0
    MaxSessions = 3
    MaxNonces = 6
    MaxExtends = 0
    MaxObjects = 3
    Leftovers = FALSE
SPECIFICATION Spec
INVARIANTS
    ProperCallSigns
CHECK_DEADLOCK FALSE

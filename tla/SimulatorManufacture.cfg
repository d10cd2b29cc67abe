\* The first process dies, the second one starts the TPM.
CONSTANTS
    MaxLaunches = 2
    MaxSetups = 1
    MaxCalls = 1
    Reopens = FALSE
SPECIFICATION Spec
INVARIANTS
    ManufactureIsNotSkipped
CHECK_DEADLOCK FALSE

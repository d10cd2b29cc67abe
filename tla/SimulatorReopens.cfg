\* One process that calls setup, or DAAEnable, twice.
CONSTANTS
    MaxLaunches = 1
    MaxSetups = 2
    MaxCalls = 1
    Reopens = TRUE
SPECIFICATION FairSpec
PROPERTIES
    CallReturns
CHECK_DEADLOCK FALSE

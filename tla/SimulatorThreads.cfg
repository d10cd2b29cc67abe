\* Three processes, three setups in each, with or without closing the connection;
\* kills and failures at any point, two later commands.
CONSTANTS
    MaxLaunches = 3
    MaxSetups = 3
    MaxCalls = 2
    Reopens = TRUE
SPECIFICATION FairSpec
INVARIANTS
    ReadySetupSucceeds
    NothingBlocksCall
PROPERTIES
    NvIsNeverLost
    HangsOnlyBehindLeak
CHECK_DEADLOCK FALSE

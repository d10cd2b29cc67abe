\* The indices of Parts.
SPECIFICATION PartsSpec
CONSTANTS
    UsedParts = {"Nv"}
    MaxActive = 3
    MaxLoaded = 2
    SlotRange = 6
    CounterMax = 17
    MaxTotalResets = 2
    UpdateInterval = 2
    MaxTries = 2
    RecoveryTime = 2
    LockoutRecovery = 1
    TimeRange = 100
    MaxPowered = 2
    MaxRestarts = 1
    MaxFailures = 2
    MaxLockoutTime = 0
    MaxClock = 1
    MaxObjects = 2
    OwnerHandles = {p1}
    PlatformHandles = {}
    UsedHierarchies = {"ENDORSEMENT", "PLATFORM"}
    MaxContexts = 1
    MaxObjectResets = 2
    MaxPeriods = 2
    MaxCleared = 1
    n1 = n1
    n2 = n2
    NvHandle = {n1, n2}
    Templates <- NvTemplates
    OrderlyRange = 2
    NvData = {1, 2}
    MaxCount = 3
    Pcr = {0, 17, 21}
    MaxMeasured = 2
    MaxPcrCounter = 3
INVARIANTS
    DeletedCountersNeverGoBack
CHECK_DEADLOCK FALSE

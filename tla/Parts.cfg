\* One behaviour per part.  Session contexts: three sessions, two slots and six
\* values of an entry, of which three are numbers; the numbers end at the third
\* turn.  Clock: two ticks, two failures, and two startups that find the note of
\* a shutdown, as the first one of all does; lockoutAuth fails before the first
\* tick only.  Objects: two slots, one
\* persistent object, one context, one clearing and one Reset after the first
\* startup.  NV: a counter beside an index of any kind, counts with one low bit.
SPECIFICATION PartsSpec
CONSTANTS
    UsedParts = {"Contexts", "Lockout", "Objects", "Nv", "Pcrs"}
    MaxActive = 3
    MaxLoaded = 2
    SlotRange = 6
    CounterMax = 17
    MaxTotalResets = 2
    UpdateInterval = 2
    MaxTries = 2
    RecoveryTime = 2
    LockoutRecovery = 1
    TimeRange = 100
    MaxPowered = 2
    MaxRestarts = 2
    MaxFailures = 2
    MaxLockoutTime = 0
    MaxClock = 1
    MaxObjects = 2
    OwnerHandles = {p1}
    PlatformHandles = {}
    UsedHierarchies = {"ENDORSEMENT", "PLATFORM"}
    MaxContexts = 1
    MaxObjectResets = 2
    MaxPeriods = 2
    MaxCleared = 1
    n1 = n1
    n2 = n2
    NvHandle = {n1, n2}
    Templates <- NvTemplates
    OrderlyRange = 2
    NvData = {1, 2}
    MaxCount = 3
    Pcr = {0, 17, 21}
    MaxMeasured = 2
    MaxPcrCounter = 3
INVARIANTS
    PartsTypeOK
    OnlyLiveContextsLoad
    LiveContextsStayValid
    GapCanBeRelieved
    SafeClockIsAhead
    ForgivenFailuresArePaid
    LockoutEnds
    DisabledHierarchyIsEmpty
    ClearedObjectsAreGone
    ObjectsEndWithTheirPeriod
    OrderlyRamIsExact
    CountersNeverGoBack
    NoStaleData
    LocksHold
    CurrentCheckHolds
    MeasurementsAreKept
    StartValuesTell
CHECK_DEADLOCK FALSE

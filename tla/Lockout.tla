------------------------------ MODULE Lockout ------------------------------
(***************************************************************************)
(* The clock of the TPM and its protection against guessing of             *)
(* authorization values (Time.c, DA.c and the checks in SessionProcess.c). *)
(*                                                                         *)
(* Each failed authorization counts, and the count goes down by one for    *)
(* every recoveryTime that the TPM was powered.  Time is read at the start *)
(* of each command, and only while NV can be written.  The count is kept   *)
(* in NV; the clock and the timers of the healing are kept in RAM, written *)
(* to NV at TPM2_Shutdown and whenever the clock passes a multiple of      *)
(* UpdateInterval, and after a loss of power without a shutdown they are   *)
(* as they were last written.  While NV is not available one failure is    *)
(* kept in RAM (s_DAPendingOnNV) and the next check waits for NV.          *)
(***************************************************************************)
EXTENDS Power

CONSTANTS
    UpdateInterval, \* 2^NV_CLOCK_UPDATE_INTERVAL, 4096 ms in the build
    MaxTries,       \* DAPreInstall_Init: gp.maxTries, 3 in the build
    RecoveryTime,   \* DAPreInstall_Init: gp.recoveryTime, 1000 s in the build
    LockoutRecovery,    \* gp.lockoutRecovery: 0 stands for "until the next startup"
    TimeRange,      \* how many values an UINT64 has: 2^64 in the build
    MaxPowered,     \* bound: time the TPM is powered, over all power cycles
    MaxRestarts,    \* bound: shutdowns followed by a startup
    MaxFailures,    \* bound: failed authorizations
    MaxLockoutTime, \* bound: time powered until which lockoutAuth may fail
    MaxClock        \* bound: the clock that TPM2_ClockSet asks for

ASSUME LockoutAssumption ==
    /\ {MaxTries, LockoutRecovery, MaxPowered, MaxRestarts, MaxFailures, MaxLockoutTime, MaxClock} \subseteq Nat
    /\ {UpdateInterval, RecoveryTime} \subseteq Nat \ {0}
    /\ TimeRange \in Nat
    /\ TimeRange >= MaxPowered + (MaxRestarts + 1) * RecoveryTime

VARIABLES
    timer,          \* _plat__TimerRead: time since the power came on
    time,           \* g_time: the timer as of the last command that could read it
    go, nvGo,       \* ORDERLY_DATA, in RAM and in NV: the clock and the timers
    da, nvDa,       \* the counters of gp, in RAM and in NV
    pendingOnNV,    \* s_DAPendingOnNV
    reported,       \* history: the largest clock that was reported
    provisional,    \* history: the same, since the note of a shutdown stands
    failures,       \* history: failed authorizations that no reset forgave and no shutdown lost
    powered,        \* history: time powered
    restarts,       \* history: startups after a shutdown that was noted, the first of all among them
    repeats,        \* history: losses of power that took a timer back to a shutdown
    mixed           \* history: one found a timer that is later than its shutdown

lockoutHistory == <<reported, provisional, failures, powered, restarts, repeats, mixed>>
lockoutVars == <<powerVars, timer, time, go, nvGo, da, nvDa, pendingOnNV, lockoutHistory>>

LockoutTypeOK ==
    /\ PowerTypeOK
    /\ {timer, time, reported, provisional, failures, powered, restarts, repeats} \subseteq Nat
    /\ time <= timer
    /\ {go, nvGo} \subseteq [clock : Nat, clockSafe : BOOLEAN, selfHealTimer : Int,
                             lockoutTimer : Int, time : Nat]
    /\ {da, nvDa} \subseteq [failedTries : Nat, lockOutAuthEnabled : BOOLEAN]
    /\ {pendingOnNV, mixed} \subseteq BOOLEAN
    /\ pendingOnNV \/ nvDa.failedTries = da.failedTries
    /\ LockoutRecovery = 0 \/ pendingOnNV \/ nvDa = da

-----------------------------------------------------------------------------
(* What a command reads and writes, as one record m that is handed from one *)
(* function of the code to the next.                                         *)

Memory == [time |-> time, go |-> go, nvGo |-> nvGo, da |-> da, nvDa |-> nvDa,
           pending |-> pendingOnNV]

Remember(m) ==
    /\ time' = m.time
    /\ go' = m.go /\ nvGo' = m.nvGo
    /\ da' = m.da /\ nvDa' = m.nvDa
    /\ pendingOnNV' = m.pending

\* Mutant of TimeClockUpdate: the safe flag is set with every update.
TimeClockUpdateSafe(m, newTime) ==
    LET now == [m.go EXCEPT !.clock = newTime, !.clockSafe = TRUE]
    IN  IF newTime \div UpdateInterval > m.go.clock \div UpdateInterval
        THEN [m EXCEPT !.go = now, !.nvGo = now]
        ELSE [m EXCEPT !.go = now]

\* The clock goes on; when it passes a multiple of the interval it is written.
TimeClockUpdate(m, newTime) ==
    IF newTime \div UpdateInterval > m.go.clock \div UpdateInterval
    THEN LET now == [m.go EXCEPT !.clock = newTime, !.clockSafe = TRUE]
         IN  [m EXCEPT !.go = now, !.nvGo = now]
    ELSE [m EXCEPT !.go.clock = newTime]

\* What DASelfHeal takes for the time since a timer was set.  The difference is
\* unsigned: it is right for a timer that startup made negative, and huge for
\* one that is ahead of the time.
Elapsed(m, since) == (m.time - since) % TimeRange

\* DASelfHeal, regular authorizations.
HealTries(m) ==
    LET elapsed == Elapsed(m, m.go.selfHealTimer)
        decreaseCount == elapsed \div RecoveryTime
        tries == IF m.da.failedTries <= decreaseCount THEN 0 ELSE m.da.failedTries - decreaseCount
    IN  IF m.da.failedTries = 0 \/ decreaseCount = 0 THEN m
        ELSE [m EXCEPT !.da.failedTries = tries, !.nvDa.failedTries = tries,
                       !.go.selfHealTimer = m.time - (elapsed % RecoveryTime)]

\* DASelfHeal, lockoutAuth.
HealLockoutAuth(m) ==
    IF /\ ~ m.da.lockOutAuthEnabled
       /\ LockoutRecovery # 0
       /\ Elapsed(m, m.go.lockoutTimer) >= LockoutRecovery
    THEN [m EXCEPT !.da.lockOutAuthEnabled = TRUE, !.nvDa.lockOutAuthEnabled = TRUE]
    ELSE m

DASelfHeal(m) == HealLockoutAuth(HealTries(m))

\* Mutant of TimeUpdate: the healing comes before the time is known.
TimeUpdateHealsFirst(m) ==
    LET healed == DASelfHeal(m)
    IN  TimeClockUpdate([healed EXCEPT !.time = timer], healed.go.clock + timer - healed.time)

TimeUpdate(m) ==
    DASelfHeal(TimeClockUpdate([m EXCEPT !.time = timer], m.go.clock + timer - m.time))

\* TimeUpdateToCurrent, the first thing a command does.
TimeUpdateToCurrent(m) == IF nvAvailable THEN TimeUpdate(m) ELSE m

\* The DA counters of the TPM as a command finds them.
Current == TimeUpdateToCurrent(Memory)

\* CheckLockedOut: a failure that is pending is written first ...
PendingWritten(m) ==
    IF m.pending /\ nvAvailable THEN [m EXCEPT !.nvDa = m.da, !.pending = FALSE] ELSE m

\* Mutant of LockedOut: a check goes on although a failure is pending.
LockedOutWithoutWaiting(m, lockoutAuth) ==
    \/ ~ nvAvailable /\ Orderly
    \/ IF lockoutAuth THEN ~ m.da.lockOutAuthEnabled ELSE m.da.failedTries >= MaxTries

\* ... and nothing is checked that could not be counted, or while locked out.
LockedOut(m, lockoutAuth) ==
    \/ ~ nvAvailable /\ (Orderly \/ m.pending)
    \/ IF lockoutAuth THEN ~ m.da.lockOutAuthEnabled ELSE m.da.failedTries >= MaxTries

\* Mutant of CountFailure: that the failure has to be written is not noted.
CountFailureUnnoted(m) ==
    LET counted == [m EXCEPT !.da.failedTries = @ + 1, !.go.selfHealTimer = m.time]
    IN  IF nvAvailable THEN [counted EXCEPT !.nvDa.failedTries = counted.da.failedTries]
        ELSE counted

\* IncrementLockout for an entity under DA protection, and DARegisterFailure.
CountFailure(m) ==
    LET counted == [m EXCEPT !.da.failedTries = @ + 1, !.go.selfHealTimer = m.time]
    IN  IF nvAvailable THEN [counted EXCEPT !.nvDa.failedTries = counted.da.failedTries]
        ELSE [counted EXCEPT !.pending = TRUE]

\* IncrementLockout for lockoutAuth.
DisableLockoutAuth(m) ==
    LET disabled == [m EXCEPT !.da.lockOutAuthEnabled = FALSE, !.go.lockoutTimer = m.time]
    IN  IF LockoutRecovery = 0 THEN disabled
        ELSE IF nvAvailable THEN [disabled EXCEPT !.nvDa.lockOutAuthEnabled = FALSE]
        ELSE [disabled EXCEPT !.pending = TRUE]

-----------------------------------------------------------------------------
(* The commands. *)

NoFailures == [failedTries |-> 0, lockOutAuthEnabled |-> TRUE]
NewClock == [clock |-> 0, clockSafe |-> TRUE, selfHealTimer |-> 0, lockoutTimer |-> 0, time |-> 0]

LockoutInit ==
    /\ PowerInit
    /\ timer = 0 /\ time = 0
    /\ go = NewClock /\ nvGo = NewClock
    /\ da = NoFailures /\ nvDa = NoFailures
    /\ pendingOnNV = FALSE
    /\ reported = 0 /\ provisional = 0 /\ failures = 0 /\ powered = 0 /\ restarts = 0
    /\ repeats = 0
    /\ mixed = FALSE

Tick ==
    /\ powered < MaxPowered
    /\ timer' = timer + 1
    /\ powered' = powered + 1
    /\ UNCHANGED <<powerVars, time, go, nvGo, da, nvDa, pendingOnNV, reported, provisional, failures, restarts, repeats, mixed>>

Later(clock, than) == IF clock > than THEN clock ELSE than

\* TPM2_ReadClock, and every other command that reports the clock.  A report
\* is provisional while the note of a shutdown stands.
ReadClock ==
    LET m == Current
    IN  /\ started
        /\ Remember(m)
        /\ IF Orderly THEN provisional' = m.go.clock /\ UNCHANGED reported
                      ELSE reported' = Later(m.go.clock, reported) /\ UNCHANGED provisional
        /\ UNCHANGED <<powerVars, timer, failures, powered, restarts, repeats, mixed>>

\* TPM2_ClockSet: forward only.
ClockSet(newTime) ==
    LET m == Current
    IN  /\ started
        /\ nvAvailable
        /\ newTime >= m.go.clock
        /\ Remember(TimeClockUpdate(m, newTime))
        /\ UNCHANGED <<powerVars, timer, lockoutHistory>>

\* A command with the authValue of an entity under DA protection.
Authorize(success) ==
    LET m == PendingWritten(Current)
    IN  /\ started
        /\ IF LockedOut(m, FALSE) \/ success THEN Remember(m) /\ UNCHANGED failures
           ELSE /\ failures < MaxFailures
                /\ Remember(CountFailure(m))
                /\ failures' = failures + 1
        /\ UNCHANGED <<powerVars, timer, reported, provisional, powered, restarts, repeats, mixed>>

\* A command with lockoutAuth that does not succeed.
AuthorizeLockout ==
    LET m == PendingWritten(Current)
    IN  /\ started
        /\ IF LockedOut(m, TRUE) THEN Remember(m)
           ELSE /\ powered <= MaxLockoutTime
                /\ Remember(DisableLockoutAuth(m))
        /\ UNCHANGED <<powerVars, timer, lockoutHistory>>

Less(n, k) == IF n > k THEN n - k ELSE 0

\* The failures that are counted are forgiven, and need no time to be paid with.
Forgive(m) == failures' = Less(failures, m.da.failedTries)

\* TPM2_DictionaryAttackLockReset
LockReset ==
    LET m == PendingWritten(Current)
    IN  /\ started
        /\ nvAvailable
        /\ ~ LockedOut(m, TRUE)
        /\ Remember([m EXCEPT !.da.failedTries = 0, !.nvDa.failedTries = 0])
        /\ Forgive(m)
        /\ UNCHANGED <<powerVars, timer, reported, provisional, powered, restarts, repeats, mixed>>

\* What TPM2_Clear does to the clock and to the DA protection.
Clear ==
    LET m == Current
        new == [m.go EXCEPT !.clock = 0, !.clockSafe = TRUE]
    IN  /\ started
        /\ nvAvailable
        /\ NvClearOrderly
        /\ Remember([m EXCEPT !.go = new, !.nvGo = new, !.da = NoFailures, !.nvDa = NoFailures])
        /\ reported' = 0 /\ provisional' = 0
        /\ Forgive(m)
        /\ UNCHANGED <<timer, powered, restarts, repeats, mixed>>

\* A command of another part takes the note of the shutdown back.
ClockedCommand ==
    /\ started
    /\ Orderly
    /\ NvClearOrderly
    /\ Remember(Current)
    /\ reported' = Later(provisional, reported)
    /\ provisional' = 0
    /\ UNCHANGED <<timer, failures, powered, restarts, repeats, mixed>>

\* TPM2_Shutdown saves the clock and the timers, with the time they refer to.
LockoutShutdown(shutdownType) ==
    LET m == Current
        saved == [m.go EXCEPT !.time = m.time]
    IN  /\ PowerShutdown(shutdownType)
        /\ Remember([m EXCEPT !.go = saved, !.nvGo = saved])
        /\ UNCHANGED <<timer, lockoutHistory>>

\* A failure that waits for NV is lost with the power.  TPM2_Shutdown does not
\* write it, and a startup that finds the note of one counts none for it.
LostByShutdown == IF Orderly /\ nvDa.failedTries # da.failedTries THEN 1 ELSE 0

\* A loss of power, and _TPM_Init: all is read from NV again.  The pending flag
\* goes with the process, and outlives a power cycle inside it.
LockoutPowerLost ==
    /\ PowerLoss
    /\ timer' = 0 /\ time' = 0
    /\ go' = nvGo /\ da' = nvDa
    /\ pendingOnNV' \in {FALSE, pendingOnNV}
    /\ failures' = Less(failures, LostByShutdown)
    /\ repeats' = IF Orderly /\ nvGo.selfHealTimer # go.selfHealTimer THEN repeats + 1 ELSE repeats
    /\ UNCHANGED <<nvGo, nvDa, reported, provisional, powered, restarts, mixed>>

\* DAStartup: the timers go on after a shutdown, and start anew without one.
StartedTimers(m) ==
    IF Orderly
    THEN [m EXCEPT !.go.selfHealTimer = @ - m.go.time, !.go.lockoutTimer = @ - m.go.time]
    ELSE [m EXCEPT !.go.selfHealTimer = 0, !.go.lockoutTimer = 0, !.go.clockSafe = FALSE]

\* DAStartup: without a shutdown one failure may have been lost, and is counted.
StartedTries(m) ==
    LET enabled == m.da.lockOutAuthEnabled \/ LockoutRecovery = 0
        tries == IF m.da.failedTries < MaxTries /\ ~ Orderly THEN m.da.failedTries + 1
                                                             ELSE m.da.failedTries
    IN  [m EXCEPT !.da = [failedTries |-> tries, lockOutAuthEnabled |-> enabled],
                  !.nvDa = [failedTries |-> tries, lockOutAuthEnabled |-> enabled]]

\* What was written of go after TPM2_Shutdown, with a multiple of UpdateInterval:
\* the clock and timers of then, with the time of the shutdown.
TimerPastShutdown == Orderly /\ go.selfHealTimer > go.time

\* TimeStartup and DAStartup, in TPM2_Startup.
LockoutStartup(startupType) ==
    /\ PowerStartup(startupType)
    /\ Remember(TimeUpdate(StartedTries(StartedTimers(Memory))))
    /\ provisional' = 0
    /\ restarts' = IF Orderly THEN restarts + 1 ELSE restarts
    /\ restarts' <= MaxRestarts
    /\ mixed' = (mixed \/ TimerPastShutdown)
    /\ UNCHANGED <<timer, reported, failures, powered, repeats>>

LockoutNvSignal ==
    /\ NvSignal
    /\ UNCHANGED <<timer, time, go, nvGo, da, nvDa, pendingOnNV, lockoutHistory>>

LockoutNext ==
    \/ Tick
    \/ ReadClock
    \/ \E newTime \in 0 .. MaxClock : ClockSet(newTime)
    \/ \E success \in BOOLEAN : Authorize(success)
    \/ AuthorizeLockout
    \/ LockReset
    \/ Clear
    \/ ClockedCommand
    \/ LockoutPowerLost
    \/ LockoutNvSignal
    \/ \E type \in StartupArgument : LockoutShutdown(type) \/ LockoutStartup(type)

LockoutSpec == LockoutInit /\ [][LockoutNext]_lockoutVars

-----------------------------------------------------------------------------
(* Properties. *)

\* While the clock says that it is safe no larger value was ever reported: the
\* clock that a loss of power sets back stays unsafe until it has passed all
\* that may have been reported.  A report after TPM2_Shutdown may be repeated.
SafeClockIsAhead ==
    started /\ go.clockSafe => reported <= go.clock

\* The failures that are no longer counted are paid for: each took
\* RecoveryTime of powered time that nothing else was paid with, through every
\* loss of power, with or without a shutdown or NV; but for a failure that still
\* waits for NV as the power goes while the note of a TPM2_Shutdown stands: the
\* code forgives it, one for each loss (LostByShutdown).  Timers that go back to
\* those of a shutdown count once more what was spent after it: less than one
\* RecoveryTime.
FailuresArePaid ==
    started => (failures - da.failedTries) * RecoveryTime + (time - go.selfHealTimer)
                   <= powered + repeats * (RecoveryTime - 1)

\* They are, if no startup found in NV a timer that is later than the shutdown
\* it is taken to be of: that one heals everything at once.
ForgivenFailuresArePaid ==
    ~ mixed => FailuresArePaid

\* A TPM that is locked out does not stay so longer than RecoveryTime of time
\* that it could read, and what was saved at a shutdown counts.
LockoutEnds ==
    started /\ da.failedTries # 0 => time - go.selfHealTimer < RecoveryTime
=============================================================================

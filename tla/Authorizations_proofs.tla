----------------------- MODULE Authorizations_proofs ------------------------
(***************************************************************************)
(* An authorization that fails counts until it is paid for, for every      *)
(* length of the healing and of the interval of the clock, through any     *)
(* loss of power.  What is signed is what a verifier accepts, in a group   *)
(* of any prime order.  A policy session authorizes what was asserted, and *)
(* until its deadline: for all commands, names, parameters and localities, *)
(* and for every length of a second and of an expiration, any number of    *)
(* tickets, power periods and Resets.  The parts are about Lockout, Daa,   *)
(* Policies and Tickets, in this order.                                    *)
(***************************************************************************)
EXTENDS Policies, Tickets, Lockout, Daa, WellFoundedInduction, TLAPS

-----------------------------------------------------------------------------
(* Remainders and products. *)

LEMMA Remainder ==
    ASSUME NEW x \in Nat, NEW d \in Nat, d > 0
    PROVE  /\ x \div d \in Nat
           /\ x % d \in 0 .. (d - 1)
           /\ x = d * (x \div d) + (x % d)
  BY Z3

LEMMA ProductIsNat ==
    ASSUME NEW x \in Nat, NEW y \in Nat
    PROVE  x * y \in Nat
  BY Z3

\* A time before the end of a second is in that second or an earlier one.
LEMMA WithinSecond ==
    ASSUME NEW x \in Nat, NEW d \in Nat, d > 0, NEW s \in Nat, x <= d * s + (d - 1)
    PROVE  x \div d <= s
  <1> DEFINE q == x \div d
  <1>1. q \in Nat /\ d * q <= x
    <2>1. d * q \in Nat
      BY Remainder, ProductIsNat
    <2> QED
      BY <2>1, Remainder
  <1> HIDE DEF q
  <1>2. ASSUME q > s
        PROVE  FALSE
    <2>1. q - s - 1 \in Nat
      BY <1>1, <1>2
    <2>2. d * (q - s - 1) \in Nat
      BY <2>1, ProductIsNat
    <2>3. d * q = d * (q - s - 1) + d * s + d
      BY <1>1, Z3
    <2>4. d * s \in Nat /\ d * q \in Nat
      BY <1>1, ProductIsNat
    <2> QED
      BY <1>1, <2>2, <2>3, <2>4
  <1> QED
    BY <1>1, <1>2 DEF q

-----------------------------------------------------------------------------
(* The inductive invariant of Lockout, of what a command works on (Memory)  *)
(* as the TPM is up, and of what NV holds as it is down.                     *)

Clocks == [clock : Nat, clockSafe : BOOLEAN, selfHealTimer : Int, lockoutTimer : Int, time : Nat]
Counters == [failedTries : Nat, lockOutAuthEnabled : BOOLEAN]
Memories == [time : Nat, go : Clocks, nvGo : Clocks, da : Counters, nvDa : Counters,
             pending : BOOLEAN]

\* What is not written to NV is pending.
NotedOrPending(m) ==
    /\ m.pending \/ m.nvDa.failedTries = m.da.failedTries
    /\ LockoutRecovery = 0 \/ m.pending \/ m.nvDa = m.da

\* The clock in NV is of the interval of the one in RAM, and no report r is of
\* a later one; provisional reports p are of this power cycle.  Once the TPM
\* is down, a clock that will be safe (o: after a shutdown) is ahead of all.
ClockFits(m, r, p, o) ==
    /\ m.go.clock \div UpdateInterval = m.nvGo.clock \div UpdateInterval
    /\ r \div UpdateInterval <= m.go.clock \div UpdateInterval
    /\ m.go.clockSafe => r <= m.go.clock
    /\ p <= m.go.clock
    /\ o /\ m.nvGo.clockSafe => r <= m.nvGo.clock

ClockFitsDown ==
    /\ reported \div UpdateInterval <= go.clock \div UpdateInterval
    /\ Orderly /\ go.clockSafe => reported <= go.clock

\* All the time there was to pay with.
Allowance == powered + repeats * (RecoveryTime - 1)

\* How far a timer may be from the time.
Reach == powered + restarts * (RecoveryTime - 1)

\* A timer goes back to a shutdown when the power is lost, and the startup
\* after that counts.
RepeatsFit == repeats <= IF ~ started /\ Orderly THEN restarts + 1 ELSE restarts

\* The timer of the failures is not so far from the time t that the unsigned
\* difference wraps, but at a startup, and that one sets it right.
TimersBounded(m, t, a, w, o) ==
    /\ m.go.time = m.nvGo.time
    /\ m.go.selfHealTimer <= w /\ m.nvGo.selfHealTimer <= w
    /\ t - m.go.selfHealTimer <= a
    /\ o => /\ m.go.time <= m.time
            /\ m.nvGo.time - m.nvGo.selfHealTimer <= a

\* As the time was last read, all was healed that could be.
TimerHealed(m) ==
    m.da.failedTries # 0 => /\ m.go.selfHealTimer <= m.time
                            /\ m.time - m.go.selfHealTimer < RecoveryTime

TimersFitDown ==
    /\ go.selfHealTimer <= powered
    /\ Orderly => timer + go.time - go.selfHealTimer <= Reach

\* The failures that are not counted any more.
Owed(f, tries) == IF f > tries THEN f - tries ELSE 0

\* They and the time since the timer was set were paid for; a failure that NV
\* does not know of is one that a startup counts without knowing.
PaidFor(m, f, t, a) ==
    /\ m.go.selfHealTimer <= m.time
    /\ Owed(f, m.da.failedTries) * RecoveryTime + (t - m.go.selfHealTimer) <= a
    /\ m.nvDa.failedTries # m.da.failedTries =>
           /\ m.nvDa.failedTries + 1 = m.da.failedTries
           /\ m.nvDa.failedTries < MaxTries

\* What the next startup will take for the time since then, as a shutdown is
\* noted: the timer is the same in NV; or a later one is in RAM only, and the
\* time until the shutdown is paid for twice.
PaidAtShutdown(m, f, t, a) ==
    \/ /\ m.nvGo.selfHealTimer = m.go.selfHealTimer
       /\ m.da.failedTries # 0 => m.nvGo.time - m.nvGo.selfHealTimer < RecoveryTime
    \/ /\ m.go.selfHealTimer >= m.nvGo.time
       /\ Owed(f, m.da.failedTries) * RecoveryTime + (m.nvGo.time - m.nvGo.selfHealTimer)
              + (t - m.go.selfHealTimer) <= a + RecoveryTime - 1

PaidDown ==
    IF Orderly
    THEN ~ TimerPastShutdown =>
             Owed(failures, da.failedTries) * RecoveryTime + (timer + go.time - go.selfHealTimer)
                 <= Allowance
    ELSE Owed(failures, IF da.failedTries < MaxTries THEN da.failedTries + 1 ELSE da.failedTries)
             * RecoveryTime + timer <= Allowance

UpInv ==
    /\ NotedOrPending(Memory)
    /\ ClockFits(Memory, reported, provisional, Orderly)
    /\ TimersBounded(Memory, timer, Reach, powered, Orderly)
    /\ TimerHealed(Memory)

DownInv ==
    /\ time = 0 /\ go = nvGo /\ da = nvDa
    /\ ClockFitsDown
    /\ TimersFitDown

LockoutInv ==
    /\ LockoutTypeOK
    /\ timer <= powered /\ powered <= MaxPowered /\ restarts <= MaxRestarts /\ RepeatsFit
    /\ started => UpInv
    /\ ~ started => DownInv

\* The payments, as no timer was taken for one of before its shutdown.
PaymentInv ==
    ~ mixed =>
        /\ started => /\ PaidFor(Memory, failures, timer, Allowance)
                      /\ Orderly => PaidAtShutdown(Memory, failures, timer, Allowance)
        /\ ~ started => PaidDown
-----------------------------------------------------------------------------
(* Arithmetic of the clock. *)

LEMMA LaterInterval ==
    ASSUME NEW x \in Nat, NEW y \in Nat, NEW d \in Nat, d > 0, x <= y
    PROVE  x \div d <= y \div d
  <1>1. y \div d \in Nat /\ x <= d * (y \div d) + (d - 1)
    <2>1. d * (y \div d) \in Nat
      BY Remainder, ProductIsNat
    <2> QED
      BY <2>1, Remainder
  <1> QED
    BY <1>1, WithinSecond

\* What an unsigned difference comes to.
LEMMA Wrapped ==
    ASSUME NEW x \in Int, NEW n \in Nat, n > 0
    PROVE  /\ x % n \in 0 .. (n - 1)
           /\ 0 <= x /\ x < n => x % n = x
           /\ x < 0 /\ x + n >= 0 => x % n = x + n
  <1> DEFINE q == x \div n
             r == x % n
  <1>1. q \in Int /\ r \in 0 .. (n - 1) /\ x = n * q + r
    BY Z3
  <1> HIDE DEF q, r
  <1>2. ASSUME q >= 1
        PROVE  x >= n
    <2>1. n * (q - 1) \in Nat
      BY <1>1, <1>2, ProductIsNat
    <2>2. n * q = n * (q - 1) + n
      BY <1>1, Z3
    <2> QED
      BY <1>1, <2>1, <2>2
  <1>3. ASSUME q <= -1
        PROVE  x < 0
    <2>1. n * (-1 - q) \in Nat
      BY <1>1, <1>3, ProductIsNat
    <2>2. n * q = - (n * (-1 - q)) - n
      BY <1>1, Z3
    <2> QED
      BY <1>1, <2>1, <2>2
  <1>4. ASSUME q <= -2
        PROVE  x + n < 0
    <2>1. n * (-2 - q) \in Nat
      BY <1>1, <1>4, ProductIsNat
    <2>2. n * q = - (n * (-2 - q)) - 2 * n
      BY <1>1, Z3
    <2> QED
      BY <1>1, <2>1, <2>2
  <1>5. q = 0 => x = r
    BY <1>1
  <1>6. q = -1 => x = r - n
    BY <1>1
  <1>7. 0 <= x /\ x < n => q = 0
    BY <1>1, <1>2, <1>3
  <1>8. x < 0 /\ x + n >= 0 => q = -1
    BY <1>1, <1>2, <1>4, <1>5
  <1> QED
    BY <1>1, <1>5, <1>6, <1>7, <1>8 DEF r

-----------------------------------------------------------------------------
(* What the functions of the code make of the memory m. *)

LEMMA LockoutConstants ==
    /\ UpdateInterval \in Nat /\ UpdateInterval > 0
    /\ RecoveryTime \in Nat /\ RecoveryTime > 0
    /\ TimeRange \in Nat /\ TimeRange > 0
    /\ MaxTries \in Nat /\ LockoutRecovery \in Nat /\ MaxPowered \in Nat /\ MaxRestarts \in Nat
    /\ MaxRestarts * RecoveryTime \in Nat
    /\ TimeRange >= MaxPowered + MaxRestarts * RecoveryTime + RecoveryTime
  <1>1. /\ UpdateInterval \in Nat /\ UpdateInterval > 0
        /\ RecoveryTime \in Nat /\ RecoveryTime > 0
        /\ MaxTries \in Nat /\ LockoutRecovery \in Nat /\ MaxPowered \in Nat /\ MaxRestarts \in Nat
    BY LockoutAssumption
  <1>2. MaxRestarts * RecoveryTime \in Nat
    BY <1>1, ProductIsNat
  <1>3. (MaxRestarts + 1) * RecoveryTime = MaxRestarts * RecoveryTime + RecoveryTime
    BY <1>1, Z3
  <1>4. TimeRange \in Nat /\ TimeRange >= MaxPowered + (MaxRestarts + 1) * RecoveryTime
    BY LockoutAssumption
  <1> QED
    BY <1>1, <1>2, <1>3, <1>4

LEMMA MemoryFields ==
    ASSUME NEW m \in Memories
    PROVE  /\ m.time \in Nat /\ m.go \in Clocks /\ m.nvGo \in Clocks
           /\ m.da \in Counters /\ m.nvDa \in Counters /\ m.pending \in BOOLEAN
           /\ m.go.clock \in Nat /\ m.go.clockSafe \in BOOLEAN /\ m.go.selfHealTimer \in Int
           /\ m.go.lockoutTimer \in Int /\ m.go.time \in Nat
           /\ m.nvGo.clock \in Nat /\ m.nvGo.clockSafe \in BOOLEAN /\ m.nvGo.selfHealTimer \in Int
           /\ m.nvGo.lockoutTimer \in Int /\ m.nvGo.time \in Nat
           /\ m.da.failedTries \in Nat /\ m.da.lockOutAuthEnabled \in BOOLEAN
           /\ m.nvDa.failedTries \in Nat /\ m.nvDa.lockOutAuthEnabled \in BOOLEAN
  BY DEF Memories, Clocks, Counters

\* u is m with the clock set to newTime.
ClockSetTo(m, u, newTime) ==
    /\ u \in Memories
    /\ u.time = m.time /\ u.da = m.da /\ u.nvDa = m.nvDa /\ u.pending = m.pending
    /\ u.go.clock = newTime
    /\ u.go.selfHealTimer = m.go.selfHealTimer
    /\ u.go.time = m.go.time
    /\ \/ /\ newTime \div UpdateInterval > m.go.clock \div UpdateInterval
          /\ u.go.clockSafe
          /\ u.nvGo = u.go
       \/ /\ ~ newTime \div UpdateInterval > m.go.clock \div UpdateInterval
          /\ u.go.clockSafe = m.go.clockSafe
          /\ u.nvGo = m.nvGo

LEMMA TimeClockUpdateSets ==
    ASSUME NEW m \in Memories, NEW newTime \in Nat
    PROVE  ClockSetTo(m, TimeClockUpdate(m, newTime), newTime)
  <1> DEFINE now == [m.go EXCEPT !.clock = newTime, !.clockSafe = TRUE]
             kept == [m.go EXCEPT !.clock = newTime]
             u == TimeClockUpdate(m, newTime)
  <1>1. now \in Clocks /\ kept \in Clocks
    BY MemoryFields DEF Clocks
  <1>2. /\ now.clock = newTime /\ now.clockSafe = TRUE
        /\ now.selfHealTimer = m.go.selfHealTimer /\ now.time = m.go.time
        /\ kept.clock = newTime /\ kept.clockSafe = m.go.clockSafe
        /\ kept.selfHealTimer = m.go.selfHealTimer /\ kept.time = m.go.time
    BY MemoryFields DEF Clocks
  <1> HIDE DEF now, kept
  <1>3. CASE newTime \div UpdateInterval > m.go.clock \div UpdateInterval
    <2>1. u = [m EXCEPT !.go = now, !.nvGo = now]
      BY <1>3 DEF TimeClockUpdate, now
    <2>2. u \in Memories /\ u.go = now /\ u.nvGo = now
      BY <1>1, <2>1 DEF Memories
    <2>3. u.time = m.time /\ u.da = m.da /\ u.nvDa = m.nvDa /\ u.pending = m.pending
      BY <2>1 DEF Memories
    <2> QED
      BY <1>2, <1>3, <2>2, <2>3 DEF ClockSetTo
  <1>4. CASE ~ newTime \div UpdateInterval > m.go.clock \div UpdateInterval
    <2>1. u = [m EXCEPT !.go = kept]
      BY <1>4 DEF TimeClockUpdate, kept
    <2>2. u \in Memories /\ u.go = kept /\ u.nvGo = m.nvGo
      BY <1>1, <2>1 DEF Memories
    <2>3. u.time = m.time /\ u.da = m.da /\ u.nvDa = m.nvDa /\ u.pending = m.pending
      BY <2>1 DEF Memories
    <2> QED
      BY <1>2, <1>4, <2>2, <2>3 DEF ClockSetTo
  <1> QED
    BY <1>3, <1>4

\* u is m healed.
HealedTo(m, u) ==
    LET elapsed == Elapsed(m, m.go.selfHealTimer)
    IN  /\ u \in Memories
        /\ u.time = m.time /\ u.pending = m.pending /\ u.nvGo = m.nvGo
        /\ u.go.clock = m.go.clock /\ u.go.clockSafe = m.go.clockSafe /\ u.go.time = m.go.time
        /\ NotedOrPending(m) => NotedOrPending(u)
        /\ \/ /\ m.da.failedTries = 0 \/ elapsed < RecoveryTime
              /\ u.go.selfHealTimer = m.go.selfHealTimer
              /\ u.da.failedTries = m.da.failedTries
              /\ u.nvDa.failedTries = m.nvDa.failedTries
           \/ /\ m.da.failedTries # 0 /\ elapsed >= RecoveryTime
              /\ u.go.selfHealTimer = m.time - (elapsed % RecoveryTime)
              /\ u.da.failedTries <= m.da.failedTries
              /\ m.da.failedTries - u.da.failedTries <= elapsed \div RecoveryTime
              /\ u.nvDa.failedTries = u.da.failedTries

LEMMA HealTriesHeals ==
    ASSUME NEW m \in Memories
    PROVE  HealedTo(m, HealTries(m))
  <1> DEFINE elapsed == Elapsed(m, m.go.selfHealTimer)
             count == elapsed \div RecoveryTime
             tries == IF m.da.failedTries <= count THEN 0 ELSE m.da.failedTries - count
             since == m.time - (elapsed % RecoveryTime)
             u == HealTries(m)
  <1>1. elapsed \in Nat
    <2>1. m.time - m.go.selfHealTimer \in Int /\ TimeRange \in Nat /\ TimeRange > 0
      BY LockoutConstants, MemoryFields
    <2>2. elapsed \in 0 .. (TimeRange - 1)
      BY <2>1, Wrapped DEF Elapsed
    <2> QED
      BY <2>1, <2>2
  <1>2. /\ count \in Nat
        /\ elapsed % RecoveryTime \in 0 .. (RecoveryTime - 1)
        /\ count = 0 <=> elapsed < RecoveryTime
    <2>1. /\ count \in Nat
          /\ elapsed % RecoveryTime \in 0 .. (RecoveryTime - 1)
          /\ elapsed = RecoveryTime * count + (elapsed % RecoveryTime)
      BY <1>1, Remainder, LockoutConstants
    <2>2. count # 0 => RecoveryTime * (count - 1) \in Nat
      <3> HIDE DEF count
      <3> QED
        BY <2>1, ProductIsNat, LockoutConstants
    <2>3. RecoveryTime * count = RecoveryTime * (count - 1) + RecoveryTime
      <3> HIDE DEF count
      <3> QED
        BY <2>1, LockoutConstants, Z3
    <2> HIDE DEF count
    <2>4. count = 0 => elapsed < RecoveryTime
      BY <1>1, <2>1, LockoutConstants
    <2>5. count # 0 => elapsed >= RecoveryTime
      BY <1>1, <2>1, <2>2, <2>3, LockoutConstants
    <2> QED
      BY <1>1, <2>1, <2>4, <2>5, LockoutConstants
  <1>3. u = IF m.da.failedTries = 0 \/ count = 0 THEN m
            ELSE [m EXCEPT !.da.failedTries = tries, !.nvDa.failedTries = tries,
                           !.go.selfHealTimer = since]
    BY DEF HealTries
  <1>4. tries \in Nat /\ since \in Int /\ tries <= m.da.failedTries
           /\ m.da.failedTries - tries <= count
    BY <1>1, <1>2, MemoryFields, LockoutConstants
  <1> HIDE DEF elapsed, count, tries, since, u
  <1>5. CASE m.da.failedTries = 0 \/ count = 0
    <2>1. u = m
      BY <1>3, <1>5
    <2>2. m.da.failedTries = 0 \/ elapsed < RecoveryTime
      BY <1>2, <1>5
    <2> QED
      BY <2>1, <2>2 DEF HealedTo, elapsed, u
  <1>6. CASE ~ (m.da.failedTries = 0 \/ count = 0)
    <2>1. u = [m EXCEPT !.da.failedTries = tries, !.nvDa.failedTries = tries,
                        !.go.selfHealTimer = since]
      BY <1>3, <1>6
    <2>2. /\ [m.go EXCEPT !.selfHealTimer = since] \in Clocks
          /\ [m.da EXCEPT !.failedTries = tries] \in Counters
          /\ [m.nvDa EXCEPT !.failedTries = tries] \in Counters
      BY <1>4, MemoryFields DEF Clocks, Counters
    <2>3. /\ u.go = [m.go EXCEPT !.selfHealTimer = since]
          /\ u.da = [m.da EXCEPT !.failedTries = tries]
          /\ u.nvDa = [m.nvDa EXCEPT !.failedTries = tries]
          /\ u.time = m.time /\ u.pending = m.pending /\ u.nvGo = m.nvGo
      BY <2>1 DEF Memories
    <2>4. u \in Memories
      BY <2>1, <2>2 DEF Memories
    <2>5. /\ u.go.clock = m.go.clock /\ u.go.clockSafe = m.go.clockSafe /\ u.go.time = m.go.time
          /\ u.go.selfHealTimer = since
          /\ u.da.failedTries = tries /\ u.nvDa.failedTries = tries
      BY <2>3, MemoryFields DEF Clocks, Counters
    <2>6. NotedOrPending(m) => NotedOrPending(u)
      BY <2>3, <2>5 DEF NotedOrPending
    <2>7. m.da.failedTries # 0 /\ elapsed >= RecoveryTime
      BY <1>1, <1>2, <1>6, LockoutConstants
    <2> QED
      BY <1>4, <2>3, <2>4, <2>5, <2>6, <2>7 DEF HealedTo, elapsed, count, since, u
  <1> QED
    BY <1>5, <1>6 DEF u

LEMMA DASelfHealHeals ==
    ASSUME NEW m \in Memories
    PROVE  HealedTo(m, DASelfHeal(m))
  <1> DEFINE h == HealTries(m)
             u == HealLockoutAuth(h)
  <1>1. HealedTo(m, h)
    BY HealTriesHeals
  <1> HIDE DEF h
  <1>2. h \in Memories
    BY <1>1 DEF HealedTo
  <1>3. CASE u = h
    BY <1>1, <1>3 DEF DASelfHeal, h
  <1>4. CASE u # h
    <2>1. u = [h EXCEPT !.da.lockOutAuthEnabled = TRUE, !.nvDa.lockOutAuthEnabled = TRUE]
      BY <1>4 DEF HealLockoutAuth
    <2>2. /\ [h.da EXCEPT !.lockOutAuthEnabled = TRUE] \in Counters
          /\ [h.nvDa EXCEPT !.lockOutAuthEnabled = TRUE] \in Counters
      BY <1>2, MemoryFields DEF Counters
    <2>3. /\ u.da = [h.da EXCEPT !.lockOutAuthEnabled = TRUE]
          /\ u.nvDa = [h.nvDa EXCEPT !.lockOutAuthEnabled = TRUE]
          /\ u.time = h.time /\ u.pending = h.pending /\ u.nvGo = h.nvGo /\ u.go = h.go
      BY <1>2, <2>1 DEF Memories
    <2>4. u \in Memories
      BY <1>2, <2>1, <2>2 DEF Memories
    <2>5. u.da.failedTries = h.da.failedTries /\ u.nvDa.failedTries = h.nvDa.failedTries
      BY <1>2, <2>3, MemoryFields DEF Counters
    <2>6. NotedOrPending(h) => NotedOrPending(u)
      BY <2>3, <2>5 DEF NotedOrPending
    <2>7. u = DASelfHeal(m)
      BY DEF DASelfHeal, h
    <2>8. /\ u.go = h.go /\ u.nvGo = h.nvGo /\ u.time = h.time /\ u.pending = h.pending
      BY <2>3
    <2> HIDE DEF u
    <2>9. HealedTo(m, u)
      BY <1>1, <2>4, <2>5, <2>6, <2>8 DEF HealedTo
    <2> QED
      BY <2>7, <2>9
  <1> QED
    BY <1>3, <1>4

-----------------------------------------------------------------------------
(* What setting the clock and healing keep. *)

LEMMA ClockSetKeepsClock ==
    ASSUME NEW m \in Memories, NEW u, NEW newTime \in Nat, NEW r \in Nat, NEW p \in Nat,
           NEW o \in BOOLEAN, ClockSetTo(m, u, newTime), newTime >= m.go.clock,
           ClockFits(m, r, p, o)
    PROVE  ClockFits(u, r, p, o)
  <1> DEFINE old == m.go.clock \div UpdateInterval
             new == newTime \div UpdateInterval
             rep == r \div UpdateInterval
  <1>1. /\ u \in Memories /\ u.go.clock = newTime
        /\ m.go.clock \in Nat /\ m.nvGo.clock \in Nat
    BY MemoryFields DEF ClockSetTo
  <1>2. old \in Nat /\ new \in Nat /\ rep \in Nat /\ old <= new
    BY <1>1, Remainder, LaterInterval, LockoutConstants
  <1>3. r >= newTime => new <= rep
    BY LaterInterval, LockoutConstants
  <1>4. /\ old = m.nvGo.clock \div UpdateInterval
        /\ rep <= old
        /\ m.go.clockSafe => r <= m.go.clock
        /\ p <= m.go.clock
        /\ o /\ m.nvGo.clockSafe => r <= m.nvGo.clock
    BY DEF ClockFits
  <1>5. CASE new > old
    <2>1. u.nvGo = u.go
      BY <1>5 DEF ClockSetTo
    <2>2. rep < new
      BY <1>2, <1>4, <1>5
    <2>3. r <= newTime
      BY <1>2, <1>3, <2>2
    <2> QED
      BY <1>1, <1>2, <1>4, <2>1, <2>2, <2>3 DEF ClockFits
  <1>6. CASE ~ new > old
    <2>1. u.nvGo = m.nvGo /\ u.go.clockSafe = m.go.clockSafe
      BY <1>6 DEF ClockSetTo
    <2>2. new = old
      BY <1>2, <1>6
    <2> QED
      BY <1>1, <1>2, <1>4, <2>1, <2>2 DEF ClockFits
  <1> QED
    BY <1>5, <1>6

LEMMA HealedKeepsClock ==
    ASSUME NEW m \in Memories, NEW u, NEW r \in Nat, NEW p \in Nat, NEW o \in BOOLEAN,
           HealedTo(m, u), ClockFits(m, r, p, o)
    PROVE  ClockFits(u, r, p, o)
  <1>1. /\ u.go.clock = m.go.clock /\ u.go.clockSafe = m.go.clockSafe
        /\ u.nvGo = m.nvGo
    BY DEF HealedTo
  <1> QED
    BY <1>1 DEF ClockFits

LEMMA ClockSetKeepsTimers ==
    ASSUME NEW m \in Memories, NEW u, NEW newTime \in Nat, NEW t \in Nat, NEW a \in Nat,
           NEW w \in Nat, NEW o \in BOOLEAN, ClockSetTo(m, u, newTime), m.time <= t,
           TimersBounded(m, t, a, w, o)
    PROVE  /\ TimersBounded(u, t, a, w, o)
           /\ TimerHealed(m) => TimerHealed(u)
  <1>1. /\ u.go.selfHealTimer = m.go.selfHealTimer /\ u.go.time = m.go.time
        /\ u.time = m.time /\ u.da = m.da
        /\ u.nvGo = u.go \/ u.nvGo = m.nvGo
    BY DEF ClockSetTo
  <1>2. TimersBounded(u, t, a, w, o)
    BY <1>1, MemoryFields DEF TimersBounded
  <1> QED
    BY <1>1, <1>2 DEF TimerHealed

\* What DASelfHeal takes for the time since the timer was set.
LEMMA ElapsedTime ==
    ASSUME NEW m \in Memories, NEW a \in Nat, NEW w \in Nat,
           m.go.selfHealTimer <= w, m.time - m.go.selfHealTimer <= a,
           w <= MaxPowered, a <= MaxPowered + MaxRestarts * RecoveryTime
    PROVE  LET elapsed == Elapsed(m, m.go.selfHealTimer)
           IN  /\ elapsed \in Nat
               /\ elapsed \div RecoveryTime \in Nat
               /\ elapsed % RecoveryTime \in 0 .. (RecoveryTime - 1)
               /\ elapsed = RecoveryTime * (elapsed \div RecoveryTime) + (elapsed % RecoveryTime)
               /\ elapsed % RecoveryTime <= elapsed
               /\ m.go.selfHealTimer <= m.time => elapsed = m.time - m.go.selfHealTimer
               /\ m.go.selfHealTimer > m.time => elapsed >= RecoveryTime
  <1> DEFINE elapsed == Elapsed(m, m.go.selfHealTimer)
             x == m.time - m.go.selfHealTimer
  <1>1. /\ x \in Int /\ x < TimeRange
        /\ x + TimeRange >= RecoveryTime
    BY LockoutConstants, MemoryFields
  <1>2. elapsed = x % TimeRange
    BY DEF Elapsed
  <1> HIDE DEF elapsed
  <1>3. /\ elapsed \in Nat
        /\ 0 <= x => elapsed = x
        /\ x < 0 => elapsed = x + TimeRange
    <2> HIDE DEF x
    <2> QED
      BY <1>1, <1>2, Wrapped, LockoutConstants
  <1>4. /\ elapsed \div RecoveryTime \in Nat
        /\ elapsed % RecoveryTime \in 0 .. (RecoveryTime - 1)
        /\ elapsed = RecoveryTime * (elapsed \div RecoveryTime) + (elapsed % RecoveryTime)
    BY <1>3, Remainder, LockoutConstants
  <1>5. RecoveryTime * (elapsed \div RecoveryTime) \in Nat
    BY <1>4, ProductIsNat, LockoutConstants
  <1>6. elapsed % RecoveryTime <= elapsed
    BY <1>3, <1>4, <1>5, LockoutConstants
  <1>7. /\ m.go.selfHealTimer <= m.time => elapsed = m.time - m.go.selfHealTimer
        /\ m.go.selfHealTimer > m.time => elapsed >= RecoveryTime
    BY <1>1, <1>3, MemoryFields, LockoutConstants
  <1> QED
    BY <1>3, <1>4, <1>6, <1>7 DEF elapsed

LEMMA HealedKeepsTimers ==
    ASSUME NEW m \in Memories, NEW u, NEW t \in Nat, NEW a \in Nat, NEW w \in Nat,
           NEW o \in BOOLEAN, HealedTo(m, u), TimersBounded(m, t, a, w, o),
           m.time = t, t <= w, w <= MaxPowered, a <= MaxPowered + MaxRestarts * RecoveryTime,
           (m.da.failedTries # 0 => m.go.selfHealTimer <= t) \/ RecoveryTime - 1 <= a
    PROVE  TimersBounded(u, t, a, w, o) /\ TimerHealed(u)
  <1> DEFINE elapsed == Elapsed(m, m.go.selfHealTimer)
             rest == elapsed % RecoveryTime
  <1>1. /\ m.go.time = m.nvGo.time
        /\ m.go.selfHealTimer <= w /\ m.nvGo.selfHealTimer <= w
        /\ t - m.go.selfHealTimer <= a
        /\ o => m.go.time <= m.time /\ m.nvGo.time - m.nvGo.selfHealTimer <= a
    BY DEF TimersBounded
  <1>2. /\ elapsed \in Nat
        /\ rest \in 0 .. (RecoveryTime - 1) /\ rest <= elapsed
        /\ m.go.selfHealTimer <= m.time => elapsed = m.time - m.go.selfHealTimer
        /\ m.go.selfHealTimer > m.time => elapsed >= RecoveryTime
    BY <1>1, ElapsedTime
  <1>3. /\ u \in Memories /\ u.time = m.time /\ u.nvGo = m.nvGo /\ u.go.time = m.go.time
    BY DEF HealedTo
  <1>4. \/ /\ m.da.failedTries = 0 \/ elapsed < RecoveryTime
           /\ u.go.selfHealTimer = m.go.selfHealTimer
           /\ u.da.failedTries = m.da.failedTries
        \/ /\ m.da.failedTries # 0
           /\ u.go.selfHealTimer = m.time - rest
    BY DEF HealedTo
  <1> HIDE DEF elapsed, rest
  <1>5. CASE /\ m.da.failedTries = 0 \/ elapsed < RecoveryTime
             /\ u.go.selfHealTimer = m.go.selfHealTimer
             /\ u.da.failedTries = m.da.failedTries
    <2>1. TimersBounded(u, t, a, w, o)
      BY <1>1, <1>3, <1>5 DEF TimersBounded
    <2>2. TimerHealed(u)
      BY <1>2, <1>3, <1>5, MemoryFields, LockoutConstants DEF TimerHealed
    <2> QED
      BY <2>1, <2>2
  <1>6. CASE m.da.failedTries # 0 /\ u.go.selfHealTimer = m.time - rest
    <2>1. rest <= a
      BY <1>1, <1>2, <1>6, MemoryFields, LockoutConstants
    <2>2. /\ u.go.selfHealTimer <= t /\ t - u.go.selfHealTimer = rest
          /\ u.go.selfHealTimer \in Int
      BY <1>2, <1>6, MemoryFields, LockoutConstants
    <2>3. TimersBounded(u, t, a, w, o)
      BY <1>1, <1>3, <2>1, <2>2 DEF TimersBounded
    <2>4. TimerHealed(u)
      BY <1>2, <1>3, <2>2, LockoutConstants DEF TimerHealed
    <2> QED
      BY <2>3, <2>4
  <1> QED
    BY <1>4, <1>5, <1>6

LEMMA OwedFailures ==
    ASSUME NEW f \in Nat, NEW tries \in Nat
    PROVE  Owed(f, tries) \in Nat /\ Owed(f, tries) * RecoveryTime \in Nat
  <1>1. Owed(f, tries) \in Nat
    BY DEF Owed
  <1> QED
    BY <1>1, ProductIsNat, LockoutConstants

\* To heal k of them costs k times RecoveryTime.
LEMMA HealingCosts ==
    ASSUME NEW f \in Nat, NEW tries \in Nat, NEW left \in Nat, NEW k \in Nat,
           left <= tries, tries - left <= k
    PROVE  Owed(f, left) * RecoveryTime <= Owed(f, tries) * RecoveryTime + RecoveryTime * k
  <1> DEFINE before == Owed(f, tries)
             after == Owed(f, left)
  <1>1. before \in Nat /\ after \in Nat /\ before + k - after \in Nat
    BY DEF Owed
  <1> HIDE DEF before, after
  <1>2. /\ (before + k - after) * RecoveryTime \in Nat
        /\ before * RecoveryTime \in Nat
        /\ after * RecoveryTime \in Nat
        /\ RecoveryTime * k \in Nat
    BY <1>1, ProductIsNat, LockoutConstants
  <1>3. (before + k - after) * RecoveryTime
           = before * RecoveryTime + RecoveryTime * k - after * RecoveryTime
    BY <1>1, LockoutConstants, Z3
  <1> QED
    BY <1>2, <1>3 DEF before, after

LEMMA ClockSetKeepsPayment ==
    ASSUME NEW m \in Memories, NEW u, NEW newTime \in Nat, NEW t \in Nat, NEW a \in Nat,
           NEW f \in Nat, NEW o \in BOOLEAN, ClockSetTo(m, u, newTime),
           m.go.time = m.nvGo.time
    PROVE  /\ PaidFor(m, f, t, a) => PaidFor(u, f, t, a)
           /\ PaidAtShutdown(m, f, t, a) => PaidAtShutdown(u, f, t, a)
  <1>1. /\ u.go.selfHealTimer = m.go.selfHealTimer /\ u.go.time = m.go.time
        /\ u.time = m.time /\ u.da = m.da /\ u.nvDa = m.nvDa
        /\ u.nvGo = u.go \/ u.nvGo = m.nvGo
    BY DEF ClockSetTo
  <1>2. PaidFor(m, f, t, a) => PaidFor(u, f, t, a)
    BY <1>1 DEF PaidFor
  <1>3. ASSUME PaidAtShutdown(m, f, t, a)
        PROVE  PaidAtShutdown(u, f, t, a)
    <2>1. CASE u.nvGo = m.nvGo
      BY <1>1, <1>3, <2>1 DEF PaidAtShutdown
    <2>2. CASE u.nvGo = u.go
      <3>1. m.da.failedTries # 0 => m.nvGo.time - m.go.selfHealTimer < RecoveryTime
        BY <1>3, MemoryFields, LockoutConstants DEF PaidAtShutdown
      <3>2. /\ u.nvGo.selfHealTimer = u.go.selfHealTimer
            /\ u.nvGo.time = m.nvGo.time
            /\ u.nvGo.selfHealTimer = m.go.selfHealTimer
        BY <1>1, <2>2
      <3> QED
        BY <1>1, <3>1, <3>2 DEF PaidAtShutdown
    <2> QED
      BY <1>1, <2>1, <2>2
  <1> QED
    BY <1>2, <1>3

LEMMA HealedKeepsPayment ==
    ASSUME NEW m \in Memories, NEW u, NEW t \in Nat, NEW a \in Nat, NEW w \in Nat,
           NEW f \in Nat, HealedTo(m, u), PaidFor(m, f, t, a),
           m.time = t, t <= w, w <= MaxPowered, a <= MaxPowered + MaxRestarts * RecoveryTime
    PROVE  /\ PaidFor(u, f, t, a)
           /\ PaidAtShutdown(m, f, t, a) => PaidAtShutdown(u, f, t, a)
  <1> DEFINE elapsed == Elapsed(m, m.go.selfHealTimer)
             count == elapsed \div RecoveryTime
             rest == elapsed % RecoveryTime
             before == Owed(f, m.da.failedTries) * RecoveryTime
             after == Owed(f, u.da.failedTries) * RecoveryTime
             healed == RecoveryTime * count
  <1>1. /\ m.go.selfHealTimer <= m.time
        /\ before + (t - m.go.selfHealTimer) <= a
        /\ m.nvDa.failedTries # m.da.failedTries =>
               /\ m.nvDa.failedTries + 1 = m.da.failedTries
               /\ m.nvDa.failedTries < MaxTries
    BY DEF PaidFor
  <1>2. /\ u \in Memories /\ u.time = m.time /\ u.nvGo = m.nvGo
    BY DEF HealedTo
  <1>3. before \in Nat /\ after \in Nat
    BY <1>2, OwedFailures, MemoryFields
  <1>4. m.go.selfHealTimer <= w /\ m.time - m.go.selfHealTimer <= a
    BY <1>1, <1>3, MemoryFields
  <1>5. /\ elapsed \in Nat /\ count \in Nat /\ rest \in 0 .. (RecoveryTime - 1)
        /\ elapsed = healed + rest
        /\ elapsed = t - m.go.selfHealTimer
    BY <1>1, <1>4, ElapsedTime
  <1>6. \/ /\ u.go.selfHealTimer = m.go.selfHealTimer
           /\ u.da.failedTries = m.da.failedTries
           /\ u.nvDa.failedTries = m.nvDa.failedTries
        \/ /\ m.da.failedTries # 0 /\ elapsed >= RecoveryTime
           /\ u.go.selfHealTimer = m.time - rest
           /\ u.da.failedTries <= m.da.failedTries
           /\ m.da.failedTries - u.da.failedTries <= count
           /\ u.nvDa.failedTries = u.da.failedTries
    BY DEF HealedTo
  <1>7. CASE /\ u.go.selfHealTimer = m.go.selfHealTimer
             /\ u.da.failedTries = m.da.failedTries
             /\ u.nvDa.failedTries = m.nvDa.failedTries
    BY <1>1, <1>2, <1>7 DEF PaidFor, PaidAtShutdown
  <1>8. CASE /\ m.da.failedTries # 0 /\ elapsed >= RecoveryTime
             /\ u.go.selfHealTimer = m.time - rest
             /\ u.da.failedTries <= m.da.failedTries
             /\ m.da.failedTries - u.da.failedTries <= count
             /\ u.nvDa.failedTries = u.da.failedTries
    <2>1. after <= before + healed
      BY <1>2, <1>5, <1>8, HealingCosts, MemoryFields
    <2>2. healed \in Nat
      BY <1>5, ProductIsNat, LockoutConstants
    <2>3. healed >= RecoveryTime
      <3>1. count # 0
        <4>1. count = 0 => elapsed = rest
          <5> HIDE DEF elapsed, count, rest
          <5>1. RecoveryTime * 0 = 0
            BY LockoutConstants
          <5> QED
            BY <1>5, <5>1, LockoutConstants
        <4> HIDE DEF elapsed, count, rest
        <4> QED
          BY <1>5, <1>8, <4>1, LockoutConstants
      <3>2. RecoveryTime * (count - 1) \in Nat
        <4> HIDE DEF count
        <4> QED
          BY <1>5, <3>1, ProductIsNat, LockoutConstants
      <3>3. RecoveryTime * count = RecoveryTime * (count - 1) + RecoveryTime
        <4> HIDE DEF count
        <4> QED
          BY <1>5, LockoutConstants, Z3
      <3> HIDE DEF count
      <3> QED
        BY <3>2, <3>3, LockoutConstants
    <2> HIDE DEF elapsed, count, rest, before, after, healed
    <2>4. /\ u.go.selfHealTimer = m.go.selfHealTimer + healed
          /\ u.go.selfHealTimer <= t
      BY <1>5, <1>8, <2>2, MemoryFields, LockoutConstants
    <2>5. after + (t - u.go.selfHealTimer) <= before + (t - m.go.selfHealTimer)
      BY <1>3, <2>1, <2>2, <2>4, MemoryFields
    <2>6. PaidFor(u, f, t, a)
      <3>1. u.go.selfHealTimer <= u.time
        BY <1>2, <2>4
      <3>2. after + (t - u.go.selfHealTimer) <= a
        BY <1>1, <1>2, <1>3, <2>5, MemoryFields
      <3> QED
        BY <1>8, <3>1, <3>2 DEF PaidFor, after
    <2>7. ASSUME PaidAtShutdown(m, f, t, a)
          PROVE  PaidAtShutdown(u, f, t, a)
      <3>1. /\ u.go.selfHealTimer >= u.nvGo.time
            /\ after + (u.nvGo.time - u.nvGo.selfHealTimer) + (t - u.go.selfHealTimer)
                  <= a + RecoveryTime - 1
        <4>1. CASE /\ m.nvGo.selfHealTimer = m.go.selfHealTimer
                   /\ m.nvGo.time - m.nvGo.selfHealTimer < RecoveryTime
          BY <1>1, <1>2, <1>3, <2>1, <2>2, <2>3, <2>4, <2>5, <4>1, MemoryFields, LockoutConstants
        <4>2. CASE /\ m.go.selfHealTimer >= m.nvGo.time
                   /\ before + (m.nvGo.time - m.nvGo.selfHealTimer) + (t - m.go.selfHealTimer)
                          <= a + RecoveryTime - 1
          BY <1>1, <1>2, <1>3, <2>1, <2>2, <2>3, <2>4, <2>5, <4>2, MemoryFields, LockoutConstants
        <4> QED
          BY <1>8, <2>7, <4>1, <4>2 DEF PaidAtShutdown, before
      <3> QED
        BY <3>1 DEF PaidAtShutdown, after
    <2> QED
      BY <2>6, <2>7
  <1> HIDE DEF elapsed, count, rest
  <1> QED
    BY <1>6, <1>7, <1>8

-----------------------------------------------------------------------------
(* What the update of the time keeps, which starts a command. *)

LEMMA TimeUpdateFits ==
    ASSUME NEW m \in Memories, timer \in Nat, m.time <= timer, NEW r \in Nat, NEW p \in Nat,
           NEW a \in Nat, NEW w \in Nat, NEW o \in BOOLEAN,
           timer <= w, w <= MaxPowered, a <= MaxPowered + MaxRestarts * RecoveryTime,
           NEW b \in Nat, b <= MaxPowered + MaxRestarts * RecoveryTime,
           (m.da.failedTries # 0 => m.go.selfHealTimer <= timer) \/ RecoveryTime - 1 <= a,
           NotedOrPending(m), ClockFits(m, r, p, o), TimersBounded(m, timer, a, w, o)
    PROVE  LET u == TimeUpdate(m)
           IN  /\ u \in Memories /\ u.time = timer /\ u.pending = m.pending
               /\ NotedOrPending(u)
               /\ ClockFits(u, r, p, o)
               /\ TimersBounded(u, timer, a, w, o)
               /\ TimerHealed(u)
               /\ \A f \in Nat : PaidFor(m, f, timer, b) =>
                      /\ PaidFor(u, f, timer, b)
                      /\ PaidAtShutdown(m, f, timer, b) => PaidAtShutdown(u, f, timer, b)
  <1> DEFINE now == [m EXCEPT !.time = timer]
             newTime == m.go.clock + timer - m.time
             c == TimeClockUpdate(now, newTime)
             u == DASelfHeal(c)
  <1>1. /\ now \in Memories
        /\ now.time = timer /\ now.go = m.go /\ now.nvGo = m.nvGo
        /\ now.da = m.da /\ now.nvDa = m.nvDa /\ now.pending = m.pending
    BY DEF Memories
  <1>2. newTime \in Nat /\ newTime >= m.go.clock
    BY MemoryFields
  <1>3. u = TimeUpdate(m)
    BY DEF TimeUpdate
  <1> HIDE DEF now, newTime
  <1>4. ClockSetTo(now, c, newTime)
    BY <1>1, <1>2, TimeClockUpdateSets
  <1>5. /\ NotedOrPending(now)
        /\ ClockFits(now, r, p, o)
        /\ TimersBounded(now, timer, a, w, o)
    BY <1>1, MemoryFields DEF NotedOrPending, ClockFits, TimersBounded
  <1> HIDE DEF c
  <1>6. /\ c \in Memories /\ c.time = timer /\ c.pending = m.pending
        /\ c.da = m.da /\ c.go.selfHealTimer = m.go.selfHealTimer
        /\ NotedOrPending(c)
    BY <1>1, <1>4, <1>5 DEF ClockSetTo, NotedOrPending
  <1>7. ClockFits(c, r, p, o)
    BY <1>1, <1>2, <1>4, <1>5, ClockSetKeepsClock
  <1>8. TimersBounded(c, timer, a, w, o)
    BY <1>1, <1>2, <1>4, <1>5, ClockSetKeepsTimers
  <1>9. HealedTo(c, u)
    BY <1>6, DASelfHealHeals
  <1> HIDE DEF u
  <1>10. /\ u \in Memories /\ u.time = timer /\ u.pending = m.pending
         /\ NotedOrPending(u)
    BY <1>6, <1>9 DEF HealedTo
  <1>11. ClockFits(u, r, p, o)
    BY <1>6, <1>7, <1>9, HealedKeepsClock
  <1>12. TimersBounded(u, timer, a, w, o) /\ TimerHealed(u)
    BY <1>6, <1>8, <1>9, HealedKeepsTimers
  <1>13. ASSUME NEW f \in Nat, PaidFor(m, f, timer, b)
         PROVE  /\ PaidFor(u, f, timer, b)
                /\ PaidAtShutdown(m, f, timer, b) => PaidAtShutdown(u, f, timer, b)
    <2>1. PaidFor(now, f, timer, b)
      BY <1>1, <1>13, MemoryFields DEF PaidFor
    <2>2. PaidAtShutdown(m, f, timer, b) => PaidAtShutdown(now, f, timer, b)
      BY <1>1 DEF PaidAtShutdown
    <2>3. now.go.time = now.nvGo.time
      BY <1>5 DEF TimersBounded
    <2>4. /\ PaidFor(c, f, timer, b)
          /\ PaidAtShutdown(now, f, timer, b) => PaidAtShutdown(c, f, timer, b)
      BY <1>1, <1>2, <1>4, <2>1, <2>3, ClockSetKeepsPayment
    <2>5. /\ PaidFor(u, f, timer, b)
          /\ PaidAtShutdown(c, f, timer, b) => PaidAtShutdown(u, f, timer, b)
      BY <1>6, <1>9, <2>4, HealedKeepsPayment
    <2> QED
      BY <2>2, <2>4, <2>5
  <1> QED
    BY <1>3, <1>10, <1>11, <1>12, <1>13

LEMMA LockoutTypes ==
    ASSUME LockoutTypeOK
    PROVE  /\ started \in BOOLEAN /\ orderlyState \in {"NONE", "CLEAR", "STATE"}
           /\ nvAvailable \in BOOLEAN /\ Orderly \in BOOLEAN
           /\ timer \in Nat /\ time \in Nat /\ reported \in Nat /\ provisional \in Nat
           /\ failures \in Nat /\ powered \in Nat /\ restarts \in Nat /\ repeats \in Nat
           /\ time <= timer
           /\ go \in Clocks /\ nvGo \in Clocks /\ da \in Counters /\ nvDa \in Counters
           /\ pendingOnNV \in BOOLEAN /\ mixed \in BOOLEAN
           /\ Memory \in Memories
           /\ Memory.time = time /\ Memory.go = go /\ Memory.nvGo = nvGo
           /\ Memory.da = da /\ Memory.nvDa = nvDa /\ Memory.pending = pendingOnNV
  <1>1. started \in BOOLEAN /\ orderlyState \in {"NONE", "CLEAR", "STATE"} /\ nvAvailable \in BOOLEAN
    BY DEF LockoutTypeOK, PowerTypeOK, StartupArgument
  <1>2. Orderly \in BOOLEAN
    BY DEF Orderly
  <1>3. /\ timer \in Nat /\ time \in Nat /\ reported \in Nat /\ provisional \in Nat
        /\ failures \in Nat /\ powered \in Nat /\ restarts \in Nat /\ repeats \in Nat
        /\ time <= timer
    BY DEF LockoutTypeOK
  <1>4. go \in Clocks /\ nvGo \in Clocks /\ da \in Counters /\ nvDa \in Counters
    BY DEF LockoutTypeOK, Clocks, Counters
  <1>5. pendingOnNV \in BOOLEAN /\ mixed \in BOOLEAN
    BY Zenon DEF LockoutTypeOK
  <1>6. Memory \in Memories
    BY <1>3, <1>4, <1>5 DEF Memory, Memories
  <1>7. /\ Memory.time = time /\ Memory.go = go /\ Memory.nvGo = nvGo
        /\ Memory.da = da /\ Memory.nvDa = nvDa /\ Memory.pending = pendingOnNV
    BY DEF Memory
  <1> QED
    BY <1>1, <1>2, <1>3, <1>4, <1>5, <1>6, <1>7

LEMMA AllowanceBounds ==
    ASSUME NEW w \in Nat, NEW n \in Nat, w <= MaxPowered, n <= MaxRestarts
    PROVE  /\ w + n * (RecoveryTime - 1) \in Nat
           /\ w <= w + n * (RecoveryTime - 1)
           /\ w + n * (RecoveryTime - 1) <= MaxPowered + MaxRestarts * RecoveryTime
           /\ w + (n + 1) * (RecoveryTime - 1) = w + n * (RecoveryTime - 1) + RecoveryTime - 1
  <1>1. n * (RecoveryTime - 1) \in Nat
    BY LockoutConstants, ProductIsNat
  <1>2. (MaxRestarts - n) * (RecoveryTime - 1) \in Nat
    BY LockoutConstants, ProductIsNat
  <1>3. MaxRestarts * RecoveryTime
          = n * (RecoveryTime - 1) + (MaxRestarts - n) * (RecoveryTime - 1) + MaxRestarts
    BY LockoutConstants, Z3
  <1>4. (n + 1) * (RecoveryTime - 1) = n * (RecoveryTime - 1) + RecoveryTime - 1
    BY LockoutConstants, Z3
  <1> QED
    BY <1>1, <1>2, <1>3, <1>4, LockoutConstants

\* All that a command finds.
LEMMA CurrentFits ==
    ASSUME LockoutInv, started
    PROVE  /\ Current \in Memories /\ Current.time <= timer /\ Current.pending = pendingOnNV
           /\ nvAvailable => Current.time = timer
           /\ NotedOrPending(Current)
           /\ ClockFits(Current, reported, provisional, Orderly)
           /\ TimersBounded(Current, timer, Reach, powered, Orderly)
           /\ TimerHealed(Current)
           /\ PaidFor(Memory, failures, timer, Allowance) =>
                  /\ PaidFor(Current, failures, timer, Allowance)
                  /\ PaidAtShutdown(Memory, failures, timer, Allowance)
                         => PaidAtShutdown(Current, failures, timer, Allowance)
  <1>1. /\ LockoutTypeOK
        /\ timer <= powered /\ powered <= MaxPowered /\ restarts <= MaxRestarts
        /\ repeats <= restarts
        /\ NotedOrPending(Memory)
        /\ ClockFits(Memory, reported, provisional, Orderly)
        /\ TimersBounded(Memory, timer, Reach, powered, Orderly)
        /\ TimerHealed(Memory)
    BY DEF LockoutInv, UpInv, RepeatsFit
  <1>2. CASE ~ nvAvailable
    <2>1. Current = Memory
      BY <1>2 DEF Current, TimeUpdateToCurrent
    <2> QED
      BY <1>1, <1>2, <2>1, LockoutTypes
  <1>3. CASE nvAvailable
    <2>1. Current = TimeUpdate(Memory)
      BY <1>3 DEF Current, TimeUpdateToCurrent
    <2>2. /\ Allowance \in Nat /\ Allowance <= MaxPowered + MaxRestarts * RecoveryTime
          /\ Reach \in Nat /\ Reach <= MaxPowered + MaxRestarts * RecoveryTime
      BY <1>1, LockoutTypes, LockoutConstants, AllowanceBounds DEF Allowance, Reach
    <2>3. Memory.da.failedTries # 0 => Memory.go.selfHealTimer <= timer
      BY <1>1, LockoutTypes, MemoryFields DEF TimerHealed
    <2>4. /\ Memory \in Memories /\ timer \in Nat /\ Memory.time <= timer /\ reported \in Nat
          /\ provisional \in Nat /\ powered \in Nat /\ Orderly \in BOOLEAN /\ failures \in Nat
          /\ Memory.pending = pendingOnNV
      BY <1>1, LockoutTypes
    <2>5. LET u == TimeUpdate(Memory)
          IN  /\ u \in Memories /\ u.time = timer /\ u.pending = Memory.pending
              /\ NotedOrPending(u)
              /\ ClockFits(u, reported, provisional, Orderly)
              /\ TimersBounded(u, timer, Reach, powered, Orderly)
              /\ TimerHealed(u)
              /\ \A f \in Nat : PaidFor(Memory, f, timer, Allowance) =>
                     /\ PaidFor(u, f, timer, Allowance)
                     /\ PaidAtShutdown(Memory, f, timer, Allowance)
                            => PaidAtShutdown(u, f, timer, Allowance)
      BY <1>1, <2>2, <2>3, <2>4, TimeUpdateFits
    <2> QED
      BY <2>1, <2>4, <2>5
  <1> QED
    BY <1>2, <1>3, <1>1, LockoutTypes

\* A command leaves x behind.
LEMMA Remembered ==
    ASSUME LockoutInv, NEW x \in Memories, Remember(x), x.time <= timer,
           timer' = timer, powered' = powered, started' = TRUE,
           orderlyState' \in {"NONE", "CLEAR", "STATE"}, nvAvailable' \in BOOLEAN,
           reported' \in Nat, provisional' \in Nat, failures' \in Nat,
           restarts' \in Nat, restarts' <= MaxRestarts, repeats' \in Nat, repeats' <= restarts',
           mixed' \in BOOLEAN,
           NotedOrPending(x),
           ClockFits(x, reported', provisional', Orderly'),
           TimersBounded(x, timer, Reach', powered, Orderly'),
           TimerHealed(x)
    PROVE  /\ LockoutInv'
           /\ /\ ~ mixed' =>
                     /\ PaidFor(x, failures', timer, Allowance')
                     /\ Orderly' => PaidAtShutdown(x, failures', timer, Allowance')
              => PaymentInv'
  <1>1. /\ time' = x.time /\ go' = x.go /\ nvGo' = x.nvGo /\ da' = x.da /\ nvDa' = x.nvDa
        /\ pendingOnNV' = x.pending
    BY DEF Remember
  <1>2. Memory' = x
    BY <1>1 DEF Memory, Memories
  <1>3. LockoutTypeOK'
    <2>1. PowerTypeOK'
      BY Zenon DEF PowerTypeOK, StartupArgument
    <2>2. /\ {timer, time, reported, provisional, failures, powered, restarts, repeats}' \subseteq Nat
          /\ (time <= timer)'
      BY <1>1, MemoryFields, LockoutTypes DEF LockoutInv
    <2>3. ({go, nvGo} \subseteq [clock : Nat, clockSafe : BOOLEAN, selfHealTimer : Int,
                                 lockoutTimer : Int, time : Nat])'
      BY <1>1, MemoryFields DEF Clocks
    <2>4. ({da, nvDa} \subseteq [failedTries : Nat, lockOutAuthEnabled : BOOLEAN])'
      BY <1>1, MemoryFields DEF Counters
    <2>5. ({pendingOnNV, mixed} \subseteq BOOLEAN)'
      <3>1. x.pending \in BOOLEAN
        BY MemoryFields
      <3> QED
        BY <1>1, <3>1, Zenon
    <2>6. /\ pendingOnNV' \/ nvDa'.failedTries = da'.failedTries
          /\ LockoutRecovery = 0 \/ pendingOnNV' \/ nvDa' = da'
      BY <1>1 DEF NotedOrPending
    <2> QED
      BY <2>1, <2>2, <2>3, <2>4, <2>5, <2>6 DEF LockoutTypeOK
  <1>4. LockoutInv'
    <2>1. UpInv'
      BY <1>2 DEF UpInv
    <2>2. RepeatsFit'
      BY DEF RepeatsFit
    <2> QED
      BY <1>3, <2>1, <2>2 DEF LockoutInv
  <1>5. ASSUME ~ mixed' =>
                     /\ PaidFor(x, failures', timer, Allowance')
                     /\ Orderly' => PaidAtShutdown(x, failures', timer, Allowance')
        PROVE  PaymentInv'
    BY <1>2, <1>5 DEF PaymentInv
  <1> QED
    BY <1>4, <1>5

-----------------------------------------------------------------------------
(* The commands. *)

LEMMA LockoutUp ==
    ASSUME LockoutInv, started
    PROVE  /\ LockoutTypeOK
           /\ timer <= powered /\ powered <= MaxPowered /\ restarts <= MaxRestarts
           /\ repeats <= restarts
           /\ Allowance \in Nat /\ powered <= Allowance
           /\ Reach \in Nat /\ powered <= Reach
           /\ started = TRUE /\ orderlyState \in {"NONE", "CLEAR", "STATE"}
           /\ PaymentInv /\ ~ mixed =>
                  /\ PaidFor(Memory, failures, timer, Allowance)
                  /\ Orderly => PaidAtShutdown(Memory, failures, timer, Allowance)
  <1>1. /\ LockoutTypeOK
        /\ timer <= powered /\ powered <= MaxPowered /\ restarts <= MaxRestarts
        /\ repeats <= restarts
    BY DEF LockoutInv, RepeatsFit
  <1>2. /\ Allowance \in Nat /\ powered <= Allowance
        /\ Reach \in Nat /\ powered <= Reach
    BY <1>1, LockoutTypes, LockoutConstants, AllowanceBounds DEF Allowance, Reach
  <1>3. PaymentInv /\ ~ mixed =>
            /\ PaidFor(Memory, failures, timer, Allowance)
            /\ Orderly => PaidAtShutdown(Memory, failures, timer, Allowance)
    BY DEF PaymentInv
  <1>4. started = TRUE /\ orderlyState \in {"NONE", "CLEAR", "STATE"}
    BY <1>1, LockoutTypes
  <1> QED
    BY <1>1, <1>2, <1>3, <1>4

LEMMA ReadClockInv ==
    ASSUME LockoutInv, ReadClock
    PROVE  LockoutInv' /\ (PaymentInv => PaymentInv')
  <1> DEFINE c == Current
  <1>1. /\ started
        /\ Remember(c)
        /\ started' = started /\ orderlyState' = orderlyState /\ nvAvailable' = nvAvailable
        /\ timer' = timer /\ failures' = failures /\ powered' = powered /\ restarts' = restarts
        /\ repeats' = repeats
        /\ mixed' = mixed
        /\ IF Orderly THEN provisional' = c.go.clock /\ reported' = reported
                      ELSE reported' = Later(c.go.clock, reported) /\ provisional' = provisional
    BY DEF ReadClock, powerVars
  <1>2. /\ c \in Memories /\ c.time <= timer
        /\ NotedOrPending(c)
        /\ ClockFits(c, reported, provisional, Orderly)
        /\ TimersBounded(c, timer, Reach, powered, Orderly)
        /\ TimerHealed(c)
        /\ PaidFor(Memory, failures, timer, Allowance) =>
               /\ PaidFor(c, failures, timer, Allowance)
               /\ PaidAtShutdown(Memory, failures, timer, Allowance)
                      => PaidAtShutdown(c, failures, timer, Allowance)
    BY <1>1, CurrentFits
  <1> HIDE DEF c
  <1>3. Orderly' = Orderly /\ Allowance' = Allowance /\ Reach' = Reach
    BY <1>1 DEF Orderly, Allowance, Reach
  <1>4. /\ reported' \in Nat /\ provisional' \in Nat
        /\ ClockFits(c, reported', provisional', Orderly)
    <2>1. c.go.clock \in Nat /\ reported \in Nat /\ provisional \in Nat
      BY <1>1, <1>2, LockoutUp, LockoutTypes, MemoryFields
    <2>2. CASE Orderly
      BY <1>1, <1>2, <2>1, <2>2 DEF ClockFits
    <2>3. CASE ~ Orderly
      <3>1. reported' = c.go.clock \/ reported' = reported
        BY <1>1, <2>3 DEF Later
      <3>2. c.go.clock \div UpdateInterval \in Nat
        BY <2>1, Remainder, LockoutConstants
      <3> QED
        BY <1>1, <1>2, <2>1, <2>3, <3>1, <3>2 DEF ClockFits
    <2> QED
      BY <2>2, <2>3
  <1>5. PaymentInv /\ ~ mixed' =>
            /\ PaidFor(c, failures', timer, Allowance')
            /\ Orderly' => PaidAtShutdown(c, failures', timer, Allowance')
    BY <1>1, <1>2, <1>3, LockoutUp
  <1>6. /\ LockoutTypeOK /\ restarts <= MaxRestarts /\ repeats <= restarts /\ started = TRUE
    BY <1>1, LockoutUp
  <1> QED
    BY <1>1, <1>2, <1>3, <1>4, <1>5, <1>6, LockoutTypes, Remembered

LEMMA ClockSetInv ==
    ASSUME LockoutInv, NEW newTime \in Nat, ClockSet(newTime)
    PROVE  LockoutInv' /\ (PaymentInv => PaymentInv')
  <1> DEFINE c == Current
             x == TimeClockUpdate(c, newTime)
  <1>1. /\ started
        /\ newTime >= c.go.clock
        /\ Remember(x)
        /\ started' = started /\ orderlyState' = orderlyState /\ nvAvailable' = nvAvailable
        /\ timer' = timer /\ failures' = failures /\ powered' = powered /\ restarts' = restarts
        /\ repeats' = repeats
        /\ mixed' = mixed /\ provisional' = provisional /\ reported' = reported
    BY DEF ClockSet, powerVars, lockoutHistory
  <1>2. /\ c \in Memories /\ c.time <= timer
        /\ NotedOrPending(c)
        /\ ClockFits(c, reported, provisional, Orderly)
        /\ TimersBounded(c, timer, Reach, powered, Orderly)
        /\ TimerHealed(c)
        /\ PaidFor(Memory, failures, timer, Allowance) =>
               /\ PaidFor(c, failures, timer, Allowance)
               /\ PaidAtShutdown(Memory, failures, timer, Allowance)
                      => PaidAtShutdown(c, failures, timer, Allowance)
    BY <1>1, CurrentFits
  <1> HIDE DEF c
  <1>3. Orderly' = Orderly /\ Allowance' = Allowance /\ Reach' = Reach
    BY <1>1 DEF Orderly, Allowance, Reach
  <1>4. ClockSetTo(c, x, newTime)
    BY <1>2, TimeClockUpdateSets
  <1> HIDE DEF x
  <1>5. /\ LockoutTypeOK /\ restarts <= MaxRestarts /\ repeats <= restarts /\ started = TRUE
        /\ Allowance \in Nat /\ Reach \in Nat
        /\ reported \in Nat /\ provisional \in Nat /\ timer \in Nat /\ powered \in Nat
        /\ Orderly \in BOOLEAN /\ failures \in Nat
    BY <1>1, LockoutUp, LockoutTypes
  <1>6. /\ x \in Memories /\ x.time <= timer
        /\ NotedOrPending(x)
    BY <1>2, <1>4 DEF ClockSetTo, NotedOrPending
  <1>7. ClockFits(x, reported, provisional, Orderly)
    BY <1>1, <1>2, <1>4, <1>5, ClockSetKeepsClock
  <1>8. TimersBounded(x, timer, Reach, powered, Orderly) /\ TimerHealed(x)
    BY <1>2, <1>4, <1>5, ClockSetKeepsTimers
  <1>9. /\ PaidFor(c, failures, timer, Allowance)
               => PaidFor(x, failures, timer, Allowance)
        /\ PaidAtShutdown(c, failures, timer, Allowance)
               => PaidAtShutdown(x, failures, timer, Allowance)
    <2>1. c.go.time = c.nvGo.time
      BY <1>2 DEF TimersBounded
    <2> QED
      BY <1>2, <1>4, <1>5, <2>1, ClockSetKeepsPayment
  <1>10. PaymentInv /\ ~ mixed' =>
            /\ PaidFor(x, failures', timer, Allowance')
            /\ Orderly' => PaidAtShutdown(x, failures', timer, Allowance')
    BY <1>1, <1>2, <1>3, <1>9, LockoutUp
  <1> QED
    BY <1>1, <1>3, <1>5, <1>6, <1>7, <1>8, <1>10, LockoutTypes, Remembered

\* What CheckLockedOut and the commands after it find.
LEMMA PendingFits ==
    ASSUME LockoutInv, started
    PROVE  LET m == PendingWritten(Current)
           IN  /\ m \in Memories /\ m.time <= timer
               /\ NotedOrPending(m)
               /\ nvAvailable => LockoutRecovery = 0 \/ m.nvDa = m.da
               /\ ClockFits(m, reported, provisional, Orderly)
               /\ TimersBounded(m, timer, Reach, powered, Orderly)
               /\ TimerHealed(m)
               /\ PaidFor(Memory, failures, timer, Allowance) =>
                      /\ PaidFor(m, failures, timer, Allowance)
                      /\ PaidAtShutdown(Memory, failures, timer, Allowance)
                             => PaidAtShutdown(m, failures, timer, Allowance)
  <1> DEFINE c == Current
             m == PendingWritten(c)
  <1>2. /\ c \in Memories /\ c.time <= timer
        /\ NotedOrPending(c)
        /\ ClockFits(c, reported, provisional, Orderly)
        /\ TimersBounded(c, timer, Reach, powered, Orderly)
        /\ TimerHealed(c)
        /\ PaidFor(Memory, failures, timer, Allowance) =>
               /\ PaidFor(c, failures, timer, Allowance)
               /\ PaidAtShutdown(Memory, failures, timer, Allowance)
                      => PaidAtShutdown(c, failures, timer, Allowance)
    BY CurrentFits
  <1> HIDE DEF c
  <1>3. CASE c.pending /\ nvAvailable
    <2>1. m = [c EXCEPT !.nvDa = c.da, !.pending = FALSE]
      BY <1>3 DEF PendingWritten
    <2>2. /\ m.time = c.time /\ m.go = c.go /\ m.nvGo = c.nvGo /\ m.da = c.da
          /\ m.nvDa = c.da /\ m.pending = FALSE
      BY <1>2, <2>1 DEF Memories
    <2>3. m \in Memories
      BY <1>2, <2>1, MemoryFields DEF Memories
    <2> HIDE DEF m
    <2>4. /\ NotedOrPending(m)
          /\ ClockFits(m, reported, provisional, Orderly)
          /\ TimersBounded(m, timer, Reach, powered, Orderly)
          /\ TimerHealed(m)
      BY <1>2, <2>2 DEF NotedOrPending, ClockFits, TimersBounded, TimerHealed
    <2>5. /\ PaidFor(c, failures, timer, Allowance)
                 => PaidFor(m, failures, timer, Allowance)
          /\ PaidAtShutdown(c, failures, timer, Allowance)
                 => PaidAtShutdown(m, failures, timer, Allowance)
      BY <2>2 DEF PaidFor, PaidAtShutdown
    <2> QED
      BY <1>2, <2>2, <2>3, <2>4, <2>5 DEF c, m
  <1>4. CASE ~ (c.pending /\ nvAvailable)
    <2>1. m = c
      BY <1>4 DEF PendingWritten
    <2>2. nvAvailable => LockoutRecovery = 0 \/ m.nvDa = m.da
      BY <1>2, <1>4, <2>1 DEF NotedOrPending
    <2> QED
      BY <1>2, <2>1, <2>2 DEF c
  <1> QED
    BY <1>3, <1>4

\* What a failure that is counted makes of the memory m.
LEMMA CountFailureCounts ==
    ASSUME NEW m \in Memories, nvAvailable \in BOOLEAN
    PROVE  LET u == CountFailure(m)
           IN  /\ u \in Memories
               /\ u.time = m.time /\ u.nvGo = m.nvGo
               /\ u.go.clock = m.go.clock /\ u.go.clockSafe = m.go.clockSafe
               /\ u.go.time = m.go.time /\ u.go.selfHealTimer = m.time
               /\ u.da = [m.da EXCEPT !.failedTries = m.da.failedTries + 1]
               /\ u.da.failedTries = m.da.failedTries + 1
               /\ \/ /\ nvAvailable
                     /\ u.nvDa = [m.nvDa EXCEPT !.failedTries = m.da.failedTries + 1]
                     /\ u.nvDa.failedTries = m.da.failedTries + 1
                  \/ /\ ~ nvAvailable
                     /\ u.nvDa = m.nvDa /\ u.pending = TRUE
  <1> DEFINE u == CountFailure(m)
             clock == [m.go EXCEPT !.selfHealTimer = m.time]
             count == [m.da EXCEPT !.failedTries = m.da.failedTries + 1]
             nvCount == [m.nvDa EXCEPT !.failedTries = m.da.failedTries + 1]
             counted == [m EXCEPT !.da = count, !.go = clock]
  <1>1. /\ clock \in Clocks /\ count \in Counters /\ nvCount \in Counters
        /\ clock.clock = m.go.clock /\ clock.clockSafe = m.go.clockSafe
        /\ clock.time = m.go.time /\ clock.selfHealTimer = m.time
        /\ count.failedTries = m.da.failedTries + 1
        /\ nvCount.failedTries = m.da.failedTries + 1
    BY MemoryFields DEF Clocks, Counters
  <1>2. [m EXCEPT !.da.failedTries = @ + 1, !.go.selfHealTimer = m.time] = counted
    BY DEF Memories
  <1>3. /\ counted \in Memories /\ counted.da = count /\ counted.go = clock
        /\ counted.time = m.time /\ counted.nvGo = m.nvGo /\ counted.nvDa = m.nvDa
    <2> HIDE DEF clock, count
    <2> QED
      BY <1>1 DEF Memories
  <1>4. u = IF nvAvailable THEN [counted EXCEPT !.nvDa.failedTries = counted.da.failedTries]
            ELSE [counted EXCEPT !.pending = TRUE]
    BY <1>2 DEF CountFailure
  <1> HIDE DEF counted, u
  <1>5. CASE nvAvailable
    <2>1. u = [counted EXCEPT !.nvDa = nvCount]
      BY <1>1, <1>3, <1>4, <1>5 DEF Memories
    <2> HIDE DEF nvCount
    <2>2. /\ u \in Memories /\ u.nvDa = nvCount
          /\ u.time = counted.time /\ u.nvGo = counted.nvGo /\ u.go = counted.go
          /\ u.da = counted.da
      BY <1>1, <1>3, <2>1 DEF Memories
    <2> HIDE DEF clock, count
    <2> QED
      BY <1>1, <1>3, <1>5, <2>2 DEF u, count, nvCount
  <1>6. CASE ~ nvAvailable
    <2>1. u = [counted EXCEPT !.pending = TRUE]
      BY <1>4, <1>6
    <2>2. /\ u \in Memories /\ u.nvDa = counted.nvDa /\ u.pending = TRUE
          /\ u.time = counted.time /\ u.nvGo = counted.nvGo /\ u.go = counted.go
          /\ u.da = counted.da
      BY <1>3, <2>1 DEF Memories
    <2> HIDE DEF clock, count
    <2> QED
      BY <1>1, <1>3, <1>6, <2>2 DEF u, count
  <1> QED
    BY <1>5, <1>6

LEMMA CountFailureFits ==
    ASSUME NEW m \in Memories, nvAvailable \in BOOLEAN, NotedOrPending(m),
           nvAvailable => LockoutRecovery = 0 \/ m.nvDa = m.da,
           ~ LockedOut(m, FALSE),
           NEW r \in Nat, NEW p \in Nat, NEW t \in Nat, NEW a \in Nat, NEW w \in Nat, NEW b \in Nat,
           m.time <= t, t <= w, w <= a, Orderly \in BOOLEAN,
           ClockFits(m, r, p, Orderly), TimersBounded(m, t, a, w, Orderly)
    PROVE  LET u == CountFailure(m)
           IN  /\ u \in Memories /\ u.time <= t
               /\ NotedOrPending(u)
               /\ ClockFits(u, r, p, Orderly)
               /\ TimersBounded(u, t, a, w, Orderly)
               /\ TimerHealed(u)
               /\ \A f \in Nat : PaidFor(m, f, t, b) =>
                      /\ PaidFor(u, f + 1, t, b)
                      /\ Orderly /\ PaidAtShutdown(m, f, t, b) => PaidAtShutdown(u, f + 1, t, b)
  <1> DEFINE u == CountFailure(m)
  <1>1. /\ u \in Memories
        /\ u.time = m.time /\ u.nvGo = m.nvGo
        /\ u.go.clock = m.go.clock /\ u.go.clockSafe = m.go.clockSafe
        /\ u.go.time = m.go.time /\ u.go.selfHealTimer = m.time
        /\ u.da = [m.da EXCEPT !.failedTries = m.da.failedTries + 1]
        /\ u.da.failedTries = m.da.failedTries + 1
        /\ \/ /\ nvAvailable
              /\ u.nvDa = [m.nvDa EXCEPT !.failedTries = m.da.failedTries + 1]
              /\ u.nvDa.failedTries = m.da.failedTries + 1
           \/ /\ ~ nvAvailable
              /\ u.nvDa = m.nvDa /\ u.pending = TRUE
    BY CountFailureCounts
  <1> HIDE DEF u
  <1>2. NotedOrPending(u)
    BY <1>1 DEF NotedOrPending
  <1>3. ClockFits(u, r, p, Orderly)
    BY <1>1 DEF ClockFits
  <1>4. TimersBounded(u, t, a, w, Orderly)
    BY <1>1, MemoryFields DEF TimersBounded
  <1>5. TimerHealed(u)
    BY <1>1, MemoryFields, LockoutConstants DEF TimerHealed
  <1>6. ASSUME NEW f \in Nat, PaidFor(m, f, t, b)
        PROVE  /\ PaidFor(u, f + 1, t, b)
               /\ Orderly /\ PaidAtShutdown(m, f, t, b) => PaidAtShutdown(u, f + 1, t, b)
    <2> DEFINE owed == Owed(f, m.da.failedTries) * RecoveryTime
    <2>1. Owed(f + 1, u.da.failedTries) = Owed(f, m.da.failedTries)
      BY <1>1, MemoryFields DEF Owed
    <2>2. owed \in Nat
      BY OwedFailures, MemoryFields
    <2>3. /\ m.go.selfHealTimer <= m.time
          /\ owed + (t - m.go.selfHealTimer) <= b
      BY <1>6 DEF PaidFor
    <2>4. u.nvDa.failedTries # u.da.failedTries =>
              /\ u.nvDa.failedTries + 1 = u.da.failedTries
              /\ u.nvDa.failedTries < MaxTries
      BY <1>1, MemoryFields, LockoutConstants DEF LockedOut, NotedOrPending
    <2>5. owed + (t - u.go.selfHealTimer) <= b
      <3> HIDE DEF owed
      <3> QED
        BY <1>1, <2>2, <2>3, MemoryFields
    <2>6. PaidFor(u, f + 1, t, b)
      BY <1>1, <2>1, <2>4, <2>5, MemoryFields DEF PaidFor
    <2>7. ASSUME Orderly, PaidAtShutdown(m, f, t, b)
          PROVE  PaidAtShutdown(u, f + 1, t, b)
      <3>1. /\ m.go.time = m.nvGo.time
            /\ m.go.time <= m.time
        BY <2>7 DEF TimersBounded
      <3>2. owed + (u.nvGo.time - u.nvGo.selfHealTimer) + (t - u.go.selfHealTimer)
                <= b + RecoveryTime - 1
        <4>1. CASE m.nvGo.selfHealTimer = m.go.selfHealTimer
          <5> HIDE DEF owed
          <5> QED
            BY <1>1, <2>2, <2>3, <3>1, <4>1, MemoryFields, LockoutConstants
        <4>2. CASE owed + (m.nvGo.time - m.nvGo.selfHealTimer) + (t - m.go.selfHealTimer)
                      <= b + RecoveryTime - 1
          <5> HIDE DEF owed
          <5> QED
            BY <1>1, <2>2, <2>3, <3>1, <4>2, MemoryFields, LockoutConstants
        <4> QED
          BY <2>7, <4>1, <4>2 DEF PaidAtShutdown
      <3>3. u.go.selfHealTimer >= u.nvGo.time
        BY <1>1, <3>1, MemoryFields
      <3> QED
        BY <2>1, <3>2, <3>3 DEF PaidAtShutdown
    <2> QED
      BY <2>6, <2>7
  <1>7. u.time <= t
    BY <1>1
  <1> QED
    BY <1>1, <1>2, <1>3, <1>4, <1>5, <1>6, <1>7 DEF u

LEMMA AuthorizeInv ==
    ASSUME LockoutInv, NEW success \in BOOLEAN, Authorize(success)
    PROVE  LockoutInv' /\ (PaymentInv => PaymentInv')
  <1> DEFINE m == PendingWritten(Current)
  <1>1. /\ started
        /\ started' = started /\ orderlyState' = orderlyState /\ nvAvailable' = nvAvailable
        /\ timer' = timer /\ powered' = powered /\ restarts' = restarts /\ repeats' = repeats
        /\ mixed' = mixed /\ provisional' = provisional /\ reported' = reported
        /\ \/ Remember(m) /\ failures' = failures
           \/ /\ ~ LockedOut(m, FALSE)
              /\ Remember(CountFailure(m))
              /\ failures' = failures + 1
    BY DEF Authorize, powerVars
  <1>2. /\ m \in Memories /\ m.time <= timer
        /\ NotedOrPending(m)
        /\ nvAvailable => LockoutRecovery = 0 \/ m.nvDa = m.da
        /\ ClockFits(m, reported, provisional, Orderly)
        /\ TimersBounded(m, timer, Reach, powered, Orderly)
        /\ TimerHealed(m)
        /\ PaidFor(Memory, failures, timer, Allowance) =>
               /\ PaidFor(m, failures, timer, Allowance)
               /\ PaidAtShutdown(Memory, failures, timer, Allowance)
                      => PaidAtShutdown(m, failures, timer, Allowance)
    BY <1>1, PendingFits
  <1> HIDE DEF m
  <1>3. /\ LockoutTypeOK /\ restarts <= MaxRestarts /\ repeats <= restarts
        /\ started = TRUE /\ Allowance \in Nat
        /\ reported \in Nat /\ provisional \in Nat /\ timer \in Nat /\ powered \in Nat
        /\ timer <= powered /\ powered <= Allowance
        /\ Orderly \in BOOLEAN /\ failures \in Nat
        /\ orderlyState \in {"NONE", "CLEAR", "STATE"} /\ nvAvailable \in BOOLEAN
        /\ restarts \in Nat /\ repeats \in Nat
        /\ mixed \in BOOLEAN /\ Reach \in Nat /\ powered <= Reach
    BY <1>1, LockoutUp, LockoutTypes
  <1>4. Orderly' = Orderly /\ Allowance' = Allowance /\ Reach' = Reach
    BY <1>1 DEF Orderly, Allowance, Reach
  <1>5. CASE Remember(m) /\ failures' = failures
    <2>1. PaymentInv /\ ~ mixed' =>
              /\ PaidFor(m, failures', timer, Allowance')
              /\ Orderly' => PaidAtShutdown(m, failures', timer, Allowance')
      BY <1>1, <1>2, <1>4, <1>5, LockoutUp
    <2> QED
      BY <1>1, <1>2, <1>3, <1>4, <1>5, <2>1, Remembered
  <1>6. CASE ~ LockedOut(m, FALSE) /\ Remember(CountFailure(m)) /\ failures' = failures + 1
    <2> DEFINE u == CountFailure(m)
    <2>1. /\ u \in Memories /\ u.time <= timer
          /\ NotedOrPending(u)
          /\ ClockFits(u, reported, provisional, Orderly)
          /\ TimersBounded(u, timer, Reach, powered, Orderly)
          /\ TimerHealed(u)
          /\ \A f \in Nat : PaidFor(m, f, timer, Allowance) =>
                 /\ PaidFor(u, f + 1, timer, Allowance)
                 /\ Orderly /\ PaidAtShutdown(m, f, timer, Allowance)
                        => PaidAtShutdown(u, f + 1, timer, Allowance)
      BY <1>2, <1>3, <1>6, CountFailureFits
    <2> HIDE DEF u
    <2>2. PaymentInv /\ ~ mixed' =>
              /\ PaidFor(u, failures', timer, Allowance')
              /\ Orderly' => PaidAtShutdown(u, failures', timer, Allowance')
      BY <1>1, <1>2, <1>3, <1>4, <1>6, <2>1, LockoutUp
    <2>3. failures' \in Nat /\ Remember(u)
      BY <1>3, <1>6 DEF u
    <2> QED
      BY <1>1, <1>3, <1>4, <2>1, <2>2, <2>3, Remembered
  <1> QED
    BY <1>1, <1>5, <1>6

LEMMA AuthorizeLockoutInv ==
    ASSUME LockoutInv, AuthorizeLockout
    PROVE  LockoutInv' /\ (PaymentInv => PaymentInv')
  <1> DEFINE m == PendingWritten(Current)
  <1>1. /\ started
        /\ started' = started /\ orderlyState' = orderlyState /\ nvAvailable' = nvAvailable
        /\ timer' = timer /\ powered' = powered /\ restarts' = restarts
        /\ repeats' = repeats /\ failures' = failures
        /\ mixed' = mixed /\ provisional' = provisional /\ reported' = reported
        /\ Remember(m) \/ Remember(DisableLockoutAuth(m))
    BY DEF AuthorizeLockout, powerVars, lockoutHistory
  <1>2. /\ m \in Memories /\ m.time <= timer
        /\ NotedOrPending(m)
        /\ nvAvailable => LockoutRecovery = 0 \/ m.nvDa = m.da
        /\ ClockFits(m, reported, provisional, Orderly)
        /\ TimersBounded(m, timer, Reach, powered, Orderly)
        /\ TimerHealed(m)
        /\ PaidFor(Memory, failures, timer, Allowance) =>
               /\ PaidFor(m, failures, timer, Allowance)
               /\ PaidAtShutdown(Memory, failures, timer, Allowance)
                      => PaidAtShutdown(m, failures, timer, Allowance)
    BY <1>1, PendingFits
  <1> HIDE DEF m
  <1>3. /\ LockoutTypeOK /\ restarts <= MaxRestarts /\ repeats <= restarts
        /\ started = TRUE /\ Allowance \in Nat
        /\ reported \in Nat /\ provisional \in Nat /\ timer \in Nat /\ powered \in Nat
        /\ timer <= powered /\ powered <= Allowance
        /\ Orderly \in BOOLEAN /\ failures \in Nat
        /\ orderlyState \in {"NONE", "CLEAR", "STATE"} /\ nvAvailable \in BOOLEAN
        /\ restarts \in Nat /\ repeats \in Nat
        /\ mixed \in BOOLEAN /\ Reach \in Nat /\ powered <= Reach
    BY <1>1, LockoutUp, LockoutTypes
  <1>4. Orderly' = Orderly /\ Allowance' = Allowance /\ Reach' = Reach
    BY <1>1 DEF Orderly, Allowance, Reach
  <1>5. CASE Remember(m)
    <2>1. PaymentInv /\ ~ mixed' =>
              /\ PaidFor(m, failures', timer, Allowance')
              /\ Orderly' => PaidAtShutdown(m, failures', timer, Allowance')
      BY <1>1, <1>2, <1>4, <1>5, LockoutUp
    <2> QED
      BY <1>1, <1>2, <1>3, <1>4, <1>5, <2>1, Remembered
  <1>6. CASE Remember(DisableLockoutAuth(m))
    <2> DEFINE u == DisableLockoutAuth(m)
               clock == [m.go EXCEPT !.lockoutTimer = m.time]
               count == [m.da EXCEPT !.lockOutAuthEnabled = FALSE]
               nvCount == [m.nvDa EXCEPT !.lockOutAuthEnabled = FALSE]
               disabled == [m EXCEPT !.da = count, !.go = clock]
    <2>1. /\ clock \in Clocks /\ count \in Counters /\ nvCount \in Counters
          /\ clock.clock = m.go.clock /\ clock.clockSafe = m.go.clockSafe
          /\ clock.time = m.go.time /\ clock.selfHealTimer = m.go.selfHealTimer
          /\ count.failedTries = m.da.failedTries
          /\ nvCount.failedTries = m.nvDa.failedTries
      <3>1. /\ clock \in Clocks /\ clock.clock = m.go.clock /\ clock.clockSafe = m.go.clockSafe
            /\ clock.time = m.go.time /\ clock.selfHealTimer = m.go.selfHealTimer
        BY <1>2, MemoryFields DEF Clocks
      <3>2. /\ count \in Counters /\ nvCount \in Counters
        BY <1>2, MemoryFields DEF Counters
      <3>3. count.failedTries = m.da.failedTries /\ nvCount.failedTries = m.nvDa.failedTries
        BY <1>2, MemoryFields DEF Counters
      <3> HIDE DEF clock, count, nvCount
      <3> QED
        BY <3>1, <3>2, <3>3
    <2>1a. m.nvDa = m.da => nvCount = count
      BY Zenon
    <2>2. [m EXCEPT !.da.lockOutAuthEnabled = FALSE, !.go.lockoutTimer = m.time] = disabled
      BY <1>2 DEF Memories
    <2>3. /\ disabled \in Memories /\ disabled.da = count /\ disabled.go = clock
          /\ disabled.time = m.time /\ disabled.nvGo = m.nvGo /\ disabled.nvDa = m.nvDa
          /\ disabled.pending = m.pending
      <3> HIDE DEF clock, count
      <3> QED
        BY <1>2, <2>1 DEF Memories
    <2>4. u = IF LockoutRecovery = 0 THEN disabled
              ELSE IF nvAvailable THEN [disabled EXCEPT !.nvDa.lockOutAuthEnabled = FALSE]
              ELSE [disabled EXCEPT !.pending = TRUE]
      BY <2>2 DEF DisableLockoutAuth
    <2>5. [disabled EXCEPT !.nvDa.lockOutAuthEnabled = FALSE] = [disabled EXCEPT !.nvDa = nvCount]
      BY <1>2, <2>3 DEF Memories
    <2> HIDE DEF clock, count, nvCount, disabled, u
    <2>6. /\ u \in Memories
          /\ u.time = m.time /\ u.nvGo = m.nvGo /\ u.go = clock /\ u.da = count
          /\ \/ u.nvDa = m.nvDa /\ LockoutRecovery = 0 /\ u.pending = m.pending
             \/ u.nvDa = nvCount /\ LockoutRecovery # 0 /\ nvAvailable /\ u.pending = m.pending
             \/ u.nvDa = m.nvDa /\ u.pending = TRUE
      BY <2>1, <2>3, <2>4, <2>5 DEF Memories
    <2>7. u.nvDa.failedTries = m.nvDa.failedTries /\ u.da.failedTries = m.da.failedTries
      BY <2>1, <2>6
    <2>8. NotedOrPending(u)
      BY <1>2, <2>1a, <2>6, <2>7 DEF NotedOrPending
    <2>9. /\ ClockFits(u, reported, provisional, Orderly)
          /\ TimersBounded(u, timer, Reach, powered, Orderly)
          /\ TimerHealed(u)
      <3>1. /\ u.time = m.time /\ u.nvGo = m.nvGo
            /\ u.go.clock = m.go.clock /\ u.go.clockSafe = m.go.clockSafe
            /\ u.go.time = m.go.time /\ u.go.selfHealTimer = m.go.selfHealTimer
            /\ u.da.failedTries = m.da.failedTries
        BY <2>1, <2>6, <2>7
      <3> QED
        BY <1>2, <3>1 DEF ClockFits, TimersBounded, TimerHealed
    <2>10. PaymentInv /\ ~ mixed' =>
              /\ PaidFor(u, failures', timer, Allowance')
              /\ Orderly' => PaidAtShutdown(u, failures', timer, Allowance')
      <3>1. /\ PaidFor(m, failures, timer, Allowance)
                   => PaidFor(u, failures, timer, Allowance)
            /\ PaidAtShutdown(m, failures, timer, Allowance)
                   => PaidAtShutdown(u, failures, timer, Allowance)
        BY <2>1, <2>6, <2>7 DEF PaidFor, PaidAtShutdown
      <3> QED
        BY <1>1, <1>2, <1>4, <3>1, LockoutUp
    <2>11. u.time <= timer /\ Remember(u)
      BY <1>2, <1>6, <2>6 DEF u
    <2> QED
      BY <1>1, <1>3, <1>4, <2>6, <2>8, <2>9, <2>10, <2>11, Remembered
  <1> QED
    BY <1>1, <1>5, <1>6

LEMMA LockResetInv ==
    ASSUME LockoutInv, LockReset
    PROVE  LockoutInv' /\ (PaymentInv => PaymentInv')
  <1> DEFINE m == PendingWritten(Current)
             u == [m EXCEPT !.da.failedTries = 0, !.nvDa.failedTries = 0]
  <1>1. /\ started /\ nvAvailable
        /\ started' = started /\ orderlyState' = orderlyState /\ nvAvailable' = nvAvailable
        /\ timer' = timer /\ powered' = powered /\ restarts' = restarts /\ repeats' = repeats
        /\ mixed' = mixed /\ provisional' = provisional /\ reported' = reported
        /\ Remember(u)
        /\ failures' = Owed(failures, m.da.failedTries)
    BY DEF LockReset, powerVars, Forgive, Owed, Less
  <1>2. /\ m \in Memories /\ m.time <= timer
        /\ NotedOrPending(m)
        /\ nvAvailable => LockoutRecovery = 0 \/ m.nvDa = m.da
        /\ ClockFits(m, reported, provisional, Orderly)
        /\ TimersBounded(m, timer, Reach, powered, Orderly)
        /\ TimerHealed(m)
        /\ PaidFor(Memory, failures, timer, Allowance) =>
               /\ PaidFor(m, failures, timer, Allowance)
               /\ PaidAtShutdown(Memory, failures, timer, Allowance)
                      => PaidAtShutdown(m, failures, timer, Allowance)
    BY <1>1, PendingFits
  <1> HIDE DEF m
  <1>3. /\ LockoutTypeOK /\ restarts <= MaxRestarts /\ repeats <= restarts
        /\ started = TRUE /\ Allowance \in Nat
        /\ reported \in Nat /\ provisional \in Nat /\ timer \in Nat /\ powered \in Nat
        /\ timer <= powered /\ powered <= Allowance
        /\ Orderly \in BOOLEAN /\ failures \in Nat
        /\ orderlyState \in {"NONE", "CLEAR", "STATE"} /\ nvAvailable \in BOOLEAN
        /\ restarts \in Nat /\ repeats \in Nat
        /\ mixed \in BOOLEAN /\ Reach \in Nat /\ powered <= Reach
    BY <1>1, LockoutUp, LockoutTypes
  <1>4. Orderly' = Orderly /\ Allowance' = Allowance /\ Reach' = Reach
    BY <1>1 DEF Orderly, Allowance, Reach
  <1> DEFINE count == [m.da EXCEPT !.failedTries = 0]
             nvCount == [m.nvDa EXCEPT !.failedTries = 0]
  <1>5. /\ count \in Counters /\ nvCount \in Counters
        /\ count.failedTries = 0 /\ nvCount.failedTries = 0
        /\ m.nvDa = m.da => nvCount = count
    BY <1>2, MemoryFields DEF Counters
  <1>6. u = [m EXCEPT !.da = count, !.nvDa = nvCount]
    BY <1>2 DEF Memories
  <1> HIDE DEF count, nvCount, u
  <1>7. /\ u \in Memories /\ u.da = count /\ u.nvDa = nvCount
        /\ u.time = m.time /\ u.go = m.go /\ u.nvGo = m.nvGo /\ u.pending = m.pending
    BY <1>2, <1>5, <1>6 DEF Memories
  <1>8. NotedOrPending(u)
    BY <1>1, <1>2, <1>5, <1>7 DEF NotedOrPending
  <1>9. /\ ClockFits(u, reported, provisional, Orderly)
        /\ TimersBounded(u, timer, Reach, powered, Orderly)
        /\ TimerHealed(u)
    <2>1. /\ u.go.clock = m.go.clock /\ u.go.clockSafe = m.go.clockSafe
          /\ u.go.time = m.go.time /\ u.go.selfHealTimer = m.go.selfHealTimer
          /\ u.da.failedTries = 0
      BY <1>5, <1>7
    <2> QED
      BY <1>2, <1>7, <2>1 DEF ClockFits, TimersBounded, TimerHealed
  <1>10. failures' \in Nat /\ Owed(failures', u.da.failedTries) = Owed(failures, m.da.failedTries)
    BY <1>1, <1>2, <1>3, <1>5, <1>7, MemoryFields DEF Owed
  <1>11. PaymentInv /\ ~ mixed' =>
            /\ PaidFor(u, failures', timer, Allowance')
            /\ Orderly' => PaidAtShutdown(u, failures', timer, Allowance')
    <2>1. PaidFor(m, failures, timer, Allowance)
                 => PaidFor(u, failures', timer, Allowance)
      BY <1>5, <1>7, <1>10 DEF PaidFor
    <2>2. PaidAtShutdown(m, failures, timer, Allowance)
                 => PaidAtShutdown(u, failures', timer, Allowance)
      BY <1>5, <1>7, <1>10 DEF PaidAtShutdown
    <2> QED
      BY <1>1, <1>2, <1>4, <2>1, <2>2, LockoutUp
  <1>12. u.time <= timer
    BY <1>2, <1>7
  <1> QED
    BY <1>1, <1>3, <1>4, <1>7, <1>8, <1>9, <1>10, <1>11, <1>12, Remembered

LEMMA ClearInv ==
    ASSUME LockoutInv, Clear
    PROVE  LockoutInv' /\ (PaymentInv => PaymentInv')
  <1> DEFINE c == Current
             new == [c.go EXCEPT !.clock = 0, !.clockSafe = TRUE]
             u == [c EXCEPT !.go = new, !.nvGo = new, !.da = NoFailures, !.nvDa = NoFailures]
  <1>1. /\ started
        /\ started' = started /\ orderlyState' = "NONE" /\ nvAvailable' = nvAvailable
        /\ timer' = timer /\ powered' = powered /\ restarts' = restarts /\ repeats' = repeats
        /\ mixed' = mixed /\ provisional' = 0 /\ reported' = 0
        /\ Remember(u)
        /\ failures' = Owed(failures, c.da.failedTries)
    BY DEF Clear, NvClearOrderly, Forgive, Owed, Less
  <1>2. /\ c \in Memories /\ c.time <= timer
        /\ NotedOrPending(c)
        /\ c.pending = pendingOnNV /\ (nvAvailable => c.time = timer)
        /\ ClockFits(c, reported, provisional, Orderly)
        /\ TimersBounded(c, timer, Reach, powered, Orderly)
        /\ TimerHealed(c)
        /\ PaidFor(Memory, failures, timer, Allowance) =>
               /\ PaidFor(c, failures, timer, Allowance)
               /\ PaidAtShutdown(Memory, failures, timer, Allowance)
                      => PaidAtShutdown(c, failures, timer, Allowance)
    BY <1>1, CurrentFits
  <1> HIDE DEF c
  <1>3. /\ LockoutTypeOK /\ restarts <= MaxRestarts /\ repeats <= restarts
        /\ started = TRUE /\ Allowance \in Nat
        /\ reported \in Nat /\ provisional \in Nat /\ timer \in Nat /\ powered \in Nat
        /\ timer <= powered /\ powered <= Allowance
        /\ Orderly \in BOOLEAN /\ failures \in Nat
        /\ orderlyState \in {"NONE", "CLEAR", "STATE"} /\ nvAvailable \in BOOLEAN
        /\ restarts \in Nat /\ repeats \in Nat
        /\ mixed \in BOOLEAN /\ Reach \in Nat /\ powered <= Reach
    BY <1>1, LockoutUp, LockoutTypes
  <1>4. ~ Orderly' /\ Allowance' = Allowance /\ Reach' = Reach
    BY <1>1 DEF Orderly, Allowance, Reach
  <1>5. /\ new \in Clocks /\ NoFailures \in Counters
        /\ new.clock = 0 /\ new.clockSafe = TRUE
        /\ new.selfHealTimer = c.go.selfHealTimer /\ new.time = c.go.time
        /\ NoFailures.failedTries = 0
    BY <1>2, MemoryFields DEF Clocks, Counters, NoFailures
  <1> HIDE DEF new
  <1>6. /\ u \in Memories /\ u.da = NoFailures /\ u.nvDa = NoFailures
        /\ u.time = c.time /\ u.go = new /\ u.nvGo = new /\ u.pending = c.pending
    BY <1>2, <1>5 DEF Memories
  <1> HIDE DEF u
  <1>7. NotedOrPending(u)
    BY <1>6 DEF NotedOrPending
  <1>8. ClockFits(u, 0, 0, FALSE)
    <2>1. 0 \div UpdateInterval \in Nat
      BY Remainder, LockoutConstants
    <2> QED
      BY <1>5, <1>6, <2>1 DEF ClockFits
  <1>9. TimersBounded(u, timer, Reach, powered, FALSE) /\ TimerHealed(u)
    BY <1>2, <1>5, <1>6 DEF TimersBounded, TimerHealed
  <1>10. failures' \in Nat /\ Owed(failures', u.da.failedTries) = Owed(failures, c.da.failedTries)
    BY <1>1, <1>2, <1>3, <1>5, <1>6, MemoryFields DEF Owed
  <1>11. PaymentInv /\ ~ mixed' =>
            PaidFor(u, failures', timer, Allowance')
    <2>1. PaidFor(c, failures, timer, Allowance)
                 => PaidFor(u, failures', timer, Allowance)
      BY <1>5, <1>6, <1>10 DEF PaidFor
    <2> QED
      BY <1>1, <1>2, <1>4, <2>1, LockoutUp
  <1>12. u.time <= timer /\ Orderly' = FALSE
    BY <1>1, <1>2, <1>6 DEF Orderly
  <1> QED
    BY <1>1, <1>3, <1>4, <1>6, <1>7, <1>8, <1>9, <1>10, <1>11, <1>12, Remembered

LEMMA ClockedCommandInv ==
    ASSUME LockoutInv, ClockedCommand
    PROVE  LockoutInv' /\ (PaymentInv => PaymentInv')
  <1> DEFINE c == Current
  <1>1. /\ started
        /\ started' = started /\ orderlyState' = "NONE" /\ nvAvailable' = nvAvailable
        /\ timer' = timer /\ powered' = powered /\ restarts' = restarts
        /\ repeats' = repeats /\ failures' = failures
        /\ mixed' = mixed /\ provisional' = 0 /\ reported' = Later(provisional, reported)
        /\ Remember(c)
    BY DEF ClockedCommand, NvClearOrderly
  <1>2. /\ c \in Memories /\ c.time <= timer
        /\ NotedOrPending(c)
        /\ c.pending = pendingOnNV /\ (nvAvailable => c.time = timer)
        /\ ClockFits(c, reported, provisional, Orderly)
        /\ TimersBounded(c, timer, Reach, powered, Orderly)
        /\ TimerHealed(c)
        /\ PaidFor(Memory, failures, timer, Allowance) =>
               /\ PaidFor(c, failures, timer, Allowance)
               /\ PaidAtShutdown(Memory, failures, timer, Allowance)
                      => PaidAtShutdown(c, failures, timer, Allowance)
    BY <1>1, CurrentFits
  <1> HIDE DEF c
  <1>3. /\ LockoutTypeOK /\ restarts <= MaxRestarts /\ repeats <= restarts
        /\ started = TRUE /\ Allowance \in Nat
        /\ reported \in Nat /\ provisional \in Nat /\ timer \in Nat /\ powered \in Nat
        /\ timer <= powered /\ powered <= Allowance
        /\ Orderly \in BOOLEAN /\ failures \in Nat
        /\ orderlyState \in {"NONE", "CLEAR", "STATE"} /\ nvAvailable \in BOOLEAN
        /\ restarts \in Nat /\ repeats \in Nat
        /\ mixed \in BOOLEAN /\ Reach \in Nat /\ powered <= Reach
    BY <1>1, LockoutUp, LockoutTypes
  <1>4. Orderly' = FALSE /\ Allowance' = Allowance /\ Reach' = Reach
    BY <1>1 DEF Orderly, Allowance, Reach
  <1>5. reported' \in Nat /\ (reported' = provisional \/ reported' = reported)
    BY <1>1, <1>3 DEF Later
  <1>6. ClockFits(c, reported', 0, FALSE)
    <2>1. c.go.clock \in Nat
      BY <1>2, MemoryFields
    <2>2. provisional \div UpdateInterval <= c.go.clock \div UpdateInterval
      <3>1. provisional <= c.go.clock
        BY <1>2 DEF ClockFits
      <3> QED
        BY <1>3, <2>1, <3>1, LaterInterval, LockoutConstants
    <2> QED
      BY <1>2, <1>3, <1>5, <2>1, <2>2 DEF ClockFits
  <1>7. TimersBounded(c, timer, Reach, powered, FALSE)
    BY <1>2 DEF TimersBounded
  <1>8. PaymentInv /\ ~ mixed' =>
            PaidFor(c, failures', timer, Allowance')
    BY <1>1, <1>2, <1>4, LockoutUp
  <1> QED
    BY <1>1, <1>2, <1>3, <1>4, <1>5, <1>6, <1>7, <1>8, Remembered

LEMMA LockoutShutdownInv ==
    ASSUME LockoutInv, NEW type \in StartupArgument, LockoutShutdown(type)
    PROVE  LockoutInv' /\ (PaymentInv => PaymentInv')
  <1> DEFINE c == Current
             saved == [c.go EXCEPT !.time = c.time]
             u == [c EXCEPT !.go = saved, !.nvGo = saved]
  <1>1. /\ started /\ nvAvailable
        /\ started' = started /\ orderlyState' = type /\ nvAvailable' = nvAvailable
        /\ timer' = timer /\ powered' = powered /\ restarts' = restarts
        /\ repeats' = repeats /\ failures' = failures
        /\ mixed' = mixed /\ provisional' = provisional /\ reported' = reported
        /\ Remember(u)
    BY DEF LockoutShutdown, PowerShutdown, lockoutHistory
  <1>2. /\ c \in Memories /\ c.time <= timer
        /\ NotedOrPending(c)
        /\ c.pending = pendingOnNV /\ (nvAvailable => c.time = timer)
        /\ ClockFits(c, reported, provisional, Orderly)
        /\ TimersBounded(c, timer, Reach, powered, Orderly)
        /\ TimerHealed(c)
        /\ PaidFor(Memory, failures, timer, Allowance) =>
               /\ PaidFor(c, failures, timer, Allowance)
               /\ PaidAtShutdown(Memory, failures, timer, Allowance)
                      => PaidAtShutdown(c, failures, timer, Allowance)
    BY <1>1, CurrentFits
  <1> HIDE DEF c
  <1>3. /\ LockoutTypeOK /\ restarts <= MaxRestarts /\ repeats <= restarts
        /\ started = TRUE /\ Allowance \in Nat
        /\ reported \in Nat /\ provisional \in Nat /\ timer \in Nat /\ powered \in Nat
        /\ timer <= powered /\ powered <= Allowance
        /\ Orderly \in BOOLEAN /\ failures \in Nat
        /\ orderlyState \in {"NONE", "CLEAR", "STATE"} /\ nvAvailable \in BOOLEAN
        /\ restarts \in Nat /\ repeats \in Nat
        /\ mixed \in BOOLEAN /\ Reach \in Nat /\ powered <= Reach
    BY <1>1, LockoutUp, LockoutTypes
  <1>4. Orderly' = TRUE /\ Allowance' = Allowance /\ Reach' = Reach /\ type \in {"NONE", "CLEAR", "STATE"}
    BY <1>1 DEF Orderly, Allowance, Reach, StartupArgument
  <1>5. /\ saved \in Clocks
        /\ saved.clock = c.go.clock /\ saved.clockSafe = c.go.clockSafe
        /\ saved.selfHealTimer = c.go.selfHealTimer /\ saved.time = c.time
    BY <1>2, MemoryFields DEF Clocks
  <1> HIDE DEF saved
  <1>6. /\ u \in Memories /\ u.da = c.da /\ u.nvDa = c.nvDa
        /\ u.time = c.time /\ u.go = saved /\ u.nvGo = saved /\ u.pending = c.pending
    BY <1>2, <1>5 DEF Memories
  <1> HIDE DEF u
  <1>7. NotedOrPending(u)
    BY <1>2, <1>6 DEF NotedOrPending
  <1>8. ClockFits(u, reported, provisional, TRUE)
    BY <1>2, <1>5, <1>6 DEF ClockFits
  <1>9. TimersBounded(u, timer, Reach, powered, TRUE) /\ TimerHealed(u)
    BY <1>1, <1>2, <1>5, <1>6, MemoryFields DEF TimersBounded, TimerHealed
  <1>10. PaymentInv /\ ~ mixed' =>
            /\ PaidFor(u, failures', timer, Allowance')
            /\ PaidAtShutdown(u, failures', timer, Allowance')
    <2>1. ASSUME PaidFor(c, failures, timer, Allowance)
          PROVE  /\ PaidFor(u, failures, timer, Allowance)
                 /\ PaidAtShutdown(u, failures, timer, Allowance)
      <3>1. PaidFor(u, failures, timer, Allowance)
        BY <1>5, <1>6, <2>1 DEF PaidFor
      <3>2. PaidAtShutdown(u, failures, timer, Allowance)
        BY <1>2, <1>5, <1>6 DEF PaidAtShutdown, TimerHealed
      <3> QED
        BY <3>1, <3>2
    <2> QED
      BY <1>1, <1>2, <1>4, <2>1, LockoutUp
  <1>11. u.time <= timer
    BY <1>2, <1>6
  <1> QED
    BY <1>1, <1>3, <1>4, <1>6, <1>7, <1>8, <1>9, <1>10, <1>11, Remembered

\* A startup that counts a failure leaves less to pay for.
LEMMA OwedLess ==
    ASSUME NEW f \in Nat, NEW tries \in Nat, NEW more \in Nat, tries <= more
    PROVE  Owed(f, more) * RecoveryTime <= Owed(f, tries) * RecoveryTime
  <1>1. Owed(f, more) \in Nat /\ Owed(f, tries) \in Nat /\ Owed(f, tries) - Owed(f, more) \in Nat
    BY DEF Owed
  <1> DEFINE before == Owed(f, tries)
             after == Owed(f, more)
  <1> HIDE DEF before, after
  <1>2. /\ (before - after) * RecoveryTime \in Nat
        /\ before * RecoveryTime \in Nat /\ after * RecoveryTime \in Nat
    BY <1>1, ProductIsNat, LockoutConstants DEF before, after
  <1>3. (before - after) * RecoveryTime = before * RecoveryTime - after * RecoveryTime
    BY <1>1, LockoutConstants, Z3 DEF before, after
  <1> QED
    BY <1>2, <1>3 DEF before, after

LEMMA LockoutPowerLostInv ==
    ASSUME LockoutInv, LockoutPowerLost
    PROVE  LockoutInv' /\ (PaymentInv => PaymentInv')
  <1>1. /\ started /\ started' = FALSE
        /\ orderlyState' = orderlyState /\ nvAvailable' = nvAvailable
        /\ timer' = 0 /\ time' = 0 /\ go' = nvGo /\ da' = nvDa
        /\ pendingOnNV' \in {FALSE, pendingOnNV}
        /\ nvGo' = nvGo /\ nvDa' = nvDa
        /\ powered' = powered /\ restarts' = restarts
        /\ failures' = Less(failures, LostByShutdown)
        /\ repeats' = IF Orderly /\ nvGo.selfHealTimer # go.selfHealTimer THEN repeats + 1 ELSE repeats
        /\ mixed' = mixed /\ provisional' = provisional /\ reported' = reported
    BY DEF LockoutPowerLost, PowerLoss
  <1>3. /\ LockoutTypeOK /\ restarts <= MaxRestarts /\ repeats <= restarts
        /\ started = TRUE /\ Allowance \in Nat
        /\ reported \in Nat /\ provisional \in Nat /\ timer \in Nat /\ powered \in Nat
        /\ timer <= powered /\ powered <= Allowance
        /\ Orderly \in BOOLEAN /\ failures \in Nat
        /\ orderlyState \in {"NONE", "CLEAR", "STATE"} /\ nvAvailable \in BOOLEAN
        /\ restarts \in Nat /\ repeats \in Nat
        /\ mixed \in BOOLEAN /\ Reach \in Nat /\ powered <= Reach
    BY <1>1, LockoutUp, LockoutTypes
  <1>4. /\ Orderly' = Orderly /\ Reach' = Reach
        /\ Allowance' = IF Orderly /\ nvGo.selfHealTimer # go.selfHealTimer
                           THEN Allowance + RecoveryTime - 1 ELSE Allowance
    <2>1. Orderly' = Orderly /\ Reach' = Reach
      BY <1>1 DEF Orderly, Reach
    <2>2. (repeats + 1) * (RecoveryTime - 1) = repeats * (RecoveryTime - 1) + RecoveryTime - 1
      BY <1>3, LockoutConstants, Z3
    <2>3. repeats * (RecoveryTime - 1) \in Nat
      BY <1>3, LockoutConstants, ProductIsNat
    <2> DEFINE spare == repeats * (RecoveryTime - 1)
               more == (repeats + 1) * (RecoveryTime - 1)
    <2>4. /\ Allowance = powered + spare
          /\ Allowance' = powered + (IF Orderly /\ nvGo.selfHealTimer # go.selfHealTimer
                                       THEN more ELSE spare)
      BY <1>1 DEF Allowance
    <2> HIDE DEF spare, more
    <2>5. more = spare + RecoveryTime - 1 /\ spare \in Nat
      BY <2>2, <2>3 DEF spare, more
    <2> QED
      BY <1>3, <2>1, <2>4, <2>5, LockoutConstants
  <1>4a. failures' \in Nat /\ repeats' \in Nat
    BY <1>1, <1>3 DEF Less, LostByShutdown
  <1>5. /\ ClockFits(Memory, reported, provisional, Orderly)
        /\ TimersBounded(Memory, timer, Reach, powered, Orderly)
    BY <1>1 DEF LockoutInv, UpInv
  <1>6. /\ time \in Nat /\ time <= timer /\ nvGo \in Clocks /\ nvDa \in Counters
        /\ go \in Clocks /\ da \in Counters
        /\ Memory.time = time /\ Memory.go = go /\ Memory.nvGo = nvGo
        /\ Memory.da = da /\ Memory.nvDa = nvDa /\ Memory \in Memories
        /\ pendingOnNV \in BOOLEAN /\ mixed \in BOOLEAN /\ provisional \in Nat
    BY <1>3, LockoutTypes
  <1>7. LockoutTypeOK'
    <2>1. PowerTypeOK'
      <3>1. PowerTypeOK
        BY <1>3 DEF LockoutTypeOK
      <3> QED
        BY <1>1, <3>1, Zenon DEF PowerTypeOK
    <2>2. /\ {timer, time, reported, provisional, failures, powered, restarts, repeats}' \subseteq Nat
          /\ (time <= timer)'
      BY <1>1, <1>3, <1>4a, <1>6
    <2>3. ({go, nvGo} \subseteq [clock : Nat, clockSafe : BOOLEAN, selfHealTimer : Int,
                                 lockoutTimer : Int, time : Nat])'
      BY <1>1, <1>6 DEF Clocks
    <2>4. ({da, nvDa} \subseteq [failedTries : Nat, lockOutAuthEnabled : BOOLEAN])'
      BY <1>1, <1>6 DEF Counters
    <2>5. ({pendingOnNV, mixed} \subseteq BOOLEAN)'
      BY <1>1, <1>6, Zenon
    <2> QED
      BY <1>1, <2>1, <2>2, <2>3, <2>4, <2>5 DEF LockoutTypeOK
  <1>8. DownInv'
    <2>1. ClockFitsDown'
      <3>1. /\ reported \div UpdateInterval <= nvGo.clock \div UpdateInterval
            /\ Orderly /\ nvGo.clockSafe => reported <= nvGo.clock
        BY <1>5, <1>6 DEF ClockFits
      <3> QED
        BY <1>1, <1>4, <3>1 DEF ClockFitsDown
    <2>2. TimersFitDown'
      <3>1. /\ nvGo.selfHealTimer <= powered
            /\ Orderly => nvGo.time - nvGo.selfHealTimer <= Reach
        BY <1>5, <1>6 DEF TimersBounded
      <3>2. /\ nvGo.selfHealTimer <= powered
            /\ Orderly => 0 + nvGo.time - nvGo.selfHealTimer <= Reach
        BY <1>6, <3>1 DEF Clocks
      <3> QED
        BY <1>1, <1>4, <3>2 DEF TimersFitDown
    <2> QED
      BY <1>1, <2>1, <2>2 DEF DownInv
  <1>9. LockoutInv'
    <2>1. timer' <= powered' /\ powered' <= MaxPowered /\ restarts' <= MaxRestarts
      BY <1>1, <1>3 DEF LockoutInv
    <2>2. RepeatsFit'
      BY <1>1, <1>3, <1>4 DEF RepeatsFit
    <2> QED
      BY <1>1, <1>7, <1>8, <2>1, <2>2 DEF LockoutInv
  <1>10. ASSUME PaymentInv, ~ mixed'
         PROVE  PaidDown'
    <2> DEFINE owed == Owed(failures, da.failedTries) * RecoveryTime
               counted == IF nvDa.failedTries < MaxTries THEN nvDa.failedTries + 1
                                                         ELSE nvDa.failedTries
               owedDown == Owed(failures, counted) * RecoveryTime
    <2>1. /\ PaidFor(Memory, failures, timer, Allowance)
          /\ Orderly => PaidAtShutdown(Memory, failures, timer, Allowance)
      BY <1>1, <1>10, LockoutUp
    <2>2. /\ go.selfHealTimer <= time
          /\ owed + (timer - go.selfHealTimer) <= Allowance
          /\ nvDa.failedTries # da.failedTries =>
                 /\ nvDa.failedTries + 1 = da.failedTries
                 /\ nvDa.failedTries < MaxTries
      BY <1>6, <2>1 DEF PaidFor
    <2>3. /\ da.failedTries \in Nat /\ nvDa.failedTries \in Nat
          /\ go.selfHealTimer \in Int /\ nvGo.selfHealTimer \in Int /\ nvGo.time \in Nat
      BY <1>6, MemoryFields
    <2>4. owed \in Nat
      BY <1>3, <2>3, OwedFailures
    <2>5. CASE Orderly
      <3> DEFINE owedNow == Owed(failures', nvDa.failedTries) * RecoveryTime
      <3>1. owedNow = owed
        <4>1. CASE nvDa.failedTries = da.failedTries
          BY <1>1, <1>3, <2>3, <4>1 DEF LostByShutdown, Less
        <4>2. CASE nvDa.failedTries # da.failedTries
          <5>1. nvDa.failedTries + 1 = da.failedTries /\ failures' = Less(failures, 1)
            BY <1>1, <2>2, <2>5, <4>2 DEF LostByShutdown
          <5>2. Owed(failures', nvDa.failedTries) = Owed(failures, da.failedTries)
            BY <1>3, <2>3, <5>1 DEF Owed, Less
          <5> QED
            BY <5>2
        <4> QED
          BY <4>1, <4>2
      <3>2. ASSUME ~ nvGo.selfHealTimer > nvGo.time
            PROVE  owed + (0 + nvGo.time - nvGo.selfHealTimer) <= Allowance'
        <4>1. nvGo.time <= time
          BY <1>5, <1>6, <2>5 DEF TimersBounded
        <4>2. CASE nvGo.selfHealTimer = go.selfHealTimer
          <5> HIDE DEF owed
          <5> QED
            BY <1>3, <1>4, <1>6, <2>2, <2>3, <2>4, <4>1, <4>2
        <4>3. CASE nvGo.selfHealTimer # go.selfHealTimer
          <5>1. owed + (nvGo.time - nvGo.selfHealTimer) + (timer - go.selfHealTimer)
                    <= Allowance + RecoveryTime - 1
            BY <1>6, <2>1, <2>5, <4>3 DEF PaidAtShutdown
          <5>2. Allowance' = Allowance + RecoveryTime - 1
            BY <1>4, <2>5, <4>3
          <5> HIDE DEF owed
          <5> QED
            BY <1>3, <1>6, <2>2, <2>3, <2>4, <5>1, <5>2, LockoutConstants
        <4> QED
          BY <4>2, <4>3
      <3> HIDE DEF owed
      <3> QED
        BY <1>1, <1>4, <2>5, <3>1, <3>2 DEF PaidDown, TimerPastShutdown
    <2>6. CASE ~ Orderly
      <3>1. counted \in Nat /\ da.failedTries <= counted
        BY <2>2, <2>3, LockoutConstants
      <3> HIDE DEF counted
      <3>2. owedDown <= owed
        BY <1>3, <2>3, <3>1, OwedLess
      <3>3. owedDown \in Nat
        BY <1>3, <3>1, OwedFailures
      <3>4. owedDown + 0 <= Allowance
        <4> HIDE DEF owed, owedDown
        <4> QED
          BY <1>3, <1>6, <2>2, <2>3, <2>4, <3>2, <3>3
      <3>5. failures' = failures /\ Allowance' = Allowance
        BY <1>1, <1>3, <1>4, <2>6 DEF LostByShutdown, Less
      <3> QED
        BY <1>1, <1>4, <2>6, <3>4, <3>5 DEF PaidDown, counted
    <2> QED
      BY <2>5, <2>6
  <1> QED
    BY <1>1, <1>9, <1>10 DEF PaymentInv

LEMMA TimersSet ==
    ASSUME NEW g \in Clocks, NEW x \in Int, NEW y \in Int, NEW safe \in BOOLEAN
    PROVE  [g EXCEPT !.selfHealTimer = x, !.lockoutTimer = y, !.clockSafe = safe] \in Clocks
  <1> DEFINE set == [g EXCEPT !.selfHealTimer = x, !.lockoutTimer = y]
  <1>1. set \in Clocks
    BY DEF Clocks
  <1>2. [set EXCEPT !.clockSafe = safe] \in Clocks
    <2> HIDE DEF set
    <2> QED
      BY <1>1 DEF Clocks
  <1>3. [set EXCEPT !.clockSafe = safe]
            = [g EXCEPT !.selfHealTimer = x, !.lockoutTimer = y, !.clockSafe = safe]
    BY DEF Clocks
  <1> QED
    BY <1>2, <1>3

LEMMA LockoutStartupInv ==
    ASSUME LockoutInv, NEW type \in StartupArgument, LockoutStartup(type)
    PROVE  LockoutInv' /\ (PaymentInv => PaymentInv')
  <1> DEFINE d == StartedTimers(Memory)
             m == StartedTries(d)
             u == TimeUpdate(m)
  <1>1. /\ ~ started /\ started' = TRUE /\ orderlyState' = "NONE" /\ nvAvailable' = nvAvailable
        /\ Remember(u)
        /\ provisional' = 0
        /\ restarts' = IF Orderly THEN restarts + 1 ELSE restarts
        /\ restarts' <= MaxRestarts
        /\ mixed' = (mixed \/ TimerPastShutdown)
        /\ timer' = timer /\ reported' = reported /\ failures' = failures /\ powered' = powered
        /\ repeats' = repeats
    BY DEF LockoutStartup, PowerStartup
  <1>2. /\ LockoutTypeOK
        /\ timer <= powered /\ powered <= MaxPowered /\ restarts <= MaxRestarts /\ RepeatsFit
        /\ time = 0 /\ go = nvGo /\ da = nvDa
        /\ ClockFitsDown
        /\ TimersFitDown
    BY <1>1 DEF LockoutInv, DownInv
  <1>3. /\ Memory \in Memories /\ Memory.time = 0 /\ Memory.go = go /\ Memory.nvGo = go
        /\ Memory.da = da /\ Memory.nvDa = da
        /\ timer \in Nat /\ powered \in Nat /\ restarts \in Nat /\ repeats \in Nat /\ reported \in Nat
        /\ failures \in Nat /\ go \in Clocks /\ da \in Counters /\ mixed \in BOOLEAN
        /\ nvAvailable \in BOOLEAN /\ Orderly \in BOOLEAN
    BY <1>2, LockoutTypes
  <1>4. /\ Orderly' = FALSE /\ Allowance' = Allowance
        /\ restarts' \in Nat /\ repeats <= restarts' /\ mixed' \in BOOLEAN
    <2>1. /\ Orderly' = FALSE /\ Allowance' = Allowance
          /\ restarts' \in Nat /\ repeats <= restarts'
      BY <1>1, <1>2, <1>3 DEF Orderly, Allowance, RepeatsFit
    <2>2. TimerPastShutdown \in BOOLEAN
      BY Zenon DEF TimerPastShutdown
    <2>3. mixed' \in BOOLEAN
      BY <1>1, <1>3, <2>2, Zenon
    <2> QED
      BY <2>1, <2>3
  <1>5. /\ Allowance \in Nat /\ Allowance <= MaxPowered + MaxRestarts * RecoveryTime
        /\ powered <= Reach /\ Reach \in Nat
        /\ Reach' \in Nat /\ Reach' <= MaxPowered + MaxRestarts * RecoveryTime
        /\ Reach' = IF Orderly THEN Reach + RecoveryTime - 1 ELSE Reach
    <2>1. /\ Reach \in Nat /\ powered <= Reach
          /\ powered + (restarts + 1) * (RecoveryTime - 1) = Reach + RecoveryTime - 1
      BY <1>2, <1>3, AllowanceBounds DEF Reach
    <2>2. Reach' \in Nat /\ Reach' <= MaxPowered + MaxRestarts * RecoveryTime
      BY <1>1, <1>2, <1>3, <1>4, AllowanceBounds DEF Reach
    <2>3. Reach' = IF Orderly THEN Reach + RecoveryTime - 1 ELSE Reach
      BY <1>1, <2>1 DEF Reach
    <2>4. Allowance \in Nat /\ Allowance <= MaxPowered + MaxRestarts * RecoveryTime
      BY <1>1, <1>2, <1>3, <1>4, LockoutConstants, AllowanceBounds DEF Allowance
    <2> QED
      BY <2>1, <2>2, <2>3, <2>4
  <1> HIDE DEF d, m, u
  <1>6. /\ d \in Memories /\ d.time = 0 /\ d.nvGo = go /\ d.da = da /\ d.nvDa = da
        /\ d.go.clock = go.clock /\ d.go.time = go.time
        /\ d.go.selfHealTimer = IF Orderly THEN go.selfHealTimer - go.time ELSE 0
        /\ d.go.clockSafe => Orderly /\ go.clockSafe
    <2> DEFINE on == [go EXCEPT !.selfHealTimer = @ - go.time, !.lockoutTimer = @ - go.time]
               anew == [go EXCEPT !.selfHealTimer = 0, !.lockoutTimer = 0, !.clockSafe = FALSE]
    <2>1. /\ on \in Clocks /\ on.clock = go.clock /\ on.time = go.time
          /\ on.selfHealTimer = go.selfHealTimer - go.time /\ on.clockSafe = go.clockSafe
      <3> DEFINE x == go.selfHealTimer - go.time
                 y == go.lockoutTimer - go.time
                 set == [go EXCEPT !.selfHealTimer = x, !.lockoutTimer = y]
      <3>1. x \in Int /\ y \in Int /\ go \in Clocks
        BY <1>3 DEF Clocks
      <3>2. on = set
        OBVIOUS
      <3>3. set \in Clocks
        <4> HIDE DEF x, y
        <4> QED
          BY <3>1 DEF Clocks
      <3>4. /\ set.clock = go.clock /\ set.time = go.time
            /\ set.selfHealTimer = x /\ set.clockSafe = go.clockSafe
        <4> HIDE DEF x, y
        <4> QED
          BY <3>1 DEF Clocks
      <3> HIDE DEF set, on
      <3> QED
        BY <3>2, <3>3, <3>4
    <2>2. /\ anew \in Clocks /\ anew.clock = go.clock /\ anew.time = go.time
          /\ anew.selfHealTimer = 0 /\ anew.clockSafe = FALSE
      <3>1. anew \in Clocks
        <4> DEFINE none == 0
                   no == FALSE
        <4>1. none \in Int /\ no \in BOOLEAN /\ go \in Clocks
          BY <1>3
        <4>2. anew = [go EXCEPT !.selfHealTimer = none, !.lockoutTimer = none, !.clockSafe = no]
          OBVIOUS
        <4> HIDE DEF none, no, anew
        <4>3. [go EXCEPT !.selfHealTimer = none, !.lockoutTimer = none, !.clockSafe = no] \in Clocks
          BY <4>1, TimersSet
        <4> QED
          BY <4>2, <4>3
      <3>2. /\ anew.clock = go.clock /\ anew.time = go.time
            /\ anew.selfHealTimer = 0 /\ anew.clockSafe = FALSE
        BY <1>3 DEF Clocks
      <3> QED
        BY <3>1, <3>2
    <2>3. d = IF Orderly THEN [Memory EXCEPT !.go = on] ELSE [Memory EXCEPT !.go = anew]
      BY <1>3 DEF d, StartedTimers, Memories
    <2> HIDE DEF on, anew
    <2>4. CASE Orderly
      <3>1. d = [Memory EXCEPT !.go = on]
        BY <2>3, <2>4
      <3>2. /\ d \in Memories /\ d.time = Memory.time /\ d.nvGo = Memory.nvGo
            /\ d.da = Memory.da /\ d.nvDa = Memory.nvDa /\ d.go = on
        BY <1>3, <2>1, <3>1 DEF Memories
      <3> QED
        BY <1>3, <2>1, <2>4, <3>2
    <2>5. CASE ~ Orderly
      <3>1. d = [Memory EXCEPT !.go = anew]
        BY <2>3, <2>5
      <3>2. /\ d \in Memories /\ d.time = Memory.time /\ d.nvGo = Memory.nvGo
            /\ d.da = Memory.da /\ d.nvDa = Memory.nvDa /\ d.go = anew
        BY <1>3, <2>2, <3>1 DEF Memories
      <3> QED
        BY <1>3, <2>2, <2>5, <3>2
    <2> QED
      BY <2>4, <2>5
  <1> DEFINE tries == IF da.failedTries < MaxTries /\ ~ Orderly THEN da.failedTries + 1
                                                               ELSE da.failedTries
  <1>7. /\ m \in Memories /\ m.time = 0 /\ m.nvGo = go /\ m.go = d.go /\ m.nvDa = m.da
        /\ m.da.failedTries = tries
    <2> DEFINE enabled == d.da.lockOutAuthEnabled \/ LockoutRecovery = 0
               count == [failedTries |-> tries, lockOutAuthEnabled |-> enabled]
    <2>1. enabled \in BOOLEAN
      <3>1. d.da.lockOutAuthEnabled \in BOOLEAN
        BY <1>6, MemoryFields
      <3> QED
        BY <3>1, Zenon
    <2>2. tries \in Nat
      BY <1>3 DEF Counters
    <2>3. m = [d EXCEPT !.da = count, !.nvDa = count]
      BY <1>6 DEF m, StartedTries
    <2> HIDE DEF enabled, tries
    <2>4. count \in Counters /\ count.failedTries = tries
      BY <2>1, <2>2 DEF Counters
    <2> HIDE DEF count
    <2>5. /\ m \in Memories /\ m.time = d.time /\ m.nvGo = d.nvGo /\ m.go = d.go
          /\ m.da = count /\ m.nvDa = count
      BY <1>6, <2>3, <2>4 DEF Memories
    <2> QED
      BY <1>6, <2>4, <2>5
  <1>8. go.selfHealTimer \in Int /\ go.time \in Nat /\ go.clock \in Nat /\ da.failedTries \in Nat
    BY <1>3 DEF Clocks, Counters
  <1> HIDE DEF tries
  <1>9. /\ NotedOrPending(m)
        /\ ClockFits(m, reported, 0, FALSE)
        /\ TimersBounded(m, timer, Reach', powered, FALSE)
        /\ (m.da.failedTries # 0 => m.go.selfHealTimer <= timer) \/ RecoveryTime - 1 <= Reach'
    <2>1. NotedOrPending(m)
      BY <1>7 DEF NotedOrPending
    <2>2. ClockFits(m, reported, 0, FALSE)
      BY <1>2, <1>6, <1>7, <1>8 DEF ClockFits, ClockFitsDown
    <2>3. TimersBounded(m, timer, Reach', powered, FALSE)
      BY <1>2, <1>3, <1>5, <1>6, <1>7, <1>8, LockoutConstants DEF TimersBounded, TimersFitDown
    <2>4. (m.da.failedTries # 0 => m.go.selfHealTimer <= timer) \/ RecoveryTime - 1 <= Reach'
      BY <1>3, <1>5, <1>6, <1>7, LockoutConstants
    <2> QED
      BY <2>1, <2>2, <2>3, <2>4
  <1>10. /\ u \in Memories /\ u.time = timer
         /\ NotedOrPending(u)
         /\ ClockFits(u, reported, 0, FALSE)
         /\ TimersBounded(u, timer, Reach', powered, FALSE)
         /\ TimerHealed(u)
         /\ \A f \in Nat : PaidFor(m, f, timer, Allowance) => PaidFor(u, f, timer, Allowance)
    <2>1. m.time <= timer
      BY <1>3, <1>7
    <2>2. LET v == TimeUpdate(m)
          IN  /\ v \in Memories /\ v.time = timer /\ v.pending = m.pending
              /\ NotedOrPending(v)
              /\ ClockFits(v, reported, 0, FALSE)
              /\ TimersBounded(v, timer, Reach', powered, FALSE)
              /\ TimerHealed(v)
              /\ \A f \in Nat : PaidFor(m, f, timer, Allowance) =>
                     /\ PaidFor(v, f, timer, Allowance)
                     /\ PaidAtShutdown(m, f, timer, Allowance) => PaidAtShutdown(v, f, timer, Allowance)
      BY <1>2, <1>3, <1>5, <1>7, <1>9, <2>1, TimeUpdateFits, ZenonT(40)
    <2> QED
      BY <2>2 DEF u
  <1>11. ASSUME PaymentInv, ~ mixed'
         PROVE  PaidFor(m, failures, timer, Allowance)
    <2>1. PaidDown /\ ~ TimerPastShutdown
      BY <1>1, <1>11 DEF PaymentInv
    <2>2. m.go.selfHealTimer <= m.time
      BY <1>6, <1>7, <1>8, <2>1 DEF TimerPastShutdown
    <2>3. Owed(failures, tries) * RecoveryTime + (timer - m.go.selfHealTimer) <= Allowance
      <3>1. CASE Orderly
        <4>1. tries = da.failedTries
          BY <3>1 DEF tries
        <4>2. Owed(failures, tries) * RecoveryTime + (timer + go.time - go.selfHealTimer)
                  <= Allowance
          BY <2>1, <3>1, <4>1 DEF PaidDown
        <4>3. timer + go.time - go.selfHealTimer = timer - m.go.selfHealTimer
          BY <1>3, <1>6, <1>7, <1>8, <3>1
        <4> QED
          BY <1>5, <3>1, <4>2, <4>3
      <3>2. CASE ~ Orderly
        <4>1. tries = IF da.failedTries < MaxTries THEN da.failedTries + 1 ELSE da.failedTries
          BY <3>2 DEF tries
        <4>2. Owed(failures, tries) * RecoveryTime + timer <= Allowance
          BY <2>1, <3>2, <4>1 DEF PaidDown
        <4>3. timer - m.go.selfHealTimer = timer
          BY <1>3, <1>6, <1>7, <3>2
        <4> QED
          BY <1>5, <3>2, <4>2, <4>3
      <3> QED
        BY <3>1, <3>2
    <2> QED
      BY <1>7, <2>2, <2>3 DEF PaidFor
  <1>12. PaymentInv /\ ~ mixed' =>
            PaidFor(u, failures', timer, Allowance')
    BY <1>1, <1>3, <1>4, <1>10, <1>11
  <1>13. u.time <= timer /\ started' = TRUE /\ failures' \in Nat /\ reported' \in Nat
    BY <1>1, <1>3, <1>10
  <1> QED
    BY <1>1, <1>3, <1>4, <1>10, <1>12, <1>13, Remembered

LEMMA PaymentGoesOn ==
    ASSUME NEW m \in Memories, NEW f \in Nat, NEW o \in BOOLEAN,
           NEW t \in Nat, NEW a \in Nat, NEW t1 \in Nat, NEW a1 \in Nat,
           t1 = t + 1, a1 = a + 1
    PROVE  /\ PaidFor(m, f, t, a) => PaidFor(m, f, t1, a1)
           /\ PaidAtShutdown(m, f, t, a) => PaidAtShutdown(m, f, t1, a1)
  <1> DEFINE owed == Owed(f, m.da.failedTries) * RecoveryTime
  <1>1. owed \in Nat
    <2>1. m.da.failedTries \in Nat
      BY MemoryFields
    <2> QED
      BY <2>1, OwedFailures
  <1>2. /\ m.go.selfHealTimer \in Int /\ m.nvGo.selfHealTimer \in Int /\ m.nvGo.time \in Nat
    BY MemoryFields
  <1>3. ASSUME PaidFor(m, f, t, a)
        PROVE  PaidFor(m, f, t1, a1)
    <2>1. owed + (t - m.go.selfHealTimer) <= a
      BY <1>3 DEF PaidFor
    <2>2. /\ m.go.selfHealTimer <= m.time
          /\ m.nvDa.failedTries # m.da.failedTries =>
                 /\ m.nvDa.failedTries + 1 = m.da.failedTries
                 /\ m.nvDa.failedTries < MaxTries
      BY <1>3 DEF PaidFor
    <2> HIDE DEF owed
    <2>3. owed + (t1 - m.go.selfHealTimer) <= a1
      BY <1>1, <1>2, <2>1
    <2> QED
      BY <2>2, <2>3 DEF PaidFor, owed
  <1>4. ASSUME PaidAtShutdown(m, f, t, a)
        PROVE  PaidAtShutdown(m, f, t1, a1)
    <2>1. \/ /\ m.nvGo.selfHealTimer = m.go.selfHealTimer
             /\ m.da.failedTries # 0 => m.nvGo.time - m.nvGo.selfHealTimer < RecoveryTime
          \/ /\ m.go.selfHealTimer >= m.nvGo.time
             /\ owed + (m.nvGo.time - m.nvGo.selfHealTimer) + (t - m.go.selfHealTimer)
                    <= a + RecoveryTime - 1
      BY <1>4 DEF PaidAtShutdown
    <2> HIDE DEF owed
    <2>2. owed + (m.nvGo.time - m.nvGo.selfHealTimer) + (t - m.go.selfHealTimer)
              <= a + RecoveryTime - 1
          => owed + (m.nvGo.time - m.nvGo.selfHealTimer) + (t1 - m.go.selfHealTimer)
              <= a1 + RecoveryTime - 1
      BY <1>1, <1>2, LockoutConstants
    <2> QED
      BY <2>1, <2>2 DEF PaidAtShutdown, owed
  <1> QED
    BY <1>3, <1>4

LEMMA TickInv ==
    ASSUME LockoutInv, Tick
    PROVE  LockoutInv' /\ (PaymentInv => PaymentInv')
  <1>1. /\ powered < MaxPowered /\ timer' = timer + 1 /\ powered' = powered + 1
        /\ started' = started /\ orderlyState' = orderlyState /\ nvAvailable' = nvAvailable
        /\ time' = time /\ go' = go /\ nvGo' = nvGo /\ da' = da /\ nvDa' = nvDa
        /\ pendingOnNV' = pendingOnNV /\ reported' = reported /\ provisional' = provisional
        /\ failures' = failures /\ restarts' = restarts /\ repeats' = repeats /\ mixed' = mixed
    BY DEF Tick, powerVars
  <1>2. /\ LockoutTypeOK
        /\ timer <= powered /\ powered <= MaxPowered /\ restarts <= MaxRestarts /\ RepeatsFit
        /\ started => UpInv
        /\ ~ started => DownInv
    BY DEF LockoutInv
  <1>3. /\ timer \in Nat /\ powered \in Nat /\ time \in Nat /\ time <= timer
        /\ restarts \in Nat /\ repeats \in Nat /\ failures \in Nat /\ go \in Clocks /\ da \in Counters
        /\ nvGo \in Clocks /\ started \in BOOLEAN
        /\ Memory.go = go /\ Memory.nvGo = nvGo /\ Memory.da = da
    BY <1>2, LockoutTypes
  <1>4. go.selfHealTimer \in Int /\ go.time \in Nat /\ nvGo.selfHealTimer \in Int
        /\ nvGo.time \in Nat /\ da.failedTries \in Nat
    BY <1>3 DEF Clocks, Counters
  <1>5. Memory' = Memory /\ Orderly' = Orderly /\ TimerPastShutdown' = TimerPastShutdown
    BY <1>1 DEF Memory, Orderly, TimerPastShutdown
  <1>6. /\ Allowance \in Nat /\ Allowance' = Allowance + 1
        /\ Reach \in Nat /\ Reach' = Reach + 1
    <2> DEFINE paid == repeats * (RecoveryTime - 1)
               spare == restarts * (RecoveryTime - 1)
    <2>1. paid \in Nat /\ spare \in Nat
      BY <1>3, LockoutConstants, ProductIsNat
    <2>2. /\ Allowance = powered + paid /\ Allowance' = powered + 1 + paid
          /\ Reach = powered + spare /\ Reach' = powered + 1 + spare
      BY <1>1 DEF Allowance, Reach
    <2> HIDE DEF paid, spare
    <2> QED
      BY <1>3, <2>1, <2>2
  <1>7. LockoutTypeOK'
    <2>1. {timer, time, reported, provisional, failures, powered, restarts, repeats}' \subseteq Nat
      BY <1>1, <1>2, <1>3 DEF LockoutTypeOK
    <2>2. PowerTypeOK'
      BY <1>1, <1>2, Zenon DEF LockoutTypeOK, PowerTypeOK
    <2>3. (time <= timer)'
      BY <1>1, <1>3
    <2>4. /\ ({go, nvGo} \subseteq [clock : Nat, clockSafe : BOOLEAN, selfHealTimer : Int,
                                   lockoutTimer : Int, time : Nat])'
          /\ ({da, nvDa} \subseteq [failedTries : Nat, lockOutAuthEnabled : BOOLEAN])'
          /\ ({pendingOnNV, mixed} \subseteq BOOLEAN)'
          /\ (pendingOnNV \/ nvDa.failedTries = da.failedTries)'
          /\ (LockoutRecovery = 0 \/ pendingOnNV \/ nvDa = da)'
      BY <1>1, <1>2, Zenon DEF LockoutTypeOK
    <2> QED
      BY <2>1, <2>2, <2>3, <2>4 DEF LockoutTypeOK
  <1>8. ASSUME started
        PROVE  UpInv'
    <2>1. /\ NotedOrPending(Memory)
          /\ ClockFits(Memory, reported, provisional, Orderly)
          /\ TimersBounded(Memory, timer, Reach, powered, Orderly)
          /\ TimerHealed(Memory)
      BY <1>2, <1>8 DEF UpInv
    <2>2. TimersBounded(Memory, timer + 1, Reach + 1, powered + 1, Orderly)
      BY <1>3, <1>4, <1>6, <2>1 DEF TimersBounded
    <2>3. TimersBounded(Memory', timer', Reach', powered', Orderly')
      BY <1>1, <1>5, <1>6, <2>2
    <2>4. /\ NotedOrPending(Memory')
          /\ ClockFits(Memory', reported', provisional', Orderly')
          /\ TimerHealed(Memory')
      BY <1>1, <1>5, <2>1
    <2> QED
      BY <2>3, <2>4 DEF UpInv
  <1>9. ASSUME ~ started
        PROVE  DownInv'
    <2>1. time = 0 /\ go = nvGo /\ da = nvDa /\ ClockFitsDown /\ TimersFitDown
      BY <1>2, <1>9 DEF DownInv
    <2>2. ClockFitsDown'
      BY <1>1, <1>5, <2>1 DEF ClockFitsDown
    <2>3. TimersFitDown'
      BY <1>1, <1>3, <1>4, <1>5, <1>6, <2>1 DEF TimersFitDown
    <2> QED
      BY <1>1, <2>1, <2>2, <2>3 DEF DownInv
  <1>10. LockoutInv'
    <2>1. timer' <= powered' /\ powered' <= MaxPowered /\ restarts' <= MaxRestarts
      BY <1>1, <1>2, <1>3, LockoutConstants
    <2>2. RepeatsFit'
      BY <1>1, <1>2, <1>5 DEF RepeatsFit
    <2> QED
      BY <1>1, <1>7, <1>8, <1>9, <2>1, <2>2 DEF LockoutInv
  <1>11. ASSUME PaymentInv, ~ mixed'
         PROVE  /\ started' => /\ PaidFor(Memory', failures', timer', Allowance')
                               /\ Orderly' => PaidAtShutdown(Memory', failures', timer', Allowance')
                /\ ~ started' => PaidDown'
    <2> DEFINE tries == IF da.failedTries < MaxTries THEN da.failedTries + 1 ELSE da.failedTries
               owed == Owed(failures, da.failedTries) * RecoveryTime
               owedDown == Owed(failures, tries) * RecoveryTime
    <2>1. owed \in Nat /\ owedDown \in Nat
      <3>1. tries \in Nat
        BY <1>4
      <3> HIDE DEF tries
      <3> QED
        BY <1>3, <1>4, <3>1, OwedFailures
    <2>2. CASE started
      <3>1. /\ PaidFor(Memory, failures, timer, Allowance)
            /\ Orderly => PaidAtShutdown(Memory, failures, timer, Allowance)
        BY <1>1, <1>11, <2>2 DEF PaymentInv
      <3>2. /\ Memory \in Memories /\ Orderly \in BOOLEAN
        BY <1>2, LockoutTypes
      <3>3. /\ timer \in Nat /\ timer' \in Nat /\ timer' = timer + 1 /\ failures \in Nat
            /\ Allowance \in Nat /\ Allowance' \in Nat /\ Allowance' = Allowance + 1
        BY <1>1, <1>3, <1>6
      <3>4. /\ PaidFor(Memory, failures, timer', Allowance')
            /\ Orderly => PaidAtShutdown(Memory, failures, timer', Allowance')
        BY <3>1, <3>2, <3>3, PaymentGoesOn
      <3> QED
        BY <1>1, <1>5, <2>2, <3>4
    <2>3. CASE ~ started
      <3>1. PaidDown
        BY <1>1, <1>11, <2>3 DEF PaymentInv
      <3>2. CASE Orderly
        <4>1. ASSUME ~ TimerPastShutdown
              PROVE  owed + (timer + 1 + go.time - go.selfHealTimer) <= Allowance + 1
          <5>1. owed + (timer + go.time - go.selfHealTimer) <= Allowance
            BY <3>1, <3>2, <4>1 DEF PaidDown
          <5> HIDE DEF owed
          <5> QED
            BY <1>3, <1>4, <1>6, <2>1, <5>1, LockoutConstants
        <4> QED
          BY <1>1, <1>5, <1>6, <2>3, <3>2, <4>1 DEF PaidDown
      <3>3. CASE ~ Orderly
        <4>1. owedDown + (timer + 1) <= Allowance + 1
          <5>1. owedDown + timer <= Allowance
            BY <3>1, <3>3 DEF PaidDown
          <5> HIDE DEF owedDown
          <5> QED
            BY <1>3, <1>6, <2>1, <5>1
        <4> QED
          BY <1>1, <1>5, <1>6, <2>3, <3>3, <4>1 DEF PaidDown
      <3> QED
        BY <3>2, <3>3
    <2> QED
      BY <1>3, <2>2, <2>3
  <1> QED
    BY <1>10, <1>11 DEF PaymentInv

\* Neither NV going away nor a stutter changes what these speak of.
LEMMA LockoutStays ==
    ASSUME LockoutInv,
           started' = started, orderlyState' = orderlyState, nvAvailable' \in BOOLEAN,
           UNCHANGED <<timer, time, go, nvGo, da, nvDa, pendingOnNV, lockoutHistory>>
    PROVE  LockoutInv' /\ (PaymentInv => PaymentInv')
  <1>1. /\ timer' = timer /\ time' = time /\ go' = go /\ nvGo' = nvGo
        /\ da' = da /\ nvDa' = nvDa /\ pendingOnNV' = pendingOnNV
        /\ reported' = reported /\ provisional' = provisional
        /\ failures' = failures /\ powered' = powered /\ restarts' = restarts
        /\ repeats' = repeats /\ mixed' = mixed
    BY DEF lockoutHistory
  <1>2. /\ Memory' = Memory /\ Orderly' = Orderly
        /\ Allowance' = Allowance /\ Reach' = Reach
        /\ TimerPastShutdown' = TimerPastShutdown
    BY <1>1 DEF Memory, Orderly, Allowance, Reach, TimerPastShutdown
  <1>3. LockoutTypeOK'
    <2>1. LockoutTypeOK
      BY DEF LockoutInv
    <2>2. PowerTypeOK'
      BY <2>1, Zenon DEF LockoutTypeOK, PowerTypeOK
    <2>3. /\ {timer, time, reported, provisional, failures, powered, restarts, repeats}' \subseteq Nat
          /\ (time <= timer)'
          /\ ({go, nvGo} \subseteq [clock : Nat, clockSafe : BOOLEAN, selfHealTimer : Int,
                                   lockoutTimer : Int, time : Nat])'
          /\ ({da, nvDa} \subseteq [failedTries : Nat, lockOutAuthEnabled : BOOLEAN])'
          /\ (pendingOnNV \/ nvDa.failedTries = da.failedTries)'
          /\ (LockoutRecovery = 0 \/ pendingOnNV \/ nvDa = da)'
      BY <1>1, <2>1 DEF LockoutTypeOK
    <2>4. ({pendingOnNV, mixed} \subseteq BOOLEAN)'
      BY <1>1, <2>1, Zenon DEF LockoutTypeOK
    <2> QED
      BY <2>2, <2>3, <2>4 DEF LockoutTypeOK
  <1>4. UpInv' = UpInv
    BY <1>1, <1>2 DEF UpInv
  <1>5. DownInv' = DownInv
    BY <1>1, <1>2 DEF DownInv, ClockFitsDown, TimersFitDown
  <1>6. LockoutInv'
    BY <1>1, <1>2, <1>3, <1>4, <1>5 DEF LockoutInv, RepeatsFit
  <1>7. PaidDown' = PaidDown
    BY <1>1, <1>2 DEF PaidDown
  <1>8. PaymentInv => PaymentInv'
    BY <1>1, <1>2, <1>7 DEF PaymentInv
  <1> QED
    BY <1>6, <1>8

-----------------------------------------------------------------------------
(* The theorems. *)

LEMMA LockoutStarts ==
    LockoutInit => LockoutInv /\ PaymentInv
  <1> SUFFICES ASSUME LockoutInit
               PROVE  LockoutInv /\ PaymentInv
    OBVIOUS
  <1>1. /\ started = FALSE /\ orderlyState = "CLEAR" /\ nvAvailable = TRUE
        /\ timer = 0 /\ time = 0 /\ go = NewClock /\ nvGo = NewClock
        /\ da = NoFailures /\ nvDa = NoFailures /\ pendingOnNV = FALSE
        /\ reported = 0 /\ provisional = 0 /\ failures = 0 /\ powered = 0 /\ restarts = 0
        /\ repeats = 0 /\ mixed = FALSE
    BY DEF LockoutInit, PowerInit
  <1>2. NewClock \in Clocks /\ NoFailures \in Counters
    BY DEF Clocks, Counters, NewClock, NoFailures
  <1>3. /\ NewClock.clock = 0 /\ NewClock.selfHealTimer = 0 /\ NewClock.time = 0
        /\ NoFailures.failedTries = 0
    BY DEF NewClock, NoFailures
  <1>4. LockoutTypeOK
    <2>1. PowerTypeOK
      BY <1>1, Zenon DEF PowerTypeOK, StartupArgument
    <2>2. /\ {timer, time, reported, provisional, failures, powered, restarts, repeats} \subseteq Nat
          /\ time <= timer
      BY <1>1
    <2>3. {go, nvGo} \subseteq [clock : Nat, clockSafe : BOOLEAN, selfHealTimer : Int,
                               lockoutTimer : Int, time : Nat]
      BY <1>1, <1>2 DEF Clocks
    <2>4. {da, nvDa} \subseteq [failedTries : Nat, lockOutAuthEnabled : BOOLEAN]
      BY <1>1, <1>2 DEF Counters
    <2>5. {pendingOnNV, mixed} \subseteq BOOLEAN
      BY <1>1, Zenon
    <2> QED
      BY <1>1, <2>1, <2>2, <2>3, <2>4, <2>5 DEF LockoutTypeOK
  <1>5. Orderly
    BY <1>1 DEF Orderly
  <1>6. Allowance = 0 /\ Reach = 0
    BY <1>1, LockoutConstants DEF Allowance, Reach
  <1>7. DownInv
    <2>1. ClockFitsDown
      <3>1. 0 \div UpdateInterval \in Nat
        BY Remainder, LockoutConstants
      <3>2. reported = 0 /\ go.clock = 0
        BY <1>1, <1>3
      <3> QED
        BY <3>1, <3>2 DEF ClockFitsDown
    <2>2. TimersFitDown
      BY <1>1, <1>3, <1>6 DEF TimersFitDown
    <2> QED
      BY <1>1, <2>1, <2>2 DEF DownInv
  <1>8. LockoutInv
    BY <1>1, <1>4, <1>7, LockoutConstants DEF LockoutInv, RepeatsFit
  <1>9. PaidDown
    <2>1. Owed(failures, da.failedTries) = 0
      BY <1>1, <1>3 DEF Owed
    <2>2. Owed(failures, da.failedTries) * RecoveryTime = 0
      BY <2>1, LockoutConstants
    <2>3. timer + go.time - go.selfHealTimer = 0
      BY <1>1, <1>3
    <2> QED
      BY <1>5, <1>6, <2>2, <2>3, LockoutConstants DEF PaidDown
  <1> QED
    BY <1>1, <1>8, <1>9 DEF PaymentInv

LEMMA LockoutStep ==
    ASSUME LockoutInv, [LockoutNext]_lockoutVars
    PROVE  LockoutInv' /\ (PaymentInv => PaymentInv')
  <1>1. CASE Tick
    BY <1>1, TickInv
  <1>2. CASE ReadClock
    BY <1>2, ReadClockInv
  <1>3. ASSUME NEW newTime \in 0 .. MaxClock, ClockSet(newTime)
        PROVE  LockoutInv' /\ (PaymentInv => PaymentInv')
    <2>1. newTime \in Nat
      BY LockoutAssumption
    <2> QED
      BY <1>3, <2>1, ClockSetInv
  <1>4. ASSUME NEW success \in BOOLEAN, Authorize(success)
        PROVE  LockoutInv' /\ (PaymentInv => PaymentInv')
    BY <1>4, AuthorizeInv
  <1>5. CASE AuthorizeLockout
    BY <1>5, AuthorizeLockoutInv
  <1>6. CASE LockReset
    BY <1>6, LockResetInv
  <1>7. CASE Clear
    BY <1>7, ClearInv
  <1>8. CASE ClockedCommand
    BY <1>8, ClockedCommandInv
  <1>9. CASE LockoutPowerLost
    BY <1>9, LockoutPowerLostInv
  <1>10. CASE LockoutNvSignal
    <2>1. nvAvailable' \in BOOLEAN
      BY <1>10, Zenon DEF LockoutNvSignal, NvSignal
    <2> QED
      BY <1>10, <2>1, LockoutStays DEF LockoutNvSignal, NvSignal
  <1>11. ASSUME NEW type \in StartupArgument, LockoutShutdown(type)
         PROVE  LockoutInv' /\ (PaymentInv => PaymentInv')
    BY <1>11, LockoutShutdownInv
  <1>12. ASSUME NEW type \in StartupArgument, LockoutStartup(type)
         PROVE  LockoutInv' /\ (PaymentInv => PaymentInv')
    BY <1>12, LockoutStartupInv
  <1>13. CASE UNCHANGED lockoutVars
    <2>1. nvAvailable' \in BOOLEAN
      BY <1>13, LockoutTypes DEF LockoutInv, lockoutVars, powerVars
    <2> QED
      BY <1>13, <2>1, LockoutStays DEF lockoutVars, powerVars
  <1> QED
    BY <1>1, <1>2, <1>3, <1>4, <1>5, <1>6, <1>7, <1>8, <1>9, <1>10, <1>11, <1>12, <1>13
    DEF LockoutNext

\* Through every loss of power, with or without a shutdown, the clock in NV is
\* of the interval of the one in RAM, no timer of the healing is so far from
\* the time that the unsigned difference would wrap but at a startup, and the
\* failures that are not counted any more are paid for.
THEOREM LockoutInvariant ==
    LockoutSpec => [](LockoutInv /\ PaymentInv)
  <1>1. LockoutInit => LockoutInv /\ PaymentInv
    BY LockoutStarts
  <1>2. LockoutInv /\ PaymentInv /\ [LockoutNext]_lockoutVars => (LockoutInv /\ PaymentInv)'
    BY LockoutStep
  <1> QED
    BY <1>1, <1>2, PTL DEF LockoutSpec

\* A clock that says it is safe was never reported as larger: what a loss of
\* power sets back stays unsafe until an update to NV is past it (TimeStartup
\* and TimeClockUpdate).
THEOREM SafeClock ==
    LockoutSpec => []SafeClockIsAhead
  <1>1. LockoutInv => SafeClockIsAhead
    <2> SUFFICES ASSUME LockoutInv, started, go.clockSafe
                 PROVE  reported <= go.clock
      BY DEF SafeClockIsAhead
    <2>1. ClockFits(Memory, reported, provisional, Orderly)
      BY DEF LockoutInv, UpInv
    <2>2. Memory.go = go
      BY LockoutTypes DEF LockoutInv
    <2> QED
      BY <2>1, <2>2 DEF ClockFits
  <1> QED
    BY <1>1, LockoutInvariant, PTL

\* As a command has read the time, DASelfHeal has left no failure that the
\* time since its timer was set would have healed.
THEOREM LockoutEnding ==
    LockoutSpec => []LockoutEnds
  <1>1. LockoutInv => LockoutEnds
    <2> SUFFICES ASSUME LockoutInv, started, da.failedTries # 0
                 PROVE  time - go.selfHealTimer < RecoveryTime
      BY DEF LockoutEnds
    <2>1. TimerHealed(Memory)
      BY DEF LockoutInv, UpInv
    <2>2. Memory.go = go /\ Memory.da = da /\ Memory.time = time
      BY LockoutTypes DEF LockoutInv
    <2> QED
      BY <2>1, <2>2 DEF TimerHealed
  <1> QED
    BY <1>1, LockoutInvariant, PTL

\* Every failure that is not counted any more was paid with RecoveryTime of
\* time that the TPM was powered, and none of it twice but what a timer that
\* goes back to a shutdown counts again: through every TPM2_Shutdown, which
\* loses no failure but one that waits for NV, and as long as no startup finds
\* a timer that is later than its shutdown (DASelfHeal, DAStartup).
THEOREM FailuresPaid ==
    LockoutSpec => []ForgivenFailuresArePaid
  <1>1. LockoutInv /\ PaymentInv => ForgivenFailuresArePaid
    <2> SUFFICES ASSUME LockoutInv, PaymentInv, ~ mixed, started
                 PROVE  (failures - da.failedTries) * RecoveryTime + (time - go.selfHealTimer)
                            <= powered + repeats * (RecoveryTime - 1)
      BY DEF ForgivenFailuresArePaid, FailuresArePaid
    <2>1. PaidFor(Memory, failures, timer, Allowance)
      BY DEF PaymentInv
    <2>2. /\ Memory.go = go /\ Memory.da = da
          /\ timer \in Nat /\ time \in Nat /\ time <= timer /\ failures \in Nat
          /\ go \in Clocks /\ da \in Counters /\ Allowance \in Nat
      BY LockoutTypes, LockoutUp DEF LockoutInv
    <2> DEFINE owed == Owed(failures, da.failedTries) * RecoveryTime
               difference == (failures - da.failedTries) * RecoveryTime
    <2>3. owed + (timer - go.selfHealTimer) <= Allowance
      BY <2>1, <2>2 DEF PaidFor
    <2>4. go.selfHealTimer \in Int /\ da.failedTries \in Nat
      BY <2>2 DEF Clocks, Counters
    <2>5. /\ owed \in Nat /\ difference \in Int /\ difference <= owed
      <3>1. Owed(failures, da.failedTries) \in Nat /\ owed \in Nat
        BY <2>2, <2>4, OwedFailures
      <3>2. CASE failures >= da.failedTries
        <4>1. Owed(failures, da.failedTries) = failures - da.failedTries
          BY <2>2, <2>4, <3>2 DEF Owed
        <4> QED
          BY <3>1, <4>1
      <3>3. CASE ~ failures >= da.failedTries
        <4> DEFINE more == da.failedTries - failures
        <4>1. more \in Nat
          BY <2>2, <2>4, <3>3
        <4>2. more * RecoveryTime \in Nat
          <5> HIDE DEF more
          <5> QED
            BY <4>1, ProductIsNat, LockoutConstants
        <4>3. difference = 0 - more * RecoveryTime
          BY <2>2, <2>4, LockoutConstants, Z3
        <4> HIDE DEF difference, owed, more
        <4> QED
          BY <3>1, <4>2, <4>3
      <3> QED
        BY <3>2, <3>3
    <2> HIDE DEF owed, difference
    <2>6. difference + (time - go.selfHealTimer) <= Allowance
      BY <2>2, <2>3, <2>4, <2>5
    <2> QED
      BY <2>6 DEF difference, Allowance
  <1> QED
    BY <1>1, LockoutInvariant, PTL

-----------------------------------------------------------------------------
(* Remainders by the order of the group. *)

LEMMA OrderIsLarge ==
    Order \in Nat /\ Base \in Nat /\ Base > 1 /\ Order > 2
  <1>1. /\ Order \in Nat /\ Base \in Nat
        /\ Base < Order /\ Order < Base * Base
    BY DaaAssumption
  <1>2. Base # 0
    BY <1>1, Z3
  <1>3. Base # 1
    BY <1>1
  <1> QED
    BY <1>1, <1>2, <1>3

LEMMA RemainderOf ==
    ASSUME NEW x \in Int, NEW d \in Nat, d > 0
    PROVE  /\ x \div d \in Int
           /\ x % d \in 0 .. (d - 1)
           /\ x = d * (x \div d) + (x % d)
  BY Z3

LEMMA ProductIsInt ==
    ASSUME NEW x \in Int, NEW y \in Int
    PROVE  x * y \in Int
  BY Z3

\* No multiple but 0 lies between the order and its negative.
LEMMA SmallMultiple ==
    ASSUME NEW d \in Nat, NEW k \in Int, d * k < d, - d < d * k
    PROVE  k = 0
  <1>1. ASSUME k >= 1
        PROVE  FALSE
    <2>1. k - 1 \in Nat
      BY <1>1
    <2>2. d * (k - 1) >= 0
      <3> DEFINE j == k - 1
      <3>1. j \in Nat
        BY <2>1
      <3> HIDE DEF j
      <3>2. d * j >= 0
        BY <3>1, Z3
      <3> QED
        BY <3>2 DEF j
    <2>3. d * k = d * (k - 1) + d
      BY Z3
    <2> QED
      BY <2>2, <2>3, ProductIsInt
  <1>2. ASSUME k <= -1
        PROVE  FALSE
    <2> DEFINE j == - k - 1
    <2>1. j \in Nat
      BY <1>2
    <2>2. d * k = - (d * j) - d
      BY Z3
    <2> HIDE DEF j
    <2>3. d * j >= 0
      BY <2>1, Z3
    <2> QED
      BY <2>1, <2>2, <2>3, ProductIsInt
  <1> QED
    BY <1>1, <1>2

\* Numbers that differ by a multiple have the same remainder,
LEMMA Congruent ==
    ASSUME NEW x \in Int, NEW y \in Int, NEW k \in Int, x = y + Order * k
    PROVE  x % Order = y % Order
  <1> DEFINE i == x \div Order
             j == y \div Order
             r == x % Order
             s == y % Order
             m == i - j - k
  <1>1. /\ i \in Int /\ j \in Int
        /\ r \in 0 .. (Order - 1) /\ s \in 0 .. (Order - 1)
        /\ x = Order * i + r
        /\ y = Order * j + s
    BY RemainderOf, OrderIsLarge
  <1> HIDE DEF i, j, r, s
  <1>2. Order * m = s - r
    BY <1>1, OrderIsLarge, Z3
  <1>3. m \in Int
    BY <1>1
  <1> HIDE DEF m
  <1>4. m = 0
    BY <1>1, <1>2, <1>3, SmallMultiple, OrderIsLarge
  <1>5. Order * 0 = 0
    BY OrderIsLarge
  <1>6. r = s
    BY <1>1, <1>2, <1>4, <1>5
  <1> QED
    BY <1>6 DEF r, s

\* and only they.
LEMMA Difference ==
    ASSUME NEW x \in Int, NEW y \in Int, x % Order = y % Order
    PROVE  \E k \in Int : x = y + Order * k
  <1> DEFINE i == x \div Order
             j == y \div Order
             r == x % Order
  <1>1. /\ i \in Int /\ j \in Int
        /\ r \in 0 .. (Order - 1)
        /\ x = Order * i + r
        /\ y = Order * j + r
    BY RemainderOf, OrderIsLarge
  <1> HIDE DEF i, j, r
  <1>2. x = y + Order * (i - j)
    BY <1>1, OrderIsLarge, Z3
  <1>3. i - j \in Int
    BY <1>1
  <1> QED
    BY <1>2, <1>3

\* A number of the group is its own remainder.
LEMMA ScalarRemainder ==
    ASSUME NEW x \in Scalar
    PROVE  x \in Int /\ x % Order = x
  <1>1. x \in Nat /\ x < Order
    BY OrderIsLarge DEF Scalar
  <1>2. /\ x \div Order \in Int
        /\ x % Order \in 0 .. (Order - 1)
        /\ x = Order * (x \div Order) + (x % Order)
    BY <1>1, RemainderOf, OrderIsLarge
  <1> DEFINE i == x \div Order
             r == x % Order
  <1>3. i \in Int /\ r \in 0 .. (Order - 1) /\ x = Order * i + r
    BY <1>2
  <1> HIDE DEF i, r
  <1>4. Order * i = x - r /\ Order * i \in Int
    BY <1>3, <1>1, OrderIsLarge, ProductIsInt
  <1>5. i = 0
    BY <1>1, <1>3, <1>4, SmallMultiple, OrderIsLarge
  <1>6. Order * 0 = 0
    BY OrderIsLarge
  <1>7. x = r
    BY <1>1, <1>3, <1>4, <1>5, <1>6
  <1> QED
    BY <1>1, <1>7 DEF r

LEMMA RemainderIsScalar ==
    ASSUME NEW x \in Int
    PROVE  x % Order \in Scalar
  BY RemainderOf, OrderIsLarge DEF Scalar

LEMMA TimesIsScalar ==
    ASSUME NEW x \in Int, NEW y \in Int
    PROVE  Times(x, y) \in Scalar
  BY ProductIsInt, RemainderIsScalar DEF Times

\* Remainders of sums, differences and products.
LEMMA CongruentSum ==
    ASSUME NEW x \in Int, NEW y \in Int, NEW u \in Int, NEW v \in Int,
           x % Order = u % Order, y % Order = v % Order
    PROVE  /\ (x + y) % Order = (u + v) % Order
           /\ (x - y) % Order = (u - v) % Order
  <1>1. PICK i \in Int : x = u + Order * i
    BY Difference
  <1>2. PICK j \in Int : y = v + Order * j
    BY Difference
  <1>3. /\ x + y = (u + v) + Order * (i + j)
        /\ x - y = (u - v) + Order * (i - j)
    BY <1>1, <1>2, OrderIsLarge, Z3
  <1>4. /\ x + y \in Int /\ u + v \in Int /\ i + j \in Int
        /\ x - y \in Int /\ u - v \in Int /\ i - j \in Int
    OBVIOUS
  <1> QED
    BY <1>3, <1>4, Congruent

LEMMA CongruentDifference ==
    ASSUME NEW x \in Int, NEW y \in Int, NEW u \in Int, NEW v \in Int,
           x % Order = u % Order, y % Order = v % Order, NEW a, a = x - y, NEW c, c = u - v
    PROVE  a % Order = c % Order
  BY CongruentSum

LEMMA CongruentProduct ==
    ASSUME NEW x \in Int, NEW y \in Int, NEW u \in Int, NEW v \in Int,
           x % Order = u % Order, y % Order = v % Order
    PROVE  (x * y) % Order = (u * v) % Order
  <1>1. PICK i \in Int : x = u + Order * i
    BY Difference
  <1>2. PICK j \in Int : y = v + Order * j
    BY Difference
  <1> DEFINE k == u * j + i * v + i * (Order * j)
  <1>3. x * y = u * v + Order * k
    BY <1>1, <1>2, OrderIsLarge, Z3
  <1>4. k \in Int /\ x * y \in Int /\ u * v \in Int
    BY OrderIsLarge, ProductIsInt
  <1> HIDE DEF k
  <1> QED
    BY <1>3, <1>4, Congruent

LEMMA CongruentFactor ==
    ASSUME NEW x \in Int, NEW y \in Int, NEW v \in Int, y % Order = v % Order
    PROVE  (x * y) % Order = (x * v) % Order
  <1>1. PICK j \in Int : y = v + Order * j
    BY Difference
  <1> DEFINE k == x * j
  <1>2. x * y = x * v + Order * k
    BY <1>1, OrderIsLarge, Z3
  <1>3. k \in Int /\ x * y \in Int /\ x * v \in Int
    BY ProductIsInt
  <1> HIDE DEF k
  <1> QED
    BY <1>2, <1>3, Congruent

\* The remainder may be taken of a factor, too.
LEMMA TimesRemainder ==
    ASSUME NEW x \in Int, NEW y \in Int
    PROVE  /\ Times(x, y % Order) = (x * y) % Order
           /\ Times(x, y) % Order = (x * y) % Order
  <1>1. y % Order \in Scalar /\ Times(x, y) \in Scalar
    BY RemainderIsScalar, TimesIsScalar
  <1>2. (y % Order) % Order = y % Order /\ y % Order \in Int
    BY <1>1, ScalarRemainder
  <1>3. (x * (y % Order)) % Order = (x * y) % Order
    BY <1>2, CongruentProduct
  <1> QED
    BY <1>1, <1>3, ScalarRemainder DEF Times

-----------------------------------------------------------------------------
(* The order is a prime. *)

\* Two numbers that the prime does not divide have a product that it does not divide:
\* of the first factors of such a product the least one divides the order.
LEMMA NoZeroDivisors ==
    ASSUME NEW a \in 1 .. (Order - 1), NEW b \in 1 .. (Order - 1)
    PROVE  (a * b) % Order # 0
  <1> DEFINE T == {x \in Nat : x \in 1 .. (Order - 1) /\ (x * b) % Order = 0}
  <1>1. b \in Int /\ b \in Scalar /\ b # 0
    BY OrderIsLarge DEF Scalar
  <1>2. SUFFICES ASSUME (a * b) % Order = 0
                 PROVE  FALSE
    OBVIOUS
  <1>3. a \in T
    BY <1>2, OrderIsLarge
  <1>4. PICK m \in T : \A x \in T : ~ (<<x, m>> \in OpToRel(<, Nat))
    <2>1. T \subseteq Nat /\ T # {}
      BY <1>3
    <2> HIDE DEF T
    <2> QED
      BY <2>1, NatLessThanWellFounded, WFMin, Zenon
  <1>5. m \in Nat /\ m \in 1 .. (Order - 1) /\ (m * b) % Order = 0
    BY <1>4
  <1>6. \A x \in T : ~ (x < m)
    BY <1>4 DEF OpToRel
  <1> DEFINE q == Order \div m
             r == Order % m
  <1>7. q \in Int /\ r \in 0 .. (m - 1) /\ Order = m * q + r
    BY <1>5, OrderIsLarge, RemainderOf
  <1> HIDE DEF q, r
  <1>8. r * b \in Int /\ m * b \in Int
    BY <1>1, <1>5, <1>7, ProductIsInt
  <1>9. (r * b) % Order = 0
    <2>1. PICK k \in Int : m * b = 0 + Order * k
      <3>1. 0 \in Scalar
        BY OrderIsLarge DEF Scalar
      <3> QED
        BY <1>5, <1>8, <3>1, ScalarRemainder, Difference
    <2> DEFINE i == b - k * q
    <2>2. r * b = 0 + Order * i
      <3>1. r * b = Order * b - q * (m * b)
        BY <1>1, <1>5, <1>7, OrderIsLarge, Z3
      <3>2. r * b = Order * b - q * (Order * k)
        <4>1. Order * k \in Int
          BY OrderIsLarge, ProductIsInt
        <4> QED
          BY <2>1, <3>1, <4>1
      <3> QED
        BY <1>1, <1>7, <3>2, OrderIsLarge, Z3
    <2>3. i \in Int
      BY <1>1, <1>7, ProductIsInt
    <2> HIDE DEF i
    <2>4. (r * b) % Order = 0 % Order
      BY <1>8, <2>2, <2>3, Congruent
    <2>5. 0 \in Scalar
      BY OrderIsLarge DEF Scalar
    <2> QED
      BY <2>4, <2>5, ScalarRemainder
  <1>10. r = 0
    <2>1. ASSUME r # 0
          PROVE  r \in T
      BY <1>5, <1>7, <1>9, <2>1, OrderIsLarge
    <2> HIDE DEF T
    <2> QED
      BY <1>5, <1>6, <1>7, <2>1
  <1> HIDE DEF T
  <1>11. m # 1
    BY <1>1, <1>5, ScalarRemainder
  <1>12. Order = m * q
    <2>1. m * q \in Int
      BY <1>5, <1>7, ProductIsInt
    <2> QED
      BY <1>7, <1>10, <2>1
  <1>13. q > 0
    <2>1. ASSUME q <= 0
          PROVE  FALSE
      <3> DEFINE j == - q
      <3>1. j \in Nat
        BY <1>7, <2>1
      <3>2. m * q = - (m * j)
        BY <1>5, <1>7, Z3
      <3> HIDE DEF j
      <3>3. m * j \in Nat
        BY <1>5, <3>1, Z3
      <3> QED
        BY <1>12, <3>2, <3>3, OrderIsLarge
    <2> QED
      BY <1>7, <2>1
  <1>14. q # 1
    BY <1>5, <1>12, OrderIsLarge
  <1>15. q < Order
    <2> DEFINE i == m - 2
               j == q - 2
    <2>1. i \in Nat /\ j \in Nat
      BY <1>5, <1>7, <1>11, <1>13, <1>14
    <2>2. m * q = i * j + 2 * i + 2 * j + 4
      BY <1>5, <1>7, Z3
    <2>3. q = j + 2
      BY <1>7
    <2> HIDE DEF i, j
    <2>4. i * j \in Nat
      BY <2>1, Z3
    <2> QED
      BY <1>12, <2>1, <2>2, <2>3, <2>4
  <1>16. m \in 2 .. (Order - 1) /\ q \in 2 .. (Order - 1)
    BY <1>5, <1>7, <1>11, <1>13, <1>14, <1>15, OrderIsLarge
  <1> QED
    BY <1>12, <1>16, DaaAssumption

\* A factor that is not 0 can be left out.
LEMMA Cancel ==
    ASSUME NEW a \in Scalar, NEW b \in Scalar, NEW s \in 1 .. (Order - 1),
           (a * s) % Order = (b * s) % Order
    PROVE  a = b
  <1>1. s \in Int /\ a \in Int /\ b \in Int
    BY OrderIsLarge DEF Scalar
  <1>2. a * s \in Int /\ b * s \in Int
    BY <1>1, ProductIsInt
  <1>3. ASSUME NEW x \in Scalar, NEW y \in Scalar, (x * s) % Order = (y * s) % Order
        PROVE  ~ (x > y)
    <2> DEFINE c == x - y
    <2>1. SUFFICES ASSUME x > y
                   PROVE  FALSE
      OBVIOUS
    <2>2. c \in 1 .. (Order - 1) /\ x \in Int /\ y \in Int
      BY <2>1, OrderIsLarge DEF Scalar
    <2>3. x * s \in Int /\ y * s \in Int
      BY <1>1, <2>2, ProductIsInt
    <2>4. PICK k \in Int : x * s = y * s + Order * k
      BY <1>3, <2>3, Difference
    <2>5. c * s = 0 + Order * k
      <3>1. c * s = x * s - y * s
        BY <1>1, <2>2, Z3
      <3>2. Order * k \in Int
        BY OrderIsLarge, ProductIsInt
      <3> QED
        BY <2>3, <2>4, <3>1, <3>2
    <2>6. c * s \in Int
      BY <1>1, <2>2, ProductIsInt
    <2> HIDE DEF c
    <2>7. (c * s) % Order = 0 % Order
      BY <2>5, <2>6, Congruent
    <2>8. 0 \in Scalar
      BY OrderIsLarge DEF Scalar
    <2> QED
      BY <2>2, <2>7, <2>8, ScalarRemainder, NoZeroDivisors
  <1>4. ~ (a > b) /\ ~ (b > a)
    BY <1>3
  <1> QED
    BY <1>1, <1>4

-----------------------------------------------------------------------------
(* The inductive invariant of Daa. *)

\* What the variables hold.
DaaKinds ==
    /\ DaaTypeOK
    /\ credential \in [1 .. 4 -> Buffer] /\ rcre \in [1 .. 4 -> Buffer]
    /\ signature \in [R : Buffer, S : Buffer, V : Buffer]
    /\ hashed = [input |-> hashed.input, nonce |-> hashed.nonce, h |-> hashed.h]
    /\ made = [issuer |-> made.issuer, key |-> made.key, text |-> made.text]
    /\ lost \in BOOLEAN

\* Which stage has what.
StageFits ==
    /\ stage # "create" => kind # "none" /\ key \in PrivateKey
    /\ stage \in {"issue", "randomize"} => kind = "sign"
    /\ verdict # "none" => stage = "verified"

\* Four points that are a credential of a key, by an issuer.
IsCredential(points, issuer, q) ==
    /\ \A i \in 1 .. 4 : OnCurve(points[i])
    /\ Number(points[2]) = Times(issuer[2], Number(points[1]))
    /\ Number(points[4]) = Times(q, Number(points[2]))
    /\ Number(points[3]) = Times(issuer[1], Number(points[4]) + Number(points[1]))

Signed == {"tpmSign", "finalize", "verify"}

\* As long as no leading zero was left out: the credential, randomized or not, is one of
\* the key that the issuer made it for,
CredentialFits ==
    ~ lost /\ kind = "sign" /\ stage \in {"randomize", "commit", "refused"} \cup Signed =>
        /\ made.issuer \in IssuerX \X IssuerY
        /\ made.key \in PrivateKey
        /\ IsCredential(IF stage = "randomize" THEN credential ELSE rcre, made.issuer, made.key)

\* the string is of the commitment,
StringFits ==
    ~ lost /\ stage \in Signed =>
        LET e == Times(secret, BasePoint(rcre))
        IN  hashed.input = HostString(made.text, rcre, Padded(e))

\* and the signature is one of the string.
SignatureFits ==
    ~ lost /\ stage \in {"finalize", "verify"} =>
        /\ hashed.h # 0
        /\ signature.R = hashed.nonce
        /\ Number(signature.S) = Schnorr(secret, hashed.h, key)
        /\ stage = "verify" => signature.V = Padded(hashed.h)

DaaInv ==
    /\ DaaKinds
    /\ StageFits
    /\ CredentialFits
    /\ StringFits
    /\ SignatureFits
    /\ SignatureIsExact

-----------------------------------------------------------------------------
(* Numbers in buffers. *)

LEMMA BufferOf ==
    ASSUME NEW b \in Buffer
    PROVE  /\ b[1] \in Byte /\ b[2] \in Byte
           /\ b = <<b[1], b[2]>>
           /\ Number(b) \in Nat
  <1>1. b[1] \in Byte /\ b[2] \in Byte /\ b = <<b[1], b[2]>>
    BY DEF Buffer
  <1> DEFINE x == b[1]
             y == b[2]
  <1>2. x \in Nat /\ y \in Nat /\ Base \in Nat
    BY <1>1, OrderIsLarge DEF Byte
  <1> HIDE DEF x, y
  <1>3. x * Base + y \in Nat
    BY <1>2, Z3
  <1>4. Number(b) \in Nat
    BY <1>3 DEF Number, x, y
  <1> QED
    BY <1>1, <1>4

LEMMA PaddedFits ==
    ASSUME NEW n \in Scalar
    PROVE  Padded(n) \in Buffer /\ Number(Padded(n)) = n
  <1> DEFINE q == n \div Base
             r == n % Base
  <1>1. n \in Nat /\ n < Order /\ Order < Base * Base /\ Base \in Nat /\ Base > 1
    BY OrderIsLarge, DaaAssumption DEF Scalar
  <1>2. q \in Int /\ r \in 0 .. (Base - 1) /\ n = Base * q + r
    BY <1>1, RemainderOf
  <1> HIDE DEF q, r
  <1>3. q >= 0
    <2>1. ASSUME q <= -1
          PROVE  FALSE
      <3> DEFINE j == - q - 1
      <3>1. j \in Nat
        BY <1>2, <2>1
      <3>2. Base * q = - (Base * j) - Base
        BY <1>1, <1>2, Z3
      <3> HIDE DEF j
      <3>3. Base * j \in Nat
        BY <1>1, <3>1, Z3
      <3> QED
        BY <1>1, <1>2, <3>2, <3>3
    <2> QED
      BY <1>2, <2>1
  <1>4. q < Base
    <2>1. ASSUME q >= Base
          PROVE  FALSE
      <3> DEFINE j == q - Base
      <3>1. j \in Nat
        BY <1>1, <1>2, <2>1
      <3>2. Base * q = Base * j + Base * Base
        BY <1>1, <1>2, Z3
      <3> HIDE DEF j
      <3>3. Base * j \in Nat /\ Base * Base \in Nat
        BY <1>1, <3>1, Z3
      <3>4. Base * q >= Base * Base
        BY <3>2, <3>3
      <3>5. Base * q \in Int
        BY <1>1, <1>2, ProductIsInt
      <3> DEFINE c == Base * q
                 s == Base * Base
      <3>6. c \in Int /\ s \in Int /\ c >= s
        BY <3>3, <3>4, <3>5
      <3>7. n = c + r
        BY <1>2
      <3>8. Order < s
        BY <1>1
      <3>9. n \in Nat /\ n < Order /\ r \in Nat
        BY <1>1, <1>2
      <3> HIDE DEF c, s
      <3> QED
        BY <3>6, <3>7, <3>8, <3>9, OrderIsLarge
    <2> QED
      BY <1>1, <1>2, <2>1
  <1>5. q \in Byte /\ r \in Byte
    BY <1>1, <1>2, <1>3, <1>4 DEF Byte
  <1>6. <<q, r>> \in Buffer
    BY <1>5 DEF Buffer
  <1>7. q * Base + r = n
    <2>1. q * Base = Base * q
      BY <1>1, <1>2, Z3
    <2> QED
      BY <1>2, <2>1
  <1>8. Padded(n) = <<q, r>>
    BY DEF Padded, q, r
  <1> QED
    BY <1>6, <1>7, <1>8 DEF Number

\* A copy that may end early leaves a buffer, and all of a number that has no leading zero.
LEMMA CopyFits ==
    ASSUME NEW n \in Scalar, NEW b \in Buffer
    PROVE  /\ Over(Unpadded(n), b) \in Buffer
           /\ ~ IsShort(n) => Over(Unpadded(n), b) = Padded(n) /\ Unpadded(n) = Padded(n)
  <1>1. n \in Nat /\ Base \in Nat
    BY OrderIsLarge DEF Scalar
  <1>2. b[1] \in Byte /\ b[2] \in Byte
    BY BufferOf
  <1>3. CASE n < Base
    <2>1. Unpadded(n) = <<n>> /\ n \in Byte
      BY <1>1, <1>3 DEF Unpadded, Byte
    <2>2. Len(<<n>>) = 1 /\ <<n>>[1] = n
      OBVIOUS
    <2>3. Over(Unpadded(n), b) = <<n, b[2]>>
      BY <2>1, <2>2 DEF Over
    <2> QED
      BY <1>2, <1>3, <2>1, <2>3 DEF Buffer, IsShort
  <1>4. CASE ~ (n < Base)
    <2>1. Unpadded(n) = Padded(n) /\ Padded(n) \in Buffer
      BY <1>4, PaddedFits DEF Unpadded
    <2> DEFINE c == Padded(n)
    <2>2. c[1] \in Byte /\ c[2] \in Byte /\ c = <<c[1], c[2]>>
      BY <2>1, BufferOf
    <2> HIDE DEF c
    <2>3. Len(c) = 2
      BY <2>2
    <2>4. Over(c, b) = <<c[1], c[2]>>
      BY <2>3 DEF Over
    <2>5. Over(c, b) = c
      BY <2>2, <2>4
    <2> QED
      BY <1>4, <2>1, <2>5 DEF c, IsShort
  <1> QED
    BY <1>3, <1>4

LEMMA IntoFits ==
    ASSUME NEW n \in Scalar, NEW b \in Buffer
    PROVE  /\ Into(n, b) \in Buffer
           /\ ~ IsShort(n) => Into(n, b) = Padded(n)
  <1>1. ~ IsShort(n) => n # 0
    BY OrderIsLarge DEF IsShort
  <1> QED
    BY <1>1, CopyFits DEF Into

LEMMA UnwrittenFits ==
    ASSUME NEW old \in OldByte
    PROVE  Unwritten(old) \in Buffer
  BY DaaAssumption DEF Unwritten, Buffer, Byte

LEMMA PointInFits ==
    ASSUME NEW b \in Buffer
    PROVE  /\ PointIn(b) \in Scalar
           /\ OnCurve(b) => PointIn(b) = Number(b) /\ Number(b) \in 1 .. (Order - 1)
  BY OrderIsLarge DEF PointIn, OnCurve, Infinity, Scalar

\* The buffer of a number without a leading zero is the one of a point.
LEMMA LongIsOnCurve ==
    ASSUME NEW n \in Scalar, ~ IsShort(n)
    PROVE  OnCurve(Padded(n)) /\ Number(Padded(n)) = n /\ n \in 1 .. (Order - 1)
  <1>1. Number(Padded(n)) = n
    BY PaddedFits
  <1>2. n \in 1 .. (Order - 1)
    BY OrderIsLarge DEF Scalar, IsShort
  <1> QED
    BY <1>1, <1>2 DEF OnCurve

-----------------------------------------------------------------------------
(* Credentials. *)

LEMMA ScalarsOf ==
    /\ \A d \in PrivateKey : d \in Scalar /\ d \in Int /\ d # 0
    /\ \A x \in IssuerX : x \in Scalar /\ x \in Int /\ x # 0
    /\ \A y \in IssuerY : y \in Scalar /\ y \in Int /\ y # 0
    /\ \A r \in Draw : r \in Scalar /\ r \in Int /\ r # 0
    /\ \A h \in HashNumber : h \in Scalar /\ h \in Int
    /\ 0 \in Scalar
    /\ \A n \in Scalar : n \in Int
  BY DaaAssumption, OrderIsLarge DEF Scalar

\* The points that an issuer makes: B = [y]A, D = [q]B and C = [x](A + D).
LEMMA CredentialPointsFit ==
    ASSUME NEW x \in IssuerX, NEW y \in IssuerY, NEW q \in PrivateKey, NEW r \in Draw,
           NEW p, p = CredentialPoints(<<x, y>>, r, q)
    PROVE  /\ \A i \in 1 .. 4 : p[i] \in Scalar
           /\ p[2] = Times(y, p[1])
           /\ p[4] = Times(q, p[2])
           /\ p[3] = Times(x, p[4] + p[1])
  <1> DEFINE d == Times(r * y, q)
  <1>1. x \in Int /\ y \in Int /\ q \in Int /\ r \in Int /\ r \in Scalar
    BY ScalarsOf
  <1>2. r * y \in Int /\ y * r \in Int /\ q * (y * r) \in Int /\ (r * y) * q \in Int
    BY <1>1, ProductIsInt
  <1>3. d \in Scalar /\ d \in Int /\ r + d \in Int
    <2> DEFINE k == r * y
    <2>1. k \in Int
      BY <1>2
    <2> HIDE DEF k
    <2>2. Times(k, q) \in Scalar
      BY <1>1, <2>1, TimesIsScalar
    <2>3. d \in Scalar
      BY <2>2 DEF k
    <2> HIDE DEF d
    <2>4. d \in Int
      BY <2>3, ScalarsOf
    <2> QED
      BY <1>1, <2>3, <2>4
  <1>4. r % Order = r
    BY <1>1, ScalarRemainder
  <1>5. p = <<r % Order, Times(y, r), Times(x, r + d), d>>
    BY DEF CredentialPoints
  <1>6. d = Times(q, Times(y, r))
    <2>1. Times(q, Times(y, r)) = (q * (y * r)) % Order
      BY <1>1, <1>2, TimesRemainder DEF Times
    <2>2. (r * y) * q = q * (y * r)
      BY <1>1, Z3
    <2> QED
      BY <2>1, <2>2 DEF Times
  <1> HIDE DEF d
  <1>7. p[1] = r /\ p[2] = Times(y, r) /\ p[3] = Times(x, r + d) /\ p[4] = d
    BY <1>4, <1>5
  <1>8. p[1] \in Scalar /\ p[2] \in Scalar /\ p[3] \in Scalar /\ p[4] \in Scalar
    BY <1>1, <1>3, <1>7, TimesIsScalar
  <1>9. r + d = d + r
    BY <1>1, <1>3
  <1> QED
    BY <1>6, <1>7, <1>8, <1>9

LEMMA TimesCongruent ==
    ASSUME NEW x \in Int, NEW y \in Int, NEW v \in Int, y % Order = v % Order
    PROVE  Times(x, y) = Times(x, v)
  BY CongruentFactor DEF Times

\* Points that are multiplied by one number are in the same relation.
LEMMA MultipliedPoints ==
    ASSUME NEW l \in Int, NEW x \in Int, NEW u \in Int, NEW v \in Int, v = Times(x, u)
    PROVE  Times(l, v) = Times(x, Times(l, u))
  <1>1. x * u \in Int /\ l * u \in Int /\ l * (x * u) \in Int /\ x * (l * u) \in Int
    BY ProductIsInt
  <1>2. Times(l, v) = (l * (x * u)) % Order
    BY <1>1, TimesRemainder DEF Times
  <1>3. Times(x, Times(l, u)) = (x * (l * u)) % Order
    BY <1>1, TimesRemainder DEF Times
  <1>4. l * (x * u) = x * (l * u)
    BY Z3
  <1> QED
    BY <1>2, <1>3, <1>4

LEMMA MultipliedSum ==
    ASSUME NEW l \in Int, NEW x \in Int, NEW u \in Int, NEW v \in Int,
           NEW s, s = Times(l, u) + Times(l, v), NEW w, w = u + v
    PROVE  Times(x, s) = Times(x, Times(l, w))
  <1>1. l * u \in Int /\ l * v \in Int /\ w \in Int /\ l * w \in Int
    <2>1. w \in Int
      OBVIOUS
    <2> QED
      BY <2>1, ProductIsInt
  <1>2. /\ Times(l, u) % Order = (l * u) % Order
        /\ Times(l, v) % Order = (l * v) % Order
        /\ Times(l, w) % Order = (l * w) % Order
    BY <1>1, TimesRemainder
  <1>3. Times(l, u) \in Scalar /\ Times(l, v) \in Scalar /\ Times(l, w) \in Scalar
    BY <1>1, TimesIsScalar
  <1>4. Times(l, u) \in Int /\ Times(l, v) \in Int /\ Times(l, w) \in Int
    BY <1>3, ScalarsOf, Zenon
  <1>5. s % Order = (l * u + l * v) % Order
    BY <1>1, <1>2, <1>4, CongruentSum
  <1>6. l * w = l * u + l * v
    BY Z3
  <1> DEFINE n == Times(l, w)
  <1>7. s % Order = n % Order
    BY <1>2, <1>5, <1>6
  <1>8. s \in Int /\ n \in Int
    BY <1>4
  <1> HIDE DEF n
  <1>9. Times(x, s) = Times(x, n)
    BY <1>7, <1>8, TimesCongruent
  <1> QED
    BY <1>9 DEF n

\* Points in this relation are a credential if their buffers hold them.
LEMMA BuffersAreCredential ==
    ASSUME NEW x \in IssuerX, NEW y \in IssuerY, NEW q \in PrivateKey, NEW p, NEW c,
           \A i \in 1 .. 4 : p[i] \in Scalar /\ ~ IsShort(p[i]) /\ c[i] = Padded(p[i]),
           p[2] = Times(y, p[1]), p[4] = Times(q, p[2]), p[3] = Times(x, p[4] + p[1])
    PROVE  IsCredential(c, <<x, y>>, q)
  <1>1. \A i \in 1 .. 4 : OnCurve(c[i]) /\ Number(c[i]) = p[i]
    BY LongIsOnCurve
  <1>2. 1 \in 1 .. 4 /\ 2 \in 1 .. 4 /\ 3 \in 1 .. 4 /\ 4 \in 1 .. 4
    OBVIOUS
  <1>3. Number(c[1]) = p[1] /\ Number(c[2]) = p[2] /\ Number(c[3]) = p[3] /\ Number(c[4]) = p[4]
    BY <1>1, <1>2
  <1>4. <<x, y>>[1] = x /\ <<x, y>>[2] = y
    OBVIOUS
  <1> QED
    BY <1>1, <1>3, <1>4 DEF IsCredential

\* What the issuer makes is a credential,
LEMMA CredentialIsMade ==
    ASSUME NEW issuer \in IssuerX \X IssuerY, NEW q \in PrivateKey, NEW r \in Draw,
           NEW old \in OldByte, NEW p, p = CredentialPoints(issuer, r, q),
           \A i \in 1 .. 4 : ~ IsShort(p[i])
    PROVE  IsCredential([i \in 1 .. 4 |-> getBinaryCoordinates(p[i], Unwritten(old))], issuer, q)
  <1> DEFINE c == [i \in 1 .. 4 |-> getBinaryCoordinates(p[i], Unwritten(old))]
  <1>1. PICK x \in IssuerX, y \in IssuerY : issuer = <<x, y>>
    OBVIOUS
  <1>2. /\ \A i \in 1 .. 4 : p[i] \in Scalar
        /\ p[2] = Times(y, p[1])
        /\ p[4] = Times(q, p[2])
        /\ p[3] = Times(x, p[4] + p[1])
    BY <1>1, CredentialPointsFit
  <1>3. \A i \in 1 .. 4 : c[i] = Padded(p[i])
    BY <1>2, IntoFits, UnwrittenFits DEF getBinaryCoordinates
  <1> HIDE DEF c
  <1>4. IsCredential(c, <<x, y>>, q)
    BY <1>2, <1>3, BuffersAreCredential
  <1> QED
    BY <1>1, <1>4 DEF c

\* and stays one as it is randomized.
LEMMA CredentialIsRandomized ==
    ASSUME NEW issuer \in IssuerX \X IssuerY, NEW q \in PrivateKey, NEW l \in Draw \cup {0},
           NEW c \in [1 .. 4 -> Buffer], IsCredential(c, issuer, q),
           \A i \in 1 .. 4 : ~ IsShort(Times(l, PointIn(c[i])))
    PROVE  IsCredential([i \in 1 .. 4 |-> Into(Times(l, PointIn(c[i])), c[i])], issuer, q)
  <1> DEFINE b == [i \in 1 .. 4 |-> Into(Times(l, PointIn(c[i])), c[i])]
             n(i) == PointIn(c[i])
             p == [i \in 1 .. 4 |-> Times(l, n(i))]
  <1>1. PICK x \in IssuerX, y \in IssuerY : issuer = <<x, y>>
    OBVIOUS
  <1>2. l \in Int /\ x \in Int /\ y \in Int /\ q \in Int
    BY ScalarsOf
  <1>3. 1 \in 1 .. 4 /\ 2 \in 1 .. 4 /\ 3 \in 1 .. 4 /\ 4 \in 1 .. 4
    OBVIOUS
  <1>4. \A i \in 1 .. 4 : n(i) = Number(c[i]) /\ n(i) \in Scalar /\ n(i) \in Int
    BY PointInFits, ScalarsOf DEF IsCredential
  <1>5. <<x, y>>[1] = x /\ <<x, y>>[2] = y
    OBVIOUS
  <1>6. /\ n(1) \in Int /\ n(2) \in Int /\ n(3) \in Int /\ n(4) \in Int
        /\ n(2) = Times(y, n(1))
        /\ n(4) = Times(q, n(2))
        /\ n(3) = Times(x, n(4) + n(1))
    BY <1>1, <1>3, <1>4, <1>5 DEF IsCredential
  <1>7. \A i \in 1 .. 4 : /\ p[i] = Times(l, n(i)) /\ p[i] \in Scalar
                          /\ ~ IsShort(p[i]) /\ b[i] = Padded(p[i])
    <2>1. ASSUME NEW i \in 1 .. 4
          PROVE  /\ p[i] = Times(l, n(i)) /\ p[i] \in Scalar
                 /\ ~ IsShort(p[i]) /\ b[i] = Padded(p[i])
      <3>1. p[i] = Times(l, n(i)) /\ b[i] = Into(p[i], c[i]) /\ ~ IsShort(p[i])
        OBVIOUS
      <3>2. p[i] \in Scalar
        BY <1>2, <1>4, <3>1, TimesIsScalar
      <3> QED
        BY <3>1, <3>2, IntoFits
    <2> QED
      BY <2>1
  <1>8. /\ p[1] = Times(l, n(1)) /\ p[2] = Times(l, n(2))
        /\ p[3] = Times(l, n(3)) /\ p[4] = Times(l, n(4))
    BY <1>3, <1>7
  <1> HIDE DEF n, p, b
  <1>9. p[2] = Times(y, p[1]) /\ p[4] = Times(q, p[2])
    BY <1>2, <1>6, <1>8, MultipliedPoints
  <1>10. p[3] = Times(x, p[4] + p[1])
    <2>1. n(4) + n(1) \in Int
      BY <1>6
    <2>2. p[3] = Times(x, Times(l, n(4) + n(1)))
      BY <1>2, <1>6, <1>8, <2>1, MultipliedPoints
    <2> DEFINE s == p[4] + p[1]
               u == n(4)
               v == n(1)
               w == u + v
    <2>3. s = Times(l, u) + Times(l, v) /\ u \in Int /\ v \in Int
      BY <1>6, <1>8
    <2>4. w = u + v
      OBVIOUS
    <2> HIDE DEF s, u, v, w
    <2>5. Times(x, s) = Times(x, Times(l, w))
      BY <1>2, <2>3, <2>4, MultipliedSum
    <2> QED
      BY <2>2, <2>5 DEF s, u, v, w
  <1>11. IsCredential(b, <<x, y>>, q)
    BY <1>7, <1>9, <1>10, BuffersAreCredential
  <1> QED
    BY <1>1, <1>11 DEF b, n

\* The two equations tell the issuers apart: a private part can be divided out of each.
LEMMA CredentialTellsIssuer ==
    ASSUME NEW issuer \in IssuerX \X IssuerY, NEW q \in PrivateKey,
           NEW c \in [1 .. 4 -> Buffer], IsCredential(c, issuer, q)
    PROVE  verify_credential(c) <=> issuer = <<KnownX, KnownY>>
  <1> DEFINE n(i) == PointIn(c[i])
             s == n(4) + n(1)
  <1>1. PICK x \in IssuerX, y \in IssuerY : issuer = <<x, y>>
    OBVIOUS
  <1>2. /\ x \in Scalar /\ y \in Scalar /\ KnownX \in Scalar /\ KnownY \in Scalar
        /\ x \in Int /\ y \in Int /\ KnownX \in Int /\ KnownY \in Int
    BY ScalarsOf, DaaAssumption
  <1>3. 1 \in 1 .. 4 /\ 2 \in 1 .. 4 /\ 3 \in 1 .. 4 /\ 4 \in 1 .. 4
    OBVIOUS
  <1>4. \A i \in 1 .. 4 : n(i) = Number(c[i]) /\ n(i) \in 1 .. (Order - 1) /\ n(i) \in Int
    BY PointInFits, OrderIsLarge DEF IsCredential
  <1>5. <<x, y>>[1] = x /\ <<x, y>>[2] = y
    OBVIOUS
  <1>6. /\ n(1) \in 1 .. (Order - 1) /\ n(3) \in 1 .. (Order - 1)
        /\ n(1) \in Int /\ n(4) \in Int
        /\ n(2) = Times(y, n(1))
        /\ n(3) = Times(x, s)
    BY <1>1, <1>3, <1>4, <1>5 DEF IsCredential
  <1>7. verify_credential(c) <=> Times(KnownY, n(1)) = n(2) /\ Times(KnownX, s) = n(3)
    BY DEF verify_credential
  <1>8. s \in Int
    BY <1>6
  <1> HIDE DEF n, s
  <1>9. Times(KnownY, n(1)) = n(2) => KnownY = y
    BY <1>2, <1>6, Cancel DEF Times
  <1>10. Times(KnownX, s) = n(3) => KnownX = x
    <2> DEFINE w == s % Order
    <2>1. w \in Scalar /\ w \in Int
      BY <1>8, RemainderIsScalar, ScalarsOf
    <2>2. Times(KnownX, s) = Times(KnownX, w) /\ Times(x, s) = Times(x, w)
      BY <1>2, <1>8, TimesRemainder DEF Times
    <2> HIDE DEF w
    <2>3. w # 0
      <3>1. x * 0 = 0
        BY <1>2
      <3>2. Times(x, 0) = 0
        BY <3>1, ScalarsOf, ScalarRemainder DEF Times
      <3> QED
        BY <1>6, <2>2, <3>2
    <2>4. w \in 1 .. (Order - 1)
      BY <2>1, <2>3, OrderIsLarge DEF Scalar
    <2> QED
      BY <1>2, <1>6, <2>2, <2>4, Cancel DEF Times
  <1>11. issuer = <<KnownX, KnownY>> <=> x = KnownX /\ y = KnownY
    BY <1>1
  <1> QED
    BY <1>6, <1>7, <1>9, <1>10, <1>11

-----------------------------------------------------------------------------
(* Signatures. *)

LEMMA SchnorrIsScalar ==
    ASSUME NEW k \in Int, NEW t \in Int, NEW d \in Int
    PROVE  Schnorr(k, t, d) \in Scalar
  <1>1. t * d \in Int
    BY ProductIsInt
  <1>2. k + t * d \in Int
    BY <1>1
  <1> QED
    BY <1>2, RemainderIsScalar DEF Schnorr

\* What a verifier takes for E, [s]B - [t]W, is E just when the point W, which is the
\* product of a key p with B, is the product of the key d that signed.
LEMMA EPrimeTellsKey ==
    ASSUME NEW k \in Scalar, NEW t \in 1 .. (Order - 1), NEW d \in Scalar, NEW p \in Scalar,
           NEW b \in 1 .. (Order - 1), NEW s, s = Schnorr(k, t, d), NEW w, w = Times(p, b)
    PROVE  /\ (s * b - t * w) % Order \in Scalar
           /\ (s * b - t * w) % Order = Times(k, b) <=> d = p
  <1>1. k \in Int /\ t \in Int /\ d \in Int /\ p \in Int /\ b \in Int
    BY ScalarsOf, OrderIsLarge
  <1>2. s \in Scalar /\ s \in Int /\ w \in Scalar /\ w \in Int
    BY <1>1, SchnorrIsScalar, TimesIsScalar, ScalarsOf
  <1> DEFINE g == k + t * d
             h == p * b
             m == g * b - t * h
             u == d * b
  <1>3. g \in Int /\ h \in Int /\ s * b \in Int /\ t * w \in Int /\ u \in Int /\ k * b \in Int
    <2>1. t * d \in Int
      BY <1>1, ProductIsInt
    <2> QED
      BY <1>1, <1>2, <2>1, ProductIsInt
  <1>4. s % Order = g % Order /\ w % Order = h % Order
    BY <1>2, ScalarRemainder DEF Schnorr, Times
  <1>5. m = k * b + t * (u - h)
    BY <1>1, Z3
  <1>6. h = p * b /\ u = d * b
    OBVIOUS
  <1>7. m = g * b - t * h
    OBVIOUS
  <1> HIDE DEF g, h, m, u
  <1>8. g * b \in Int /\ t * h \in Int /\ m \in Int /\ u - h \in Int
    <2>1. g * b \in Int /\ t * h \in Int
      BY <1>1, <1>3, ProductIsInt
    <2> QED
      BY <1>3, <1>7, <2>1
  <1>9. (s * b - t * w) % Order = m % Order
    <2>1. Times(b, s) = Times(b, g) /\ Times(t, w) = Times(t, h)
      BY <1>1, <1>2, <1>3, <1>4, TimesCongruent
    <2>2. b * s = s * b /\ b * g = g * b
      BY <1>1, <1>2, <1>3, Z3
    <2> DEFINE v == s * b
               i == t * w
               j == g * b
               n == t * h
               a == v - i
    <2>3. /\ v \in Int /\ i \in Int /\ j \in Int /\ n \in Int
          /\ v % Order = j % Order /\ i % Order = n % Order
          /\ m = j - n
      BY <1>3, <1>7, <1>8, <2>1, <2>2 DEF Times
    <2> HIDE DEF v, i, j, n
    <2>4. a = v - i
      OBVIOUS
    <2> HIDE DEF a
    <2>5. a % Order = m % Order
      BY <2>3, <2>4, CongruentDifference
    <2> QED
      BY <2>5 DEF a, v, i
  <1>10. (s * b - t * w) % Order \in Scalar
    BY <1>8, <1>9, RemainderIsScalar
  <1>11. ASSUME d = p
         PROVE  m % Order = Times(k, b)
    <2>1. u - h = 0
      BY <1>3, <1>6, <1>11
    <2>2. m = k * b
      BY <1>1, <1>3, <1>5, <2>1
    <2> QED
      BY <2>2 DEF Times
  <1>12. ASSUME m % Order = Times(k, b)
         PROVE  d = p
    <2>1. PICK i \in Int : m = k * b + Order * i
      BY <1>3, <1>8, <1>12, Difference DEF Times
    <2>2. u * t \in Int /\ h * t \in Int /\ t * (u - h) \in Int /\ Order * i \in Int
      BY <1>1, <1>3, <1>8, OrderIsLarge, ProductIsInt
    <2>3. t * (u - h) = Order * i
      BY <1>3, <1>5, <2>1, <2>2
    <2>4. u * t = h * t + t * (u - h)
      BY <1>1, <1>3, Z3
    <2>5. (u * t) % Order = (h * t) % Order
      BY <2>2, <2>3, <2>4, Congruent
    <2> DEFINE x == u % Order
               y == h % Order
    <2>6. x \in Scalar /\ y \in Scalar /\ x \in Int /\ y \in Int
      BY <1>3, RemainderIsScalar, ScalarsOf
    <2>7. x % Order = u % Order /\ y % Order = h % Order
      BY <2>6, ScalarRemainder
    <2> HIDE DEF x, y
    <2>8. Times(t, x) = Times(t, u) /\ Times(t, y) = Times(t, h)
      BY <1>1, <1>3, <2>6, <2>7, TimesCongruent
    <2>9. t * x = x * t /\ t * y = y * t /\ t * u = u * t /\ t * h = h * t
      BY <1>1, <1>3, <2>6, Z3
    <2>10. x = y
      BY <2>5, <2>6, <2>8, <2>9, Cancel DEF Times
    <2>11. (d * b) % Order = (p * b) % Order
      BY <1>6, <2>10 DEF x, y
    <2> QED
      BY <2>11, Cancel
  <1> QED
    BY <1>9, <1>10, <1>11, <1>12

-----------------------------------------------------------------------------
(* The invariant holds at first, and every step keeps it. *)

LEMMA DaaInitInv ==
    DaaInit => DaaInv
  <1> SUFFICES ASSUME DaaInit
               PROVE  DaaInv
    OBVIOUS
  <1>1. 0 \in Byte /\ 0 \in Scalar
    BY OrderIsLarge DEF Byte, Scalar
  <1>2. Unwritten(0) \in Buffer
    BY <1>1 DEF Unwritten, Buffer
  <1>3. credential \in [1 .. 4 -> Buffer] /\ rcre \in [1 .. 4 -> Buffer]
    BY <1>2 DEF DaaInit
  <1>4. signature \in [R : Buffer, S : Buffer, V : Buffer]
    BY <1>2 DEF DaaInit
  <1>5. DaaTypeOK
    BY <1>1, <1>2, <1>3, <1>4 DEF DaaInit, DaaTypeOK
  <1>6. DaaKinds
    BY <1>3, <1>4, <1>5 DEF DaaInit, DaaKinds
  <1> QED
    BY <1>6 DEF DaaInit, DaaInv, StageFits, CredentialFits, StringFits, SignatureFits, Signed,
                SignatureIsExact

LEMMA CreateKeyKeeps ==
    ASSUME DaaInv, NEW use \in {"join", "sign"}, NEW d \in PrivateKey, CreateKey(use, d)
    PROVE  DaaInv'
  <1> USE DEF DaaInv, CreateKey
  <1>1. kind' \in {"join", "sign"} /\ stage' \in {"commit", "issue"}
    OBVIOUS
  <1>2. DaaKinds'
    BY <1>1 DEF DaaKinds, DaaTypeOK
  <1>3. verdict = "none"
    BY DEF StageFits
  <1>4. StageFits'
    BY <1>1, <1>3 DEF StageFits
  <1>5. CredentialFits' /\ StringFits' /\ SignatureFits'
    BY DEF CredentialFits, StringFits, SignatureFits, Signed
  <1>6. SignatureIsExact'
    BY <1>3 DEF SignatureIsExact
  <1> QED
    BY <1>2, <1>4, <1>5, <1>6

LEMMA make_daa_credentialKeeps ==
    ASSUME DaaInv, NEW issuer \in IssuerX \X IssuerY, NEW q \in PrivateKey, NEW r \in Draw,
           NEW old \in OldByte, make_daa_credential(issuer, q, r, old)
    PROVE  DaaInv'
  <1> DEFINE p == CredentialPoints(issuer, r, q)
             c == [i \in 1 .. 4 |-> getBinaryCoordinates(p[i], Unwritten(old))]
  <1>1. /\ stage = "issue"
        /\ credential' = c
        /\ lost' = \E i \in 1 .. 4 : IsShort(p[i])
        /\ made' = [made EXCEPT !.issuer = issuer, !.key = q]
        /\ stage' = "randomize"
        /\ UNCHANGED <<kind, key, rcre, secret, hashed, signature, claim, verdict>>
    BY DEF make_daa_credential
  <1>2. \A i \in 1 .. 4 : p[i] \in Scalar
    <2>1. PICK x \in IssuerX, y \in IssuerY : issuer = <<x, y>>
      OBVIOUS
    <2> QED
      BY <2>1, CredentialPointsFit
  <1>3. c \in [1 .. 4 -> Buffer]
    BY <1>2, IntoFits, UnwrittenFits DEF getBinaryCoordinates
  <1>4. ~ lost' => IsCredential(c, issuer, q)
    BY <1>1, CredentialIsMade
  <1> HIDE DEF p, c
  <1>5. lost' \in BOOLEAN
    BY <1>1, Zenon
  <1>6. /\ made' = [issuer |-> made.issuer', key |-> made.key', text |-> made.text']
        /\ made.issuer' = issuer /\ made.key' = q
    BY <1>1 DEF DaaInv, DaaKinds
  <1>7. DaaKinds'
    <2>1. q \in Scalar
      BY ScalarsOf
    <2> QED
      BY <1>1, <1>3, <1>5, <1>6, <2>1 DEF DaaInv, DaaKinds, DaaTypeOK
  <1>8. StageFits' /\ verdict = "none"
    BY <1>1 DEF DaaInv, StageFits
  <1>9. CredentialFits'
    BY <1>1, <1>4, <1>6 DEF CredentialFits
  <1>10. StringFits' /\ SignatureFits' /\ SignatureIsExact'
    BY <1>1, <1>8 DEF StringFits, SignatureFits, Signed, SignatureIsExact
  <1> QED
    BY <1>7, <1>8, <1>9, <1>10 DEF DaaInv

LEMMA randomizeCredentialKeeps ==
    ASSUME DaaInv, NEW l \in Draw \cup {0}, randomizeCredential(l)
    PROVE  DaaInv'
  <1> DEFINE p(i) == Times(l, PointIn(credential[i]))
             c == [i \in 1 .. 4 |-> Into(p(i), credential[i])]
  <1>1. /\ stage = "randomize"
        /\ rcre' = c
        /\ lost' = (lost \/ \E i \in 1 .. 4 : IsShort(p(i)))
        /\ stage' = "commit"
        /\ UNCHANGED <<kind, key, credential, secret, hashed, signature, made, claim, verdict>>
    BY DEF randomizeCredential
  <1>2. credential \in [1 .. 4 -> Buffer]
    BY DEF DaaInv, DaaKinds
  <1>3. c \in [1 .. 4 -> Buffer]
    <2>1. ASSUME NEW i \in 1 .. 4
          PROVE  Into(p(i), credential[i]) \in Buffer
      <3>1. PointIn(credential[i]) \in Int /\ l \in Int /\ credential[i] \in Buffer
        BY <1>2, PointInFits, ScalarsOf
      <3> QED
        BY <3>1, TimesIsScalar, IntoFits
    <2> QED
      BY <2>1
  <1>4. ~ lost' => IsCredential(c, made.issuer, made.key) /\ made.issuer \in IssuerX \X IssuerY
                   /\ made.key \in PrivateKey
    <2>1. SUFFICES ASSUME ~ lost'
                   PROVE  IsCredential(c, made.issuer, made.key)
                          /\ made.issuer \in IssuerX \X IssuerY /\ made.key \in PrivateKey
      OBVIOUS
    <2>2. ~ lost /\ \A i \in 1 .. 4 : ~ IsShort(p(i))
      BY <1>1, <2>1
    <2>3. /\ made.issuer \in IssuerX \X IssuerY
          /\ made.key \in PrivateKey
          /\ IsCredential(credential, made.issuer, made.key)
      BY <1>1, <2>2 DEF DaaInv, CredentialFits, StageFits
    <2> QED
      BY <1>2, <2>2, <2>3, CredentialIsRandomized
  <1> HIDE DEF p, c
  <1>5. lost' \in BOOLEAN
    BY <1>1, Zenon
  <1>6. DaaKinds'
    BY <1>1, <1>3, <1>5 DEF DaaInv, DaaKinds, DaaTypeOK
  <1>7. StageFits' /\ verdict = "none"
    BY <1>1 DEF DaaInv, StageFits
  <1>8. CredentialFits'
    BY <1>1, <1>4 DEF CredentialFits
  <1>9. StringFits' /\ SignatureFits' /\ SignatureIsExact'
    BY <1>1, <1>7 DEF StringFits, SignatureFits, Signed, SignatureIsExact
  <1> QED
    BY <1>6, <1>7, <1>8, <1>9 DEF DaaInv

\* The point that the TPM commits on.
LEMMA BasePointFits ==
    ASSUME DaaInv, stage # "create", kind = "sign" => OnCurve(rcre[2])
    PROVE  /\ BasePoint(rcre) \in 1 .. (Order - 1)
           /\ BasePoint(rcre) \in Int
  <1>1. rcre[2] \in Buffer
    BY DEF DaaInv, DaaKinds
  <1>2. kind = "sign" => PointIn(rcre[2]) \in 1 .. (Order - 1)
    BY <1>1, PointInFits
  <1>3. kind \in {"join", "sign"}
    BY DEF DaaInv, DaaKinds, DaaTypeOK, StageFits
  <1>4. 1 \in 1 .. (Order - 1)
    BY OrderIsLarge
  <1>5. BasePoint(rcre) \in 1 .. (Order - 1)
    BY <1>2, <1>3, <1>4 DEF BasePoint
  <1> QED
    BY <1>5, OrderIsLarge

LEMMA CommitKeeps ==
    ASSUME DaaInv, NEW r \in Draw, NEW text \in Text, Commit(r, text)
    PROVE  DaaInv'
  <1> DEFINE e == Times(r, BasePoint(rcre))
  <1>1. /\ stage = "commit"
        /\ kind = "sign" => OnCurve(rcre[2])
        /\ secret' = r
        /\ hashed' = [hashed EXCEPT !.input = HostString(text, rcre, Padded(e))]
        /\ lost' = (lost \/ IsShort(e))
        /\ made' = [made EXCEPT !.text = text]
        /\ stage' = "tpmSign"
        /\ UNCHANGED <<kind, key, credential, rcre, signature, claim, verdict>>
    BY DEF Commit
  <1>2. r \in Scalar
    BY ScalarsOf
  <1>3. BasePoint(rcre)' = BasePoint(rcre)
    BY <1>1 DEF BasePoint
  <1>4. HostString(text, rcre, Padded(e))' = HostString(text, rcre, Padded(e))
    BY <1>1, <1>3 DEF HostString
  <1> HIDE DEF e
  <1>5. lost' \in BOOLEAN
    BY <1>1, Zenon
  <1>6. /\ made' = [issuer |-> made.issuer', key |-> made.key', text |-> made.text']
        /\ made.issuer' = made.issuer /\ made.key' = made.key /\ made.text' = text
    BY <1>1 DEF DaaInv, DaaKinds
  <1>7. /\ hashed' = [input |-> hashed.input', nonce |-> hashed.nonce', h |-> hashed.h']
        /\ hashed.input' = HostString(text, rcre, Padded(e)) /\ hashed.h' = hashed.h
    BY <1>1 DEF DaaInv, DaaKinds
  <1>8. DaaKinds'
    BY <1>1, <1>2, <1>5, <1>6, <1>7 DEF DaaInv, DaaKinds, DaaTypeOK
  <1>9. StageFits' /\ verdict = "none"
    BY <1>1 DEF DaaInv, StageFits
  <1>10. CredentialFits'
    BY <1>1, <1>6 DEF DaaInv, CredentialFits
  <1>11. StringFits'
    BY <1>1, <1>3, <1>4, <1>6, <1>7 DEF StringFits, HostString, e
  <1>12. SignatureFits' /\ SignatureIsExact'
    BY <1>1, <1>9 DEF SignatureFits, SignatureIsExact
  <1> QED
    BY <1>8, <1>9, <1>10, <1>11, <1>12 DEF DaaInv

LEMMA CommitRefusedKeeps ==
    ASSUME DaaInv, CommitRefused
    PROVE  DaaInv'
  <1>1. DaaKinds'
    BY DEF DaaInv, CommitRefused, DaaKinds, DaaTypeOK
  <1>2. StageFits' /\ verdict = "none"
    BY DEF DaaInv, CommitRefused, StageFits
  <1>3. CredentialFits' /\ StringFits' /\ SignatureFits' /\ SignatureIsExact'
    BY <1>2 DEF DaaInv, CommitRefused, CredentialFits, StringFits, SignatureFits, Signed,
                SignatureIsExact
  <1> QED
    BY <1>1, <1>2, <1>3 DEF DaaInv

\* A string stays what it is as long as the key, the text and the points do.
LEMMA StringStays ==
    ASSUME UNCHANGED <<kind, key, rcre, secret, made>>, hashed.input' = hashed.input,
           stage \in Signed, lost' \/ ~ lost, StringFits
    PROVE  StringFits'
  <1>1. BasePoint(rcre)' = BasePoint(rcre)
    BY DEF BasePoint
  <1> DEFINE e == Times(secret, BasePoint(rcre))
  <1>2. e' = e
    BY <1>1
  <1>3. HostString(made.text, rcre, Padded(e))' = HostString(made.text, rcre, Padded(e))
    BY <1>2 DEF HostString
  <1>4. StringFits' <=> (~ lost' /\ stage' \in Signed =>
                            hashed.input' = HostString(made.text, rcre, Padded(e))')
    BY DEF StringFits, Signed
  <1>5. ~ lost => hashed.input = HostString(made.text, rcre, Padded(e))
    BY DEF StringFits
  <1> HIDE DEF e
  <1> QED
    BY <1>3, <1>4, <1>5

LEMMA BnSignEcdaaKeeps ==
    ASSUME DaaInv, NEW n \in Draw, NEW t \in HashNumber, NEW old \in OldByte,
           BnSignEcdaa(n, t, old)
    PROVE  DaaInv'
  <1> DEFINE s == Schnorr(secret, t, key)
  <1>1. /\ stage = "tpmSign"
        /\ t # 0
        /\ signature' = [R |-> Over(Unpadded(n), Unwritten(old)),
                         S |-> Padded(s),
                         V |-> Unwritten(old)]
        /\ hashed' = [hashed EXCEPT !.nonce = Unpadded(n), !.h = t]
        /\ lost' = (lost \/ IsShort(n))
        /\ stage' = "finalize"
        /\ UNCHANGED <<kind, key, credential, rcre, secret, made, claim, verdict>>
    BY DEF BnSignEcdaa
  <1>2. key \in Scalar /\ secret \in Scalar /\ t \in Scalar /\ n \in Scalar
    BY <1>1, ScalarsOf DEF DaaInv, DaaKinds, DaaTypeOK, StageFits
  <1>3. s \in Scalar
    BY <1>2, ScalarsOf, SchnorrIsScalar
  <1>4. /\ Over(Unpadded(n), Unwritten(old)) \in Buffer
        /\ ~ IsShort(n) => Over(Unpadded(n), Unwritten(old)) = Unpadded(n)
        /\ Unwritten(old) \in Buffer
        /\ Padded(s) \in Buffer /\ Number(Padded(s)) = s
    BY <1>2, <1>3, CopyFits, UnwrittenFits, PaddedFits
  <1>5. s = Schnorr(secret', t, key')
    BY <1>1
  <1> HIDE DEF s
  <1>6. lost' \in BOOLEAN
    BY <1>1, Zenon
  <1>7. /\ signature' \in [R : Buffer, S : Buffer, V : Buffer]
        /\ signature.R' = Over(Unpadded(n), Unwritten(old))
        /\ signature.S' = Padded(s)
    BY <1>1, <1>4
  <1>8. /\ hashed' = [input |-> hashed.input', nonce |-> hashed.nonce', h |-> hashed.h']
        /\ hashed.input' = hashed.input /\ hashed.nonce' = Unpadded(n) /\ hashed.h' = t
    BY <1>1 DEF DaaInv, DaaKinds
  <1>9. DaaKinds'
    BY <1>1, <1>2, <1>6, <1>7, <1>8 DEF DaaInv, DaaKinds, DaaTypeOK
  <1>10. StageFits' /\ verdict = "none"
    BY <1>1 DEF DaaInv, StageFits
  <1>11. CredentialFits'
    BY <1>1 DEF DaaInv, CredentialFits, Signed
  <1>12. StringFits'
    <2>1. lost' \/ ~ lost
      BY <1>1
    <2> QED
      BY <1>1, <1>8, <2>1, StringStays DEF DaaInv, Signed
  <1>13. SignatureFits'
    BY <1>1, <1>4, <1>5, <1>7, <1>8 DEF SignatureFits
  <1>14. SignatureIsExact'
    BY <1>1, <1>10 DEF SignatureIsExact
  <1> QED
    BY <1>9, <1>10, <1>11, <1>12, <1>13, <1>14 DEF DaaInv

LEMMA daa_finalize_signatureKeeps ==
    ASSUME DaaInv, NEW h \in HashNumber, daa_finalize_signature(h)
    PROVE  DaaInv'
  <1>1. /\ stage = "finalize"
        /\ h \in HashAgain(signature.R, hashed.nonce, hashed.h)
        /\ signature' = [signature EXCEPT !.V = Into(h, @)]
        /\ hashed' = [hashed EXCEPT !.nonce = signature.R, !.h = h]
        /\ lost' = (lost \/ IsShort(h))
        /\ stage' = "verify"
        /\ UNCHANGED <<kind, key, credential, rcre, secret, made, claim, verdict>>
    BY DEF daa_finalize_signature
  <1>2. h \in Scalar
    BY ScalarsOf
  <1>3. /\ signature' \in [R : Buffer, S : Buffer, V : Buffer]
        /\ signature.R' = signature.R
        /\ signature.S' = signature.S
        /\ signature.V' = Into(h, signature.V)
    <2>1. signature \in [R : Buffer, S : Buffer, V : Buffer]
      BY DEF DaaInv, DaaKinds
    <2>2. Into(h, signature.V) \in Buffer
      BY <1>2, <2>1, IntoFits
    <2> QED
      BY <1>1, <2>1, <2>2
  <1>4. /\ hashed' = [input |-> hashed.input', nonce |-> hashed.nonce', h |-> hashed.h']
        /\ hashed.input' = hashed.input /\ hashed.nonce' = signature.R /\ hashed.h' = h
    BY <1>1 DEF DaaInv, DaaKinds
  <1>5. lost' \in BOOLEAN
    BY <1>1, Zenon
  <1>6. DaaKinds'
    BY <1>1, <1>2, <1>3, <1>4, <1>5 DEF DaaInv, DaaKinds, DaaTypeOK
  <1>7. StageFits' /\ verdict = "none"
    BY <1>1 DEF DaaInv, StageFits
  <1>8. CredentialFits'
    BY <1>1 DEF DaaInv, CredentialFits, Signed
  <1>9. StringFits'
    <2>1. lost' \/ ~ lost
      BY <1>1
    <2> QED
      BY <1>1, <1>4, <2>1, StringStays DEF DaaInv, Signed
  <1>10. SignatureFits'
    <2>1. SUFFICES ASSUME ~ lost'
                   PROVE  /\ h # 0
                          /\ signature.R' = hashed.nonce'
                          /\ Number(signature.S') = Schnorr(secret', h, key')
                          /\ signature.V' = Padded(h)
      BY <1>4 DEF SignatureFits
    <2>2. ~ lost /\ ~ IsShort(h)
      BY <1>1, <2>1
    <2>3. hashed.h # 0 /\ signature.R = hashed.nonce
          /\ Number(signature.S) = Schnorr(secret, hashed.h, key)
      BY <1>1, <2>2 DEF DaaInv, SignatureFits
    <2>4. h = hashed.h
      BY <1>1, <2>3 DEF HashAgain
    <2>5. Into(h, signature.V) = Padded(h)
      BY <1>2, <2>2, IntoFits DEF DaaInv, DaaKinds
    <2> QED
      BY <1>1, <1>3, <1>4, <2>3, <2>4, <2>5
  <1>11. SignatureIsExact'
    BY <1>1, <1>7 DEF SignatureIsExact
  <1> QED
    BY <1>6, <1>7, <1>8, <1>9, <1>10, <1>11 DEF DaaInv

\* No two numbers have the same bytes.
LEMMA PaddedTells ==
    ASSUME NEW m \in Scalar, NEW n \in Scalar
    PROVE  Padded(m) = Padded(n) <=> m = n
  <1>1. Number(Padded(m)) = m /\ Number(Padded(n)) = n
    BY PaddedFits
  <1> QED
    BY <1>1

\* What the verifier takes for E is E just when the key that signed is the one of the
\* credential, or the one that is registered.
LEMMA VerifierTellsKey ==
    ASSUME DaaInv, stage = "verify", ~ lost, NEW q \in PrivateKey,
           NEW p, p = IF kind = "join" THEN q ELSE made.key
    PROVE  /\ EPrime(signature, rcre, q) \in Scalar
           /\ Times(secret, BasePoint(rcre)) \in Scalar
           /\ EPrime(signature, rcre, q) = Times(secret, BasePoint(rcre)) <=> key = p
  <1> DEFINE b == BasePoint(rcre)
             w == KeyPoint(rcre, q)
             s == Number(signature.S)
             t == hashed.h
  <1>1. /\ kind \in {"join", "sign"}
        /\ key \in PrivateKey
        /\ secret \in Scalar /\ t \in Scalar
        /\ rcre[2] \in Buffer /\ rcre[4] \in Buffer
    BY DEF DaaInv, DaaKinds, DaaTypeOK, StageFits
  <1>2. kind = "sign" => made.key \in PrivateKey /\ IsCredential(rcre, made.issuer, made.key)
    BY DEF DaaInv, CredentialFits, Signed
  <1>3. kind = "sign" => OnCurve(rcre[2]) /\ OnCurve(rcre[4])
    BY <1>2 DEF IsCredential
  <1>4. b \in 1 .. (Order - 1) /\ b \in Int
    BY <1>3, BasePointFits
  <1>5. p \in PrivateKey
    BY <1>1, <1>2
  <1>6. w = Times(p, b)
    <2>1. CASE kind = "join"
      <3>1. q * 1 = q /\ q \in Scalar /\ q \in Int
        BY ScalarsOf
      <3>2. Times(q, 1) = q
        BY <3>1, ScalarRemainder DEF Times
      <3> QED
        BY <2>1, <3>2 DEF BasePoint, KeyPoint
    <2>2. CASE kind = "sign"
      <3>1. w = Number(rcre[4]) /\ b = Number(rcre[2])
        BY <1>1, <1>3, <2>2, PointInFits DEF BasePoint, KeyPoint
      <3>2. Number(rcre[4]) = Times(made.key, Number(rcre[2]))
        BY <1>2, <2>2 DEF IsCredential
      <3> QED
        BY <2>2, <3>1, <3>2
    <2> QED
      BY <1>1, <2>1, <2>2
  <1>7. t # 0 /\ s = Schnorr(secret, t, key) /\ Number(signature.V) = t
    <2>1. t # 0 /\ s = Schnorr(secret, t, key) /\ signature.V = Padded(t)
      BY DEF DaaInv, SignatureFits
    <2> QED
      BY <1>1, <2>1, PaddedFits
  <1>8. t \in 1 .. (Order - 1)
    BY <1>1, <1>7, OrderIsLarge DEF Scalar
  <1>9. EPrime(signature, rcre, q) = (s * b - t * w) % Order
    BY <1>7 DEF EPrime
  <1>10. key \in Scalar /\ p \in Scalar
    BY <1>1, <1>5, ScalarsOf
  <1>11. Times(secret, b) \in Scalar
    BY <1>1, <1>4, ScalarsOf, TimesIsScalar
  <1> HIDE DEF b, w, s, t
  <1>12. /\ (s * b - t * w) % Order \in Scalar
         /\ (s * b - t * w) % Order = Times(secret, b) <=> key = p
    BY <1>1, <1>4, <1>6, <1>7, <1>8, <1>10, EPrimeTellsKey
  <1> QED
    BY <1>9, <1>11, <1>12 DEF b

LEMMA daa_verify_signatureKeeps ==
    ASSUME DaaInv, NEW text \in Text, NEW q \in PrivateKey, NEW old \in OldByte,
           NEW h \in HashNumber, daa_verify_signature(text, q, old, h)
    PROVE  DaaInv'
  <1> DEFINE ePrime == EPrime(signature, rcre, q)
             input == VerifierString(text, q, rcre, getBinaryCoordinates(ePrime, Unwritten(old)))
             accepts == /\ Into(h, Unwritten(old)) = signature.V
                        /\ kind = "sign" => verify_credential(rcre)
  <1>1. /\ stage = "verify"
        /\ h \in HashAgain(<<signature.R, input>>, <<hashed.nonce, hashed.input>>, hashed.h)
        /\ verdict' = IF accepts THEN "good" ELSE "bad"
        /\ lost' = (lost \/ IsShort(ePrime) \/ IsShort(h))
        /\ claim' = [text |-> text, key |-> q]
        /\ stage' = "verified"
        /\ UNCHANGED <<kind, key, credential, rcre, secret, hashed, signature, made>>
    BY DEF daa_verify_signature
  <1>2. lost' \in BOOLEAN
    BY <1>1, Zenon
  <1>3. verdict' \in {"good", "bad"}
    BY <1>1
  <1>4. DaaKinds'
    BY <1>1, <1>2, <1>3 DEF DaaInv, DaaKinds, DaaTypeOK
  <1>5. StageFits'
    BY <1>1 DEF DaaInv, StageFits
  <1>6. CredentialFits' /\ StringFits' /\ SignatureFits'
    BY <1>1 DEF CredentialFits, StringFits, SignatureFits, Signed
  <1>7. ASSUME ~ lost'
        PROVE  verdict' = "good" <=> AsClaimed'
    <2> DEFINE p == IF kind = "join" THEN q ELSE made.key
               e == Times(secret, BasePoint(rcre))
               t == hashed.h
    <2>1. ~ lost /\ ~ IsShort(ePrime) /\ ~ IsShort(h)
      BY <1>1, <1>7
    <2>2. ePrime \in Scalar /\ e \in Scalar /\ (ePrime = e <=> key = p)
      BY <1>1, <2>1, VerifierTellsKey
    <2>3. /\ kind \in {"join", "sign"}
          /\ key \in Scalar /\ q \in Scalar /\ t \in Scalar /\ h \in Scalar
          /\ rcre \in [1 .. 4 -> Buffer]
      BY <1>1, ScalarsOf DEF DaaInv, DaaKinds, DaaTypeOK, StageFits
    <2>4. getBinaryCoordinates(ePrime, Unwritten(old)) = Padded(ePrime)
      BY <2>1, <2>2, IntoFits, UnwrittenFits DEF getBinaryCoordinates
    <2>5. /\ input = VerifierString(text, q, rcre, Padded(ePrime))
          /\ hashed.input = HostString(made.text, rcre, Padded(e))
      BY <1>1, <2>1, <2>4 DEF DaaInv, StringFits, Signed
    <2>6. Padded(ePrime) = Padded(e) <=> key = p
      BY <2>2, PaddedTells
    <2>7. Padded(q) = Padded(key) <=> q = key
      BY <2>3, PaddedTells
    <2> HIDE DEF ePrime, e
    <2>8. input = hashed.input <=> text = made.text /\ key = p
      <3> HIDE DEF input
      <3>1. CASE kind = "join"
        <4>1. /\ input = <<Padded(q), Padded(ePrime), text>>
              /\ hashed.input = <<Padded(key), Padded(e), made.text>>
          BY <2>5, <3>1 DEF VerifierString, HostString, RegisteredString, daa_prepare_host_str
        <4> QED
          BY <2>6, <2>7, <3>1, <4>1
      <3>2. CASE kind = "sign"
        <4>1. /\ input = <<text, rcre, Padded(ePrime)>>
              /\ hashed.input = <<made.text, rcre, Padded(e)>>
          BY <2>5, <3>2 DEF VerifierString, HostString, concat_data, get_c_str
        <4> QED
          BY <2>6, <3>2, <4>1
      <3> QED
        BY <2>3, <3>1, <3>2
    <2>9. signature.R = hashed.nonce /\ signature.V = Padded(t)
      BY <1>1, <2>1 DEF DaaInv, SignatureFits
    <2> HIDE DEF input
    <2>10. h = t <=> input = hashed.input
      BY <1>1, <2>9 DEF HashAgain
    <2>11. Into(h, Unwritten(old)) = signature.V <=> h = t
      <3>1. Into(h, Unwritten(old)) = Padded(h)
        BY <2>1, <2>3, IntoFits, UnwrittenFits
      <3> QED
        BY <2>3, <2>9, <3>1, PaddedTells
    <2>12. kind = "sign" => (verify_credential(rcre) <=> made.issuer = <<KnownX, KnownY>>)
      <3>1. kind = "sign" => /\ made.issuer \in IssuerX \X IssuerY
                             /\ made.key \in PrivateKey
                             /\ IsCredential(rcre, made.issuer, made.key)
        BY <1>1, <2>1 DEF DaaInv, CredentialFits, Signed
      <3> QED
        BY <2>3, <3>1, CredentialTellsIssuer
    <2>13. verdict' = "good" <=> accepts
      BY <1>1
    <2>14. AsClaimed' <=> /\ made.text = text
                          /\ IF kind = "join" THEN key = q
                             ELSE made.key = key /\ made.issuer = <<KnownX, KnownY>>
      BY <1>1 DEF AsClaimed
    <2> QED
      BY <2>3, <2>8, <2>10, <2>11, <2>12, <2>13, <2>14
  <1>8. SignatureIsExact'
    BY <1>7 DEF SignatureIsExact
  <1> QED
    BY <1>4, <1>5, <1>6, <1>8 DEF DaaInv

LEMMA DaaNextInv ==
    DaaInv /\ [DaaNext]_daaVars => DaaInv'
  <1> SUFFICES ASSUME DaaInv, [DaaNext]_daaVars
               PROVE  DaaInv'
    OBVIOUS
  <1>1. ASSUME NEW d \in PrivateKey, CreateKey("join", d) \/ CreateKey("sign", d)
        PROVE  DaaInv'
    <2>1. "join" \in {"join", "sign"} /\ "sign" \in {"join", "sign"}
      OBVIOUS
    <2> QED
      BY <1>1, <2>1, CreateKeyKeeps
  <1>2. ASSUME NEW issuer \in IssuerX \X IssuerY, NEW q \in PrivateKey, NEW r \in Draw,
               NEW old \in OldByte, make_daa_credential(issuer, q, r, old)
        PROVE  DaaInv'
    BY <1>2, make_daa_credentialKeeps
  <1>3. ASSUME NEW l \in Draw \cup {0}, randomizeCredential(l)
        PROVE  DaaInv'
    BY <1>3, randomizeCredentialKeeps
  <1>4. ASSUME NEW r \in Draw, NEW text \in Text, Commit(r, text)
        PROVE  DaaInv'
    BY <1>4, CommitKeeps
  <1>5. CASE CommitRefused
    BY <1>5, CommitRefusedKeeps
  <1>6. ASSUME NEW n \in Draw, NEW t \in HashNumber, NEW old \in OldByte, BnSignEcdaa(n, t, old)
        PROVE  DaaInv'
    BY <1>6, BnSignEcdaaKeeps
  <1>7. ASSUME NEW h \in HashNumber, daa_finalize_signature(h)
        PROVE  DaaInv'
    BY <1>7, daa_finalize_signatureKeeps
  <1>8. ASSUME NEW text \in Text, NEW q \in PrivateKey, NEW old \in OldByte, NEW h \in HashNumber,
               daa_verify_signature(text, q, old, h)
        PROVE  DaaInv'
    BY <1>8, daa_verify_signatureKeeps
  <1>9. CASE UNCHANGED daaVars
    BY <1>9 DEF daaVars, DaaInv, DaaKinds, DaaTypeOK, StageFits, CredentialFits, StringFits,
                SignatureFits, SignatureIsExact, AsClaimed, BasePoint, HostString
  <1> QED
    BY <1>1, <1>2, <1>3, <1>4, <1>5, <1>6, <1>7, <1>8, <1>9 DEF DaaNext

THEOREM DaaInvariance == DaaSpec => []DaaInv
  <1>1. DaaInit => DaaInv
    BY DaaInitInv
  <1>2. DaaInv /\ [DaaNext]_daaVars => DaaInv'
    BY DaaNextInv
  <1> HIDE DEF DaaInit, DaaNext, DaaInv
  <1> QED
    BY <1>1, <1>2, PTL DEF DaaSpec

\* A number of the group has as many bytes as the buffers have, whatever was left out.
THEOREM DaaTypes == DaaSpec => []DaaTypeOK
  <1>1. DaaInv => DaaTypeOK
    BY DEF DaaInv, DaaKinds
  <1> QED
    BY <1>1, DaaInvariance, PTL

\* Host, TPM, issuer and verifier compute the same, for every prime order and every size of
\* a byte: unless a leading zero was left out, the verifier accepts just the signatures of
\* its text, made with the registered key or with one that the known issuer gave a
\* credential.
THEOREM SignaturesAreExact == DaaSpec => []SignatureIsExact
  <1>1. DaaInv => SignatureIsExact
    BY DEF DaaInv
  <1> QED
    BY <1>1, DaaInvariance, PTL

-----------------------------------------------------------------------------
(* The inductive invariant of Policies: what each note says of what was    *)
(* asserted.                                                               *)

Kind == {"CommandCode", "Locality", "PhysicalPresence", "AuthValue", "CpHash", "NameHash",
         "Template", "DuplicationSelect", "NvWritten"}

\* The arguments of the assertions of a kind.
Arguments(sort) == { a.argument : a \in { b \in asserted : b.kind = sort } }

AssertedTypeOK ==
    /\ \A a \in asserted : a.kind \in Kind
    /\ Arguments("CommandCode") \subseteq Code
    /\ Arguments("Locality") \subseteq SUBSET (NormalLocality \cup ExtendedLocality)
    /\ Arguments("CpHash") \subseteq HashValue
    /\ Arguments("NameHash") \subseteq NameHashes
    /\ Arguments("DuplicationSelect") \subseteq NameHashes
    /\ Arguments("Template") \subseteq TemplateHashes
    /\ Arguments("NvWritten") \subseteq BOOLEAN

\* The code is that of each assertion about it, and there is none without one.
CodeNoted ==
    /\ \A code \in Arguments("CommandCode") : policy.commandCode = code
    /\ Arguments("DuplicationSelect") # {} => policy.commandCode = Duplicate
    /\ policy.commandCode # NoCode =>
          Arguments("CommandCode") # {} \/ Arguments("DuplicationSelect") # {}

\* The localities are those that all assertions have in common.
LocalityNoted ==
    /\ policy.commandLocality = {} <=> Arguments("Locality") = {}
    /\ policy.commandLocality # {} =>
          \A l \in NormalLocality \cup ExtendedLocality :
             l \in policy.commandLocality <=>
                 \A localities \in Arguments("Locality") : l \in localities

PresenceNoted ==
    policy.isPPRequired = TRUE <=> Arguments("PhysicalPresence") # {}

AuthValueNoted ==
    policy.isAuthValueNeeded = TRUE \/ policy.isPasswordNeeded = TRUE
        <=> Arguments("AuthValue") # {}

\* All assertions of a hash agree on it, and the flags tell which there were.
\* A hash that PolicySigned brought may be of a kind that no cpHash is.
HashNoted ==
    /\ \A hash \in Arguments("CpHash") : policy.u1 = hash
    /\ \A hash \in Arguments("NameHash") : policy.u1 = hash
    /\ \A hash \in Arguments("DuplicationSelect") : policy.u1 = hash
    /\ \A hash \in Arguments("Template") : policy.u1 = hash
    /\ policy.isCpHashDefined = TRUE <=> Arguments("CpHash") # {}
    /\ policy.isTemplateSet = TRUE <=> Arguments("Template") # {}
    /\ policy.u1 # EmptyHash =>
          \/ Arguments("CpHash") # {}
          \/ Arguments("Template") # {}
          \/ Arguments("NameHash") # {}
          \/ Arguments("DuplicationSelect") # {}

NvNoted ==
    /\ policy.checkNvWritten = TRUE <=> Arguments("NvWritten") # {}
    /\ \A writtenSet \in Arguments("NvWritten") : policy.nvWrittenState = writtenSet

ClosedIsEmpty == policy.open = FALSE => asserted = {}

PoliciesInv ==
    /\ PoliciesTypeOK
    /\ AssertedTypeOK
    /\ CodeNoted
    /\ LocalityNoted
    /\ PresenceNoted
    /\ AuthValueNoted
    /\ HashNoted
    /\ NvNoted
    /\ ClosedIsEmpty
-----------------------------------------------------------------------------
(* Hashes and arguments.                                                   *)

USE PoliciesAssumption

LEMMA HashesDiffer ==
    /\ \A c \in CpHashes : c \notin NameHashes /\ c \notin TemplateHashes /\ c # EmptyHash
    /\ \A n \in NameHashes : n \notin TemplateHashes /\ n # EmptyHash
    /\ \A t \in TemplateHashes : t # EmptyHash
  <1>1. \A code, names, parameters, others :
           /\ <<"cpHash", code, names, parameters>> # <<"nameHash", others>>
           /\ <<"cpHash", code, names, parameters>> # <<"templateHash", others>>
           /\ <<"cpHash", code, names, parameters>> # <<>>
    OBVIOUS
  <1>2. \A names, others :
           /\ <<"nameHash", names>> # <<"templateHash", others>>
           /\ <<"nameHash", names>> # <<>>
           /\ <<"templateHash", names>> # <<>>
    OBVIOUS
  <1> QED
    BY <1>1, <1>2 DEF CpHashes, NameHashes, TemplateHashes, EmptyHash

LEMMA HashOfUse ==
    ASSUME NEW use \in Use
    PROVE  /\ CpHash(use) \in CpHashes
           /\ NameHash(use) \in NameHashes
           /\ TemplateHash(use) \in TemplateHashes
  BY DEF Use, CpHash, NameHash, TemplateHash, CpHashes, NameHashes, TemplateHashes

\* What a policy session may note.
Notes ==
    [open : BOOLEAN, commandCode : Code \cup {NoCode},
     commandLocality : SUBSET (NormalLocality \cup ExtendedLocality),
     isPPRequired : BOOLEAN, isAuthValueNeeded : BOOLEAN, isPasswordNeeded : BOOLEAN,
     u1 : HashValue \cup {EmptyHash}, isCpHashDefined : BOOLEAN, isTemplateSet : BOOLEAN,
     checkNvWritten : BOOLEAN, nvWrittenState : BOOLEAN]

\* A note that is set or cleared leaves notes.
LEMMA NoteChanges ==
    ASSUME NEW p \in Notes, NEW v \in BOOLEAN
    PROVE  /\ [p EXCEPT !.isAuthValueNeeded = v] \in Notes
           /\ [p EXCEPT !.isPasswordNeeded = v] \in Notes
           /\ [p EXCEPT !.checkNvWritten = v] \in Notes
           /\ [p EXCEPT !.nvWrittenState = v] \in Notes
  <1>1. [p EXCEPT !.isAuthValueNeeded = v] \in Notes
    BY DEF Notes
  <1>2. [p EXCEPT !.isPasswordNeeded = v] \in Notes
    BY DEF Notes
  <1>3. [p EXCEPT !.checkNvWritten = v] \in Notes
    BY DEF Notes
  <1>4. [p EXCEPT !.nvWrittenState = v] \in Notes
    BY DEF Notes
  <1> QED
    BY <1>1, <1>2, <1>3, <1>4

\* An assertion adds its argument to those of its kind.
LEMMA AssertAdds ==
    ASSUME NEW sort, NEW argument,
           asserted' = asserted \cup {Assertion(sort, argument)}
    PROVE  /\ \A k : k # sort => Arguments(k)' = Arguments(k)
           /\ Arguments(sort)' = Arguments(sort) \cup {argument}
  <1>1. \A k : Arguments(k)' = { a.argument : a \in { b \in asserted' : b.kind = k } }
    BY DEF Arguments
  <1>2. /\ Assertion(sort, argument).kind = sort
        /\ Assertion(sort, argument).argument = argument
    BY DEF Assertion
  <1>3. \A k : k # sort => { b \in asserted' : b.kind = k } = { b \in asserted : b.kind = k }
    BY <1>2
  <1>4. { b \in asserted' : b.kind = sort } =
            { b \in asserted : b.kind = sort } \cup {Assertion(sort, argument)}
    BY <1>2
  <1>5. \A k : k # sort => Arguments(k)' = Arguments(k)
    BY <1>1, <1>3 DEF Arguments
  <1>6. \A x : x \in Arguments(sort)' <=> x \in Arguments(sort) \cup {argument}
    <2>1. Arguments(sort)' = { a.argument : a \in { b \in asserted : b.kind = sort }
                                                     \cup {Assertion(sort, argument)} }
      BY <1>1, <1>4
    <2> QED
      BY <2>1, <1>2 DEF Arguments
  <1> QED
    BY <1>5, <1>6

\* Everything asserted holds, kind by kind.
KindHolds(sort, use) ==
    /\ sort = "CommandCode" => \A code \in Arguments(sort) : use.code = code
    /\ sort = "Locality" => \A localities \in Arguments(sort) : use.locality \in localities
    /\ sort = "PhysicalPresence" /\ Arguments(sort) # {} => use.physicalPresence = TRUE
    /\ sort = "AuthValue" /\ Arguments(sort) # {} => use.authValueGiven = TRUE
    /\ sort = "CpHash" => \A hash \in Arguments(sort) : CpHash(use) = hash
    /\ sort = "NameHash" => \A hash \in Arguments(sort) : NameHash(use) = hash
    /\ sort = "Template" =>
          \A hash \in Arguments(sort) : use.code \in CreateCode /\ TemplateHash(use) = hash
    /\ sort = "DuplicationSelect" =>
          \A hash \in Arguments(sort) : use.code = Duplicate /\ NameHash(use) = hash
    /\ sort = "NvWritten" =>
          \A writtenSet \in Arguments(sort) :
             use.nvIndex = IF writtenSet THEN "WRITTEN" ELSE "UNWRITTEN"

\* AssertionHolds, one kind at a time.
LEMMA HoldsOfKind ==
    ASSUME NEW a, NEW use
    PROVE  /\ a.kind = "CommandCode" => (AssertionHolds(a, use) <=> use.code = a.argument)
           /\ a.kind = "Locality" => (AssertionHolds(a, use) <=> use.locality \in a.argument)
           /\ a.kind = "PhysicalPresence" => (AssertionHolds(a, use) <=> use.physicalPresence)
           /\ a.kind = "AuthValue" => (AssertionHolds(a, use) <=> use.authValueGiven)
           /\ a.kind = "CpHash" => (AssertionHolds(a, use) <=> CpHash(use) = a.argument)
           /\ a.kind = "NameHash" => (AssertionHolds(a, use) <=> NameHash(use) = a.argument)
           /\ a.kind = "Template" =>
                 (AssertionHolds(a, use) <=>
                     use.code \in CreateCode /\ TemplateHash(use) = a.argument)
           /\ a.kind = "DuplicationSelect" =>
                 (AssertionHolds(a, use) <=>
                     use.code = Duplicate /\ NameHash(use) = a.argument)
           /\ a.kind = "NvWritten" =>
                 (AssertionHolds(a, use) <=>
                     use.nvIndex = IF a.argument THEN "WRITTEN" ELSE "UNWRITTEN")
  <1>1. CASE a.kind = "CommandCode"
    BY <1>1 DEF AssertionHolds
  <1>2. CASE a.kind = "Locality"
    BY <1>2 DEF AssertionHolds
  <1>3. CASE a.kind = "PhysicalPresence"
    BY <1>3 DEF AssertionHolds
  <1>4. CASE a.kind = "AuthValue"
    BY <1>4 DEF AssertionHolds
  <1>5. CASE a.kind = "CpHash"
    BY <1>5 DEF AssertionHolds
  <1>6. CASE a.kind = "NameHash"
    BY <1>6 DEF AssertionHolds
  <1>7. CASE a.kind = "Template"
    BY <1>7 DEF AssertionHolds
  <1>8. CASE a.kind = "DuplicationSelect"
    BY <1>8 DEF AssertionHolds
  <1>9. CASE a.kind = "NvWritten"
    BY <1>9 DEF AssertionHolds
  <1> QED
    BY <1>1, <1>2, <1>3, <1>4, <1>5, <1>6, <1>7, <1>8, <1>9

LEMMA HoldsByKind ==
    ASSUME AssertedTypeOK, NEW use \in Use
    PROVE  (\A a \in asserted : AssertionHolds(a, use)) <=>
              \A sort \in Kind : KindHolds(sort, use)
  <1>1. \A a \in asserted : a.kind \in Kind /\ a.argument \in Arguments(a.kind)
    BY DEF AssertedTypeOK, Arguments
  <1>2. ASSUME NEW sort \in Kind
        PROVE  \A x \in Arguments(sort) : \E a \in asserted : a.kind = sort /\ a.argument = x
    BY DEF Arguments
  <1>3. use.physicalPresence \in BOOLEAN /\ use.authValueGiven \in BOOLEAN
    BY DEF Use
  <1>4. ASSUME NEW sort \in Kind
        PROVE  KindHolds(sort, use) <=>
                  \A a \in asserted : a.kind = sort => AssertionHolds(a, use)
    <2>1. CASE sort = "CommandCode"
      BY <2>1, <1>1, <1>2, HoldsOfKind DEF KindHolds
    <2>2. CASE sort = "Locality"
      BY <2>2, <1>1, <1>2, HoldsOfKind DEF KindHolds
    <2>3. CASE sort = "PhysicalPresence"
      BY <2>3, <1>1, <1>2, <1>3, HoldsOfKind DEF KindHolds
    <2>4. CASE sort = "AuthValue"
      BY <2>4, <1>1, <1>2, <1>3, HoldsOfKind DEF KindHolds
    <2>5. CASE sort = "CpHash"
      BY <2>5, <1>1, <1>2, HoldsOfKind DEF KindHolds
    <2>6. CASE sort = "NameHash"
      BY <2>6, <1>1, <1>2, HoldsOfKind DEF KindHolds
    <2>7. CASE sort = "Template"
      BY <2>7, <1>1, <1>2, HoldsOfKind DEF KindHolds
    <2>8. CASE sort = "DuplicationSelect"
      BY <2>8, <1>1, <1>2, HoldsOfKind DEF KindHolds
    <2>9. CASE sort = "NvWritten"
      BY <2>9, <1>1, <1>2, HoldsOfKind DEF KindHolds
    <2> QED
      BY <2>1, <2>2, <2>3, <2>4, <2>5, <2>6, <2>7, <2>8, <2>9 DEF Kind
  <1> QED
    BY <1>1, <1>4

-----------------------------------------------------------------------------
(* What each note allows is what its assertions ask for.                   *)

LEMMA CodesAgree ==
    ASSUME AssertedTypeOK, CodeNoted, NEW use \in Use
    PROVE  (IF policy.commandCode = NoCode THEN use.role = "USER" ELSE use.code = policy.commandCode)
              <=> /\ \A code \in Arguments("CommandCode") : use.code = code
                  /\ Arguments("DuplicationSelect") # {} => use.code = Duplicate
                  /\ use.role = "ADMIN" =>
                        Arguments("CommandCode") # {} \/ Arguments("DuplicationSelect") # {}
  <1>1. use.role \in {"USER", "ADMIN"}
    BY DEF Use
  <1>2. CASE policy.commandCode = NoCode
    BY <1>1, <1>2 DEF CodeNoted, AssertedTypeOK
  <1>3. CASE policy.commandCode # NoCode
    BY <1>3 DEF CodeNoted
  <1> QED
    BY <1>2, <1>3

LEMMA HashesAgree ==
    ASSUME PoliciesInv, NEW use \in Use
    PROVE  U1Holds(use)
              <=> /\ \A hash \in Arguments("CpHash") : CpHash(use) = hash
                  /\ \A hash \in Arguments("NameHash") : NameHash(use) = hash
                  /\ \A hash \in Arguments("Template") :
                        use.code \in CreateCode /\ TemplateHash(use) = hash
                  /\ \A hash \in Arguments("DuplicationSelect") : NameHash(use) = hash
  <1> DEFINE Agreed == /\ \A hash \in Arguments("CpHash") : CpHash(use) = hash
                       /\ \A hash \in Arguments("NameHash") : NameHash(use) = hash
                       /\ \A hash \in Arguments("Template") :
                             use.code \in CreateCode /\ TemplateHash(use) = hash
                       /\ \A hash \in Arguments("DuplicationSelect") : NameHash(use) = hash
  <1>1. /\ CpHash(use) \in CpHashes
        /\ NameHash(use) \in NameHashes
        /\ TemplateHash(use) \in TemplateHashes
    BY HashOfUse
  <1>2. /\ AssertedTypeOK
        /\ HashNoted
        /\ policy.isCpHashDefined \in BOOLEAN
        /\ policy.isTemplateSet \in BOOLEAN
    BY DEF PoliciesInv, PoliciesTypeOK
  <1>3. CASE policy.u1 = EmptyHash
    <2>1. EmptyHash \notin HashValue
      BY HashesDiffer DEF HashValue
    <2>2. Agreed
      BY <1>2, <1>3, <2>1 DEF HashNoted, AssertedTypeOK, HashValue
    <2>3. U1Holds(use)
      BY <1>3 DEF U1Holds
    <2> QED
      BY <2>2, <2>3
  <1>4. CASE policy.u1 # EmptyHash /\ policy.isCpHashDefined
    <2>1. U1Holds(use) <=> policy.u1 = CpHash(use)
      BY <1>4 DEF U1Holds
    <2>2. Agreed => policy.u1 = CpHash(use)
      BY <1>2, <1>4 DEF HashNoted
    <2>3. policy.u1 = CpHash(use) => Agreed
      BY <1>1, <1>2, HashesDiffer DEF HashNoted, AssertedTypeOK
    <2> QED
      BY <2>1, <2>2, <2>3
  <1>5. CASE policy.u1 # EmptyHash /\ ~ policy.isCpHashDefined /\ policy.isTemplateSet
    <2>1. U1Holds(use) <=> use.code \in CreateCode /\ policy.u1 = TemplateHash(use)
      BY <1>5 DEF U1Holds
    <2>2. PICK hash \in Arguments("Template") : policy.u1 = hash
      BY <1>2, <1>5 DEF HashNoted
    <2>3. /\ Arguments("CpHash") = {}
          /\ Arguments("NameHash") = {}
          /\ Arguments("DuplicationSelect") = {}
      BY <1>2, <1>5, <2>2, HashesDiffer DEF HashNoted, AssertedTypeOK
    <2> QED
      BY <1>2, <2>1, <2>2, <2>3 DEF HashNoted
  <1>6. CASE policy.u1 # EmptyHash /\ ~ policy.isCpHashDefined /\ ~ policy.isTemplateSet
    <2>1. U1Holds(use) <=> policy.u1 = NameHash(use)
      BY <1>6 DEF U1Holds
    <2>2. /\ Arguments("CpHash") = {}
          /\ Arguments("Template") = {}
          /\ Arguments("NameHash") # {} \/ Arguments("DuplicationSelect") # {}
      BY <1>2, <1>6 DEF HashNoted
    <2> QED
      BY <1>2, <2>1, <2>2 DEF HashNoted
  <1> QED
    BY <1>3, <1>4, <1>5, <1>6

LEMMA LocalitiesAgree ==
    ASSUME LocalityNoted, NEW use \in Use
    PROVE  (policy.commandLocality # {} => use.locality \in policy.commandLocality)
              <=> \A localities \in Arguments("Locality") : use.locality \in localities
  <1>1. use.locality \in NormalLocality \cup ExtendedLocality
    BY DEF Use
  <1> QED
    BY <1>1 DEF LocalityNoted

LEMMA NvAgrees ==
    ASSUME PoliciesInv, NEW use \in Use
    PROVE  (policy.checkNvWritten =>
               use.nvIndex = IF policy.nvWrittenState THEN "WRITTEN" ELSE "UNWRITTEN")
              <=> \A writtenSet \in Arguments("NvWritten") :
                     use.nvIndex = IF writtenSet THEN "WRITTEN" ELSE "UNWRITTEN"
  <1>1. policy.checkNvWritten \in BOOLEAN
    BY DEF PoliciesInv, PoliciesTypeOK
  <1> QED
    BY <1>1 DEF PoliciesInv, NvNoted

LEMMA NotesAreExact == PoliciesInv => PolicyIsExact
  <1> SUFFICES ASSUME PoliciesInv, policy.open, NEW use \in Use
               PROVE  CheckPolicyAuthSessionNotes(use) <=>
                         /\ \A a \in asserted : AssertionHolds(a, use)
                         /\ use.role = "ADMIN" =>
                               \E a \in asserted : a.kind \in {"CommandCode", "DuplicationSelect"}
                         /\ use.code = PolicySecret => \E a \in asserted : a.kind = "AuthValue"
    BY DEF PolicyIsExact
  <1>1. \A k : Arguments(k) # {} <=> \E a \in asserted : a.kind = k
    BY DEF Arguments
  <1>2. (\A a \in asserted : AssertionHolds(a, use)) <=> \A sort \in Kind : KindHolds(sort, use)
    BY HoldsByKind DEF PoliciesInv
  <1>3. (\A sort \in Kind : KindHolds(sort, use)) <=>
           /\ \A code \in Arguments("CommandCode") : use.code = code
           /\ \A localities \in Arguments("Locality") : use.locality \in localities
           /\ Arguments("PhysicalPresence") # {} => use.physicalPresence = TRUE
           /\ Arguments("AuthValue") # {} => use.authValueGiven = TRUE
           /\ \A hash \in Arguments("CpHash") : CpHash(use) = hash
           /\ \A hash \in Arguments("NameHash") : NameHash(use) = hash
           /\ \A hash \in Arguments("Template") :
                 use.code \in CreateCode /\ TemplateHash(use) = hash
           /\ \A hash \in Arguments("DuplicationSelect") :
                 use.code = Duplicate /\ NameHash(use) = hash
           /\ \A writtenSet \in Arguments("NvWritten") :
                 use.nvIndex = IF writtenSet THEN "WRITTEN" ELSE "UNWRITTEN"
    BY DEF KindHolds, Kind
  <1>4. /\ policy.isPPRequired \in BOOLEAN
        /\ policy.isAuthValueNeeded \in BOOLEAN
        /\ policy.isPasswordNeeded \in BOOLEAN
        /\ use.physicalPresence \in BOOLEAN
        /\ use.authValueGiven \in BOOLEAN
    BY DEF PoliciesInv, PoliciesTypeOK, Use
  <1>5. (policy.isPPRequired => use.physicalPresence)
            <=> (Arguments("PhysicalPresence") # {} => use.physicalPresence = TRUE)
    BY <1>4 DEF PoliciesInv, PresenceNoted
  <1>6. /\ policy.isAuthValueNeeded \/ policy.isPasswordNeeded <=> Arguments("AuthValue") # {}
        /\ use.authValueGiven <=> use.authValueGiven = TRUE
    BY <1>4 DEF PoliciesInv, AuthValueNoted
  <1>7. CheckPolicyAuthSessionNotes(use) <=>
           /\ use.code = PolicySecret => Arguments("AuthValue") # {}
           /\ \A code \in Arguments("CommandCode") : use.code = code
           /\ Arguments("DuplicationSelect") # {} => use.code = Duplicate
           /\ use.role = "ADMIN" =>
                 Arguments("CommandCode") # {} \/ Arguments("DuplicationSelect") # {}
           /\ \A localities \in Arguments("Locality") : use.locality \in localities
           /\ Arguments("PhysicalPresence") # {} => use.physicalPresence = TRUE
           /\ U1Holds(use)
           /\ \A writtenSet \in Arguments("NvWritten") :
                 use.nvIndex = IF writtenSet THEN "WRITTEN" ELSE "UNWRITTEN"
           /\ Arguments("AuthValue") # {} => use.authValueGiven = TRUE
    BY <1>5, <1>6, CodesAgree, LocalitiesAgree, NvAgrees
       DEF CheckPolicyAuthSessionNotes, PoliciesInv
  <1> QED
    BY <1>1, <1>2, <1>3, <1>7, HashesAgree

-----------------------------------------------------------------------------
(* The steps.                                                              *)

\* Notes that a step leaves alone, as it does the assertions they are about.
CodeUnchanged ==
    /\ policy'.commandCode = policy.commandCode
    /\ Arguments("CommandCode")' = Arguments("CommandCode")
    /\ Arguments("DuplicationSelect")' = Arguments("DuplicationSelect")

LocalityUnchanged ==
    /\ policy'.commandLocality = policy.commandLocality
    /\ Arguments("Locality")' = Arguments("Locality")

PresenceUnchanged ==
    /\ policy'.isPPRequired = policy.isPPRequired
    /\ Arguments("PhysicalPresence")' = Arguments("PhysicalPresence")

AuthValueUnchanged ==
    /\ policy'.isAuthValueNeeded = policy.isAuthValueNeeded
    /\ policy'.isPasswordNeeded = policy.isPasswordNeeded
    /\ Arguments("AuthValue")' = Arguments("AuthValue")

HashUnchanged ==
    /\ policy'.u1 = policy.u1
    /\ policy'.isCpHashDefined = policy.isCpHashDefined
    /\ policy'.isTemplateSet = policy.isTemplateSet
    /\ Arguments("CpHash")' = Arguments("CpHash")
    /\ Arguments("NameHash")' = Arguments("NameHash")
    /\ Arguments("Template")' = Arguments("Template")
    /\ Arguments("DuplicationSelect")' = Arguments("DuplicationSelect")

NvUnchanged ==
    /\ policy'.checkNvWritten = policy.checkNvWritten
    /\ policy'.nvWrittenState = policy.nvWrittenState
    /\ Arguments("NvWritten")' = Arguments("NvWritten")

LEMMA NotesStay ==
    /\ CodeNoted /\ CodeUnchanged => CodeNoted'
    /\ LocalityNoted /\ LocalityUnchanged => LocalityNoted'
    /\ PresenceNoted /\ PresenceUnchanged => PresenceNoted'
    /\ AuthValueNoted /\ AuthValueUnchanged => AuthValueNoted'
    /\ HashNoted /\ HashUnchanged => HashNoted'
    /\ NvNoted /\ NvUnchanged => NvNoted'
  <1>1. CodeNoted /\ CodeUnchanged => CodeNoted'
    BY DEF CodeNoted, CodeUnchanged
  <1>2. LocalityNoted /\ LocalityUnchanged => LocalityNoted'
    BY DEF LocalityNoted, LocalityUnchanged
  <1>3. PresenceNoted /\ PresenceUnchanged => PresenceNoted'
    BY DEF PresenceNoted, PresenceUnchanged
  <1>4. AuthValueNoted /\ AuthValueUnchanged => AuthValueNoted'
    BY DEF AuthValueNoted, AuthValueUnchanged
  <1>5. HashNoted /\ HashUnchanged => HashNoted'
    BY DEF HashNoted, HashUnchanged
  <1>6. NvNoted /\ NvUnchanged => NvNoted'
    BY DEF NvNoted, NvUnchanged
  <1> QED
    BY <1>1, <1>2, <1>3, <1>4, <1>5, <1>6

\* The code, which has to be that of the assertions before.
LEMMA PolicyCommandCodeStep ==
    ASSUME PoliciesInv,
           NEW code \in Code,
           TPM2_PolicyCommandCode(code)
    PROVE  PoliciesInv'
  <1> USE DEF PoliciesInv
  <1>1. /\ policy.open /\ policy' = [policy EXCEPT !.commandCode = code]
        /\ asserted' = asserted \cup {Assertion("CommandCode", code)}
    BY DEF TPM2_PolicyCommandCode, Assert
  <1>2. /\ \A k : k # "CommandCode" => Arguments(k)' = Arguments(k)
        /\ Arguments("CommandCode")' = Arguments("CommandCode") \cup {code}
    BY <1>1, AssertAdds
  <1>3. PoliciesTypeOK' /\ ClosedIsEmpty'
    <2>1. PoliciesTypeOK /\ policy.open
      BY <1>1
    <2> HIDE DEF PoliciesInv
    <2>2. PoliciesTypeOK'
      BY <1>1, <2>1 DEF PoliciesTypeOK
    <2>3. ClosedIsEmpty'
      BY <1>1, <2>1 DEF PoliciesTypeOK, ClosedIsEmpty
    <2> QED
      BY <2>2, <2>3
  <1>4. AssertedTypeOK'
    BY <1>1, <1>2 DEF AssertedTypeOK, Assertion, Kind, HashValue
  <1>5. /\ LocalityUnchanged
        /\ PresenceUnchanged
        /\ AuthValueUnchanged
        /\ HashUnchanged
        /\ NvUnchanged
    BY <1>1, <1>2
       DEF PoliciesTypeOK, LocalityUnchanged, PresenceUnchanged, AuthValueUnchanged,
       HashUnchanged, NvUnchanged
  <1>6. CodeNoted'
    <2>1. /\ policy.commandCode = NoCode \/ policy.commandCode = code
          /\ policy.commandCode' = code
      BY <1>1 DEF TPM2_PolicyCommandCode, PoliciesTypeOK
    <2>2. /\ Arguments("DuplicationSelect")' = Arguments("DuplicationSelect")
          /\ Arguments("CommandCode")' = Arguments("CommandCode") \cup {code}
      BY <1>2
    <2>3. \A c \in Arguments("CommandCode") : c = code
      BY <2>1 DEF CodeNoted, AssertedTypeOK, NoCode
    <2>4. Arguments("DuplicationSelect") # {} => code = Duplicate
      BY <2>1 DEF CodeNoted, NoCode
    <2> QED
      BY <2>1, <2>2, <2>3, <2>4 DEF CodeNoted
  <1> QED
    BY <1>3, <1>4, <1>5, <1>6, NotesStay

\* The localities that are left.
LEMMA PolicyLocalityStep ==
    ASSUME PoliciesInv,
           NEW localities \in SUBSET (NormalLocality \cup ExtendedLocality),
           TPM2_PolicyLocality(localities)
    PROVE  PoliciesInv'
  <1> USE DEF PoliciesInv
  <1>1. /\ policy.open /\ policy' = [policy EXCEPT !.commandLocality = LocalityLeft(localities)]
        /\ asserted' = asserted \cup {Assertion("Locality", localities)}
    BY DEF TPM2_PolicyLocality, Assert
  <1>2. /\ \A k : k # "Locality" => Arguments(k)' = Arguments(k)
        /\ Arguments("Locality")' = Arguments("Locality") \cup {localities}
    BY <1>1, AssertAdds
  <1>3. /\ LocalityLeft(localities) # {}
        /\ LocalityLeft(localities) \subseteq localities
        /\ policy.commandLocality = {} => LocalityLeft(localities) = localities
        /\ policy.commandLocality # {} =>
              LocalityLeft(localities) = policy.commandLocality \cap localities
    BY DEF TPM2_PolicyLocality, LocalityLeft
  <1>4. PoliciesTypeOK' /\ ClosedIsEmpty'
    <2>1. PoliciesTypeOK /\ policy.open
      BY <1>1
    <2> HIDE DEF PoliciesInv
    <2>2. PoliciesTypeOK'
      BY <1>1, <1>3, <2>1 DEF PoliciesTypeOK
    <2>3. ClosedIsEmpty'
      BY <1>1, <2>1 DEF PoliciesTypeOK, ClosedIsEmpty
    <2> QED
      BY <2>2, <2>3
  <1>5. AssertedTypeOK'
    BY <1>1, <1>2 DEF AssertedTypeOK, Assertion, Kind, HashValue
  <1>6. /\ CodeUnchanged
        /\ PresenceUnchanged
        /\ AuthValueUnchanged
        /\ HashUnchanged
        /\ NvUnchanged
    BY <1>1, <1>2
       DEF PoliciesTypeOK, CodeUnchanged, PresenceUnchanged, AuthValueUnchanged, HashUnchanged,
       NvUnchanged
  <1>7. LocalityNoted'
    BY <1>1, <1>2, <1>3 DEF PoliciesTypeOK, LocalityNoted
  <1> QED
    BY <1>4, <1>5, <1>6, <1>7, NotesStay

\* Presence.
LEMMA PolicyPhysicalPresenceStep ==
    ASSUME PoliciesInv,
           TPM2_PolicyPhysicalPresence
    PROVE  PoliciesInv'
  <1> USE DEF PoliciesInv
  <1>1. /\ policy.open /\ policy' = [policy EXCEPT !.isPPRequired = TRUE]
        /\ asserted' = asserted \cup {Assertion("PhysicalPresence", TRUE)}
    BY DEF TPM2_PolicyPhysicalPresence, Assert
  <1>2. /\ \A k : k # "PhysicalPresence" => Arguments(k)' = Arguments(k)
        /\ Arguments("PhysicalPresence")' = Arguments("PhysicalPresence") \cup {TRUE}
    BY <1>1, AssertAdds
  <1>3. PoliciesTypeOK' /\ ClosedIsEmpty'
    <2>1. PoliciesTypeOK /\ policy.open
      BY <1>1
    <2> HIDE DEF PoliciesInv
    <2>2. PoliciesTypeOK'
      BY <1>1, <2>1 DEF PoliciesTypeOK
    <2>3. ClosedIsEmpty'
      BY <1>1, <2>1 DEF PoliciesTypeOK, ClosedIsEmpty
    <2> QED
      BY <2>2, <2>3
  <1>4. AssertedTypeOK'
    BY <1>1, <1>2 DEF AssertedTypeOK, Assertion, Kind, HashValue
  <1>5. /\ CodeUnchanged
        /\ LocalityUnchanged
        /\ AuthValueUnchanged
        /\ HashUnchanged
        /\ NvUnchanged
    BY <1>1, <1>2
       DEF PoliciesTypeOK, CodeUnchanged, LocalityUnchanged, AuthValueUnchanged, HashUnchanged,
       NvUnchanged
  <1>6. PresenceNoted'
    BY <1>1, <1>2 DEF PoliciesTypeOK, PresenceNoted
  <1> QED
    BY <1>3, <1>4, <1>5, <1>6, NotesStay

\* The authValue, to be given in an HMAC.
LEMMA PolicyAuthValueStep ==
    ASSUME PoliciesInv,
           TPM2_PolicyAuthValue
    PROVE  PoliciesInv'
  <1> USE DEF PoliciesInv
  <1>1. /\ policy.open /\ policy' = [policy EXCEPT !.isAuthValueNeeded = TRUE, !.isPasswordNeeded = FALSE]
        /\ asserted' = asserted \cup {Assertion("AuthValue", TRUE)}
    BY DEF TPM2_PolicyAuthValue, Assert
  <1>2. /\ \A k : k # "AuthValue" => Arguments(k)' = Arguments(k)
        /\ Arguments("AuthValue")' = Arguments("AuthValue") \cup {TRUE}
    BY <1>1, AssertAdds
  <1>3. PoliciesTypeOK' /\ ClosedIsEmpty'
    <2>1. policy \in Notes /\ policy.open
      BY <1>1 DEF PoliciesTypeOK, Notes
    <2>2. policy' = [[policy EXCEPT !.isAuthValueNeeded = TRUE] EXCEPT !.isPasswordNeeded = FALSE]
      BY <1>1, <2>1 DEF Notes
    <2> HIDE DEF PoliciesInv
    <2>3. policy' \in Notes
      BY <2>1, <2>2, NoteChanges
    <2>4. PoliciesTypeOK'
      BY <2>3 DEF PoliciesTypeOK, Notes
    <2>5. policy'.open = policy.open
      BY <2>1, <2>2 DEF Notes
    <2> QED
      BY <2>1, <2>4, <2>5 DEF ClosedIsEmpty
  <1>4. AssertedTypeOK'
    BY <1>1, <1>2 DEF AssertedTypeOK, Assertion, Kind, HashValue
  <1>5. /\ CodeUnchanged
        /\ LocalityUnchanged
        /\ PresenceUnchanged
        /\ HashUnchanged
        /\ NvUnchanged
    BY <1>1, <1>2
       DEF PoliciesTypeOK, CodeUnchanged, LocalityUnchanged, PresenceUnchanged, HashUnchanged,
       NvUnchanged
  <1>6. AuthValueNoted'
    BY <1>1, <1>2 DEF PoliciesTypeOK, AuthValueNoted
  <1> QED
    BY <1>3, <1>4, <1>5, <1>6, NotesStay

\* The authValue, to be given as a password.
LEMMA PolicyPasswordStep ==
    ASSUME PoliciesInv,
           TPM2_PolicyPassword
    PROVE  PoliciesInv'
  <1> USE DEF PoliciesInv
  <1>1. /\ policy.open /\ policy' = [policy EXCEPT !.isPasswordNeeded = TRUE, !.isAuthValueNeeded = FALSE]
        /\ asserted' = asserted \cup {Assertion("AuthValue", TRUE)}
    BY DEF TPM2_PolicyPassword, Assert
  <1>2. /\ \A k : k # "AuthValue" => Arguments(k)' = Arguments(k)
        /\ Arguments("AuthValue")' = Arguments("AuthValue") \cup {TRUE}
    BY <1>1, AssertAdds
  <1>3. PoliciesTypeOK' /\ ClosedIsEmpty'
    <2>1. policy \in Notes /\ policy.open
      BY <1>1 DEF PoliciesTypeOK, Notes
    <2>2. policy' = [[policy EXCEPT !.isPasswordNeeded = TRUE] EXCEPT !.isAuthValueNeeded = FALSE]
      BY <1>1, <2>1 DEF Notes
    <2> HIDE DEF PoliciesInv
    <2>3. policy' \in Notes
      BY <2>1, <2>2, NoteChanges
    <2>4. PoliciesTypeOK'
      BY <2>3 DEF PoliciesTypeOK, Notes
    <2>5. policy'.open = policy.open
      BY <2>1, <2>2 DEF Notes
    <2> QED
      BY <2>1, <2>4, <2>5 DEF ClosedIsEmpty
  <1>4. AssertedTypeOK'
    BY <1>1, <1>2 DEF AssertedTypeOK, Assertion, Kind, HashValue
  <1>5. /\ CodeUnchanged
        /\ LocalityUnchanged
        /\ PresenceUnchanged
        /\ HashUnchanged
        /\ NvUnchanged
    BY <1>1, <1>2
       DEF PoliciesTypeOK, CodeUnchanged, LocalityUnchanged, PresenceUnchanged, HashUnchanged,
       NvUnchanged
  <1>6. AuthValueNoted'
    BY <1>1, <1>2 DEF PoliciesTypeOK, AuthValueNoted
  <1> QED
    BY <1>3, <1>4, <1>5, <1>6, NotesStay

\* A hash of names, where there is no hash yet.
LEMMA PolicyNameHashStep ==
    ASSUME PoliciesInv,
           NEW nameHash \in NameHashes,
           TPM2_PolicyNameHash(nameHash)
    PROVE  PoliciesInv'
  <1> USE DEF PoliciesInv
  <1>1. /\ policy.open /\ policy' = [policy EXCEPT !.u1 = nameHash]
        /\ asserted' = asserted \cup {Assertion("NameHash", nameHash)}
    BY DEF TPM2_PolicyNameHash, Assert
  <1>2. /\ \A k : k # "NameHash" => Arguments(k)' = Arguments(k)
        /\ Arguments("NameHash")' = Arguments("NameHash") \cup {nameHash}
    BY <1>1, AssertAdds
  <1>3. PoliciesTypeOK' /\ ClosedIsEmpty'
    <2>1. PoliciesTypeOK /\ policy.open
      BY <1>1
    <2> HIDE DEF PoliciesInv
    <2>2. PoliciesTypeOK'
      BY <1>1, <2>1 DEF PoliciesTypeOK, HashValue
    <2>3. ClosedIsEmpty'
      BY <1>1, <2>1 DEF PoliciesTypeOK, ClosedIsEmpty
    <2> QED
      BY <2>2, <2>3
  <1>4. AssertedTypeOK'
    BY <1>1, <1>2 DEF AssertedTypeOK, Assertion, Kind, HashValue
  <1>5. /\ CodeUnchanged
        /\ LocalityUnchanged
        /\ PresenceUnchanged
        /\ AuthValueUnchanged
        /\ NvUnchanged
    BY <1>1, <1>2
       DEF PoliciesTypeOK, CodeUnchanged, LocalityUnchanged, PresenceUnchanged,
       AuthValueUnchanged, NvUnchanged
  <1>6. HashNoted'
    BY <1>1, <1>2, HashesDiffer
       DEF PoliciesTypeOK, AssertedTypeOK, HashNoted, HashValue, TPM2_PolicyNameHash
  <1> QED
    BY <1>3, <1>4, <1>5, <1>6, NotesStay

\* A hash of a template, where there is none yet or the same.
LEMMA PolicyTemplateStep ==
    ASSUME PoliciesInv,
           NEW templateHash \in TemplateHashes,
           TPM2_PolicyTemplate(templateHash)
    PROVE  PoliciesInv'
  <1> USE DEF PoliciesInv
  <1>1. /\ policy.open /\ policy' = [policy EXCEPT !.u1 = templateHash, !.isTemplateSet = TRUE]
        /\ asserted' = asserted \cup {Assertion("Template", templateHash)}
    BY DEF TPM2_PolicyTemplate, Assert
  <1>2. /\ \A k : k # "Template" => Arguments(k)' = Arguments(k)
        /\ Arguments("Template")' = Arguments("Template") \cup {templateHash}
    BY <1>1, AssertAdds
  <1>3. PoliciesTypeOK' /\ ClosedIsEmpty'
    <2>1. PoliciesTypeOK /\ policy.open
      BY <1>1
    <2> HIDE DEF PoliciesInv
    <2>2. PoliciesTypeOK'
      BY <1>1, <2>1 DEF PoliciesTypeOK, HashValue
    <2>3. ClosedIsEmpty'
      BY <1>1, <2>1 DEF PoliciesTypeOK, ClosedIsEmpty
    <2> QED
      BY <2>2, <2>3
  <1>4. AssertedTypeOK'
    BY <1>1, <1>2 DEF AssertedTypeOK, Assertion, Kind, HashValue
  <1>5. /\ CodeUnchanged
        /\ LocalityUnchanged
        /\ PresenceUnchanged
        /\ AuthValueUnchanged
        /\ NvUnchanged
    BY <1>1, <1>2
       DEF PoliciesTypeOK, CodeUnchanged, LocalityUnchanged, PresenceUnchanged,
       AuthValueUnchanged, NvUnchanged
  <1>6. HashNoted'
    BY <1>1, <1>2, HashesDiffer
       DEF PoliciesTypeOK, AssertedTypeOK, HashNoted, HashValue, TPM2_PolicyTemplate
  <1> QED
    BY <1>3, <1>4, <1>5, <1>6, NotesStay

\* The names of a duplication and its code, where there is neither yet.
LEMMA PolicyDuplicationSelectStep ==
    ASSUME PoliciesInv,
           NEW nameHash \in NameHashes,
           TPM2_PolicyDuplicationSelect(nameHash)
    PROVE  PoliciesInv'
  <1> USE DEF PoliciesInv
  <1>1. /\ policy.open /\ policy' = [policy EXCEPT !.u1 = nameHash, !.commandCode = Duplicate]
        /\ asserted' = asserted \cup {Assertion("DuplicationSelect", nameHash)}
    BY DEF TPM2_PolicyDuplicationSelect, Assert
  <1>2. /\ \A k : k # "DuplicationSelect" => Arguments(k)' = Arguments(k)
        /\ Arguments("DuplicationSelect")' = Arguments("DuplicationSelect") \cup {nameHash}
    BY <1>1, AssertAdds
  <1>3. PoliciesTypeOK' /\ ClosedIsEmpty'
    <2>1. PoliciesTypeOK /\ policy.open
      BY <1>1
    <2> HIDE DEF PoliciesInv
    <2>2. PoliciesTypeOK'
      BY <1>1, <2>1 DEF PoliciesTypeOK, HashValue
    <2>3. ClosedIsEmpty'
      BY <1>1, <2>1 DEF PoliciesTypeOK, ClosedIsEmpty
    <2> QED
      BY <2>2, <2>3
  <1>4. AssertedTypeOK'
    BY <1>1, <1>2 DEF AssertedTypeOK, Assertion, Kind, HashValue
  <1>5. /\ LocalityUnchanged
        /\ PresenceUnchanged
        /\ AuthValueUnchanged
        /\ NvUnchanged
    BY <1>1, <1>2
       DEF PoliciesTypeOK, LocalityUnchanged, PresenceUnchanged, AuthValueUnchanged,
       NvUnchanged
  <1>6. CodeNoted'
    BY <1>1, <1>2 DEF PoliciesTypeOK, AssertedTypeOK, CodeNoted, TPM2_PolicyDuplicationSelect
  <1>7. HashNoted'
    BY <1>1, <1>2, HashesDiffer
       DEF PoliciesTypeOK, AssertedTypeOK, HashNoted, HashValue, TPM2_PolicyDuplicationSelect
  <1> QED
    BY <1>3, <1>4, <1>5, <1>6, <1>7, NotesStay

\* A hash that is asserted as cpHash, where there is none yet or the same.
LEMMA PolicySignedCpHashStep ==
    ASSUME PoliciesInv,
           NEW cpHashA \in HashValue,
           PolicySignedCpHash(cpHashA)
    PROVE  PoliciesInv'
  <1> USE DEF PoliciesInv
  <1>1. /\ policy.open /\ policy' = [policy EXCEPT !.u1 = cpHashA, !.isCpHashDefined = TRUE]
        /\ asserted' = asserted \cup {Assertion("CpHash", cpHashA)}
    BY DEF PolicySignedCpHash, Assert
  <1>2. /\ \A k : k # "CpHash" => Arguments(k)' = Arguments(k)
        /\ Arguments("CpHash")' = Arguments("CpHash") \cup {cpHashA}
    BY <1>1, AssertAdds
  <1>3. PoliciesTypeOK' /\ ClosedIsEmpty'
    <2>1. PoliciesTypeOK /\ policy.open
      BY <1>1
    <2> HIDE DEF PoliciesInv
    <2>2. PoliciesTypeOK'
      BY <1>1, <2>1 DEF PoliciesTypeOK
    <2>3. ClosedIsEmpty'
      BY <1>1, <2>1 DEF PoliciesTypeOK, ClosedIsEmpty
    <2> QED
      BY <2>2, <2>3
  <1>4. AssertedTypeOK'
    BY <1>1, <1>2 DEF AssertedTypeOK, Assertion, Kind, HashValue
  <1>5. /\ CodeUnchanged
        /\ LocalityUnchanged
        /\ PresenceUnchanged
        /\ AuthValueUnchanged
        /\ NvUnchanged
    BY <1>1, <1>2
       DEF PoliciesTypeOK, CodeUnchanged, LocalityUnchanged, PresenceUnchanged,
       AuthValueUnchanged, NvUnchanged
  <1>6. HashNoted'
    BY <1>1, <1>2, HashesDiffer
       DEF PoliciesTypeOK, AssertedTypeOK, HashNoted, HashValue, PolicySignedCpHash
  <1> QED
    BY <1>3, <1>4, <1>5, <1>6, NotesStay

\* TPM2_PolicyCpHash takes no hash that PolicySigned would not.
LEMMA PolicyCpHashStep ==
    ASSUME PoliciesInv, NEW cpHashA \in CpHashes, TPM2_PolicyCpHash(cpHashA)
    PROVE  PoliciesInv'
  <1>1. cpHashA \in HashValue
    BY DEF HashValue
  <1>2. PolicySignedCpHash(cpHashA)
    BY DEF TPM2_PolicyCpHash, PolicySignedCpHash
  <1> QED
    BY <1>1, <1>2, PolicySignedCpHashStep

\* Whether the index is written.
LEMMA PolicyNvWrittenStep ==
    ASSUME PoliciesInv,
           NEW writtenSet \in BOOLEAN,
           TPM2_PolicyNvWritten(writtenSet)
    PROVE  PoliciesInv'
  <1> USE DEF PoliciesInv
  <1>1. /\ policy.open /\ policy' = [policy EXCEPT !.checkNvWritten = TRUE, !.nvWrittenState = writtenSet]
        /\ asserted' = asserted \cup {Assertion("NvWritten", writtenSet)}
    BY DEF TPM2_PolicyNvWritten, Assert
  <1>2. /\ \A k : k # "NvWritten" => Arguments(k)' = Arguments(k)
        /\ Arguments("NvWritten")' = Arguments("NvWritten") \cup {writtenSet}
    BY <1>1, AssertAdds
  <1>3. PoliciesTypeOK' /\ ClosedIsEmpty'
    <2>1. policy \in Notes /\ policy.open
      BY <1>1 DEF PoliciesTypeOK, Notes
    <2>2. policy' = [[policy EXCEPT !.checkNvWritten = TRUE] EXCEPT !.nvWrittenState = writtenSet]
      BY <1>1, <2>1 DEF Notes
    <2> HIDE DEF PoliciesInv
    <2>3. policy' \in Notes
      BY <2>1, <2>2, NoteChanges
    <2>4. PoliciesTypeOK'
      BY <2>3 DEF PoliciesTypeOK, Notes
    <2>5. policy'.open = policy.open
      BY <2>1, <2>2 DEF Notes
    <2> QED
      BY <2>1, <2>4, <2>5 DEF ClosedIsEmpty
  <1>4. AssertedTypeOK'
    BY <1>1, <1>2 DEF AssertedTypeOK, Assertion, Kind, HashValue
  <1>5. /\ CodeUnchanged
        /\ LocalityUnchanged
        /\ PresenceUnchanged
        /\ AuthValueUnchanged
        /\ HashUnchanged
    BY <1>1, <1>2
       DEF PoliciesTypeOK, CodeUnchanged, LocalityUnchanged, PresenceUnchanged,
       AuthValueUnchanged, HashUnchanged
  <1>6. NvNoted'
    BY <1>1, <1>2 DEF PoliciesTypeOK, NvNoted, TPM2_PolicyNvWritten
  <1> QED
    BY <1>3, <1>4, <1>5, <1>6, NotesStay

\* A session without notes, of which nothing was asserted.
LEMMA EmptySessionStep ==
    ASSUME policy' \in {NoNotes, Closed}, asserted' = {}
    PROVE  PoliciesInv'
  <1>1. \A k : Arguments(k)' = {}
    BY DEF Arguments
  <1>2. /\ policy'.open \in BOOLEAN
        /\ policy' = [NoNotes EXCEPT !.open = policy'.open]
    <2>1. CASE policy' = NoNotes
      BY <2>1 DEF NoNotes
    <2>2. CASE policy' = Closed
      <3>1. Closed.open = FALSE
        BY DEF Closed, NoNotes
      <3> QED
        BY <2>2, <3>1 DEF Closed
    <2> QED
      BY <2>1, <2>2
  <1>3. PoliciesTypeOK' /\ AssertedTypeOK' /\ ClosedIsEmpty'
    BY <1>1, <1>2 DEF PoliciesTypeOK, AssertedTypeOK, ClosedIsEmpty, NoNotes
  <1>4. CodeNoted' /\ LocalityNoted' /\ PresenceNoted' /\ AuthValueNoted'
    BY <1>1, <1>2 DEF CodeNoted, LocalityNoted, PresenceNoted, AuthValueNoted, NoNotes
  <1>5. HashNoted' /\ NvNoted'
    BY <1>1, <1>2 DEF HashNoted, NvNoted, NoNotes
  <1> QED
    BY <1>3, <1>4, <1>5 DEF PoliciesInv

-----------------------------------------------------------------------------
(* The theorems.                                                           *)

LEMMA PoliciesStep ==
    ASSUME PoliciesInv, [PoliciesNext]_policiesVars
    PROVE  PoliciesInv'
  <1>1. CASE UNCHANGED policiesVars
    <2>1. \A k : Arguments(k)' = Arguments(k)
      BY <1>1 DEF policiesVars, Arguments
    <2>2. PoliciesTypeOK' /\ AssertedTypeOK' /\ ClosedIsEmpty'
      BY <1>1, <2>1 DEF policiesVars, PoliciesInv, PoliciesTypeOK, AssertedTypeOK, ClosedIsEmpty
    <2>3. /\ CodeUnchanged /\ LocalityUnchanged /\ PresenceUnchanged
          /\ AuthValueUnchanged /\ HashUnchanged /\ NvUnchanged
      BY <1>1, <2>1 DEF policiesVars, CodeUnchanged, LocalityUnchanged, PresenceUnchanged,
         AuthValueUnchanged, HashUnchanged, NvUnchanged
    <2> QED
      BY <2>2, <2>3, NotesStay DEF PoliciesInv
  <1>2. CASE StartPolicy
    <2>1. policy.open = FALSE
      BY <1>2 DEF StartPolicy, PoliciesInv, PoliciesTypeOK
    <2> QED
      BY <1>2, <2>1, EmptySessionStep DEF StartPolicy, PoliciesInv, ClosedIsEmpty
  <1>3. CASE \E localities \in (SUBSET NormalLocality \ {{}}) \cup { {l} : l \in ExtendedLocality } :
                TPM2_PolicyLocality(localities)
    <2>1. PICK localities \in (SUBSET NormalLocality \ {{}}) \cup { {l} : l \in ExtendedLocality } :
                TPM2_PolicyLocality(localities)
      BY <1>3
    <2>2. CASE localities \in SUBSET NormalLocality \ {{}}
      BY <2>1, <2>2, PolicyLocalityStep
    <2>3. CASE \E l \in ExtendedLocality : localities = {l}
      BY <2>1, <2>3, PolicyLocalityStep
    <2> QED
      BY <2>1, <2>2, <2>3
  <1>4. CASE ResetPolicy \/ ClosePolicy
    BY <1>4, EmptySessionStep DEF ResetPolicy, ResetNotes, ClosePolicy
  <1>5. ASSUME \/ \E code \in Code : TPM2_PolicyCommandCode(code)
               \/ TPM2_PolicyPhysicalPresence
               \/ TPM2_PolicyAuthValue
               \/ TPM2_PolicyPassword
        PROVE  PoliciesInv'
    BY <1>5, PolicyCommandCodeStep, PolicyPhysicalPresenceStep, PolicyAuthValueStep,
       PolicyPasswordStep
  <1>6. ASSUME \/ \E hash \in CpHashes : TPM2_PolicyCpHash(hash)
               \/ \E hash \in NameHashes :
                     TPM2_PolicyNameHash(hash) \/ TPM2_PolicyDuplicationSelect(hash)
               \/ \E hash \in TemplateHashes : TPM2_PolicyTemplate(hash)
               \/ \E hash \in HashValue : PolicySignedCpHash(hash)
        PROVE  PoliciesInv'
    BY <1>6, PolicyCpHashStep, PolicyNameHashStep, PolicyDuplicationSelectStep,
       PolicyTemplateStep, PolicySignedCpHashStep
  <1>7. CASE \E writtenSet \in BOOLEAN : TPM2_PolicyNvWritten(writtenSet)
    BY <1>7, PolicyNvWrittenStep
  <1> QED
    BY <1>1, <1>2, <1>3, <1>4, <1>5, <1>6, <1>7 DEF PoliciesNext

\* Each note of the session stands for the assertions about it, whatever policy
\* commands came in whatever order (EACommands.c, SessionResetPolicyData).
THEOREM PoliciesInvariant == PoliciesSpec => []PoliciesInv
  <1>1. PoliciesInit => PoliciesInv
    <2> SUFFICES ASSUME PoliciesInit
                 PROVE  PoliciesInv
      OBVIOUS
    <2>1. policy = Closed /\ asserted = {}
      BY DEF PoliciesInit
    <2>2. \A k : Arguments(k) = {}
      BY <2>1 DEF Arguments
    <2>3. PoliciesTypeOK /\ AssertedTypeOK /\ ClosedIsEmpty
      BY <2>1, <2>2 DEF PoliciesTypeOK, AssertedTypeOK, ClosedIsEmpty, Closed, NoNotes
    <2>4. CodeNoted /\ LocalityNoted /\ PresenceNoted /\ AuthValueNoted
      BY <2>1, <2>2 DEF CodeNoted, LocalityNoted, PresenceNoted, AuthValueNoted, Closed, NoNotes
    <2>5. HashNoted /\ NvNoted
      BY <2>1, <2>2 DEF HashNoted, NvNoted, Closed, NoNotes
    <2> QED
      BY <2>3, <2>4, <2>5 DEF PoliciesInv
  <1> QED
    BY <1>1, PoliciesStep, PTL DEF PoliciesSpec

\* A session authorizes exactly the commands of which everything is true that was
\* asserted (CheckPolicyAuthSession).
THEOREM ExactPolicy == PoliciesSpec => []PolicyIsExact
  BY NotesAreExact, PoliciesInvariant, PTL

-----------------------------------------------------------------------------
(* The inductive invariant of Tickets.                                     *)

\* What was given an epoch tells whether the deadline is of this power period;
\* before the startup of a period no epoch does.
EpochTells(epoch, deadline) ==
    /\ deadline.period <= powerPeriod
    /\ deadline.period = powerPeriod <=> epoch = timeEpoch /\ timerStopped = FALSE

\* The timeouts that stand for a deadline: the deadline itself or, where it was
\* given in whole seconds, any time in that second.
Earliest(deadline) == IF deadline.withNonce THEN deadline.at ELSE Second * deadline.at
Latest(deadline) ==
    IF deadline.withNonce THEN deadline.at ELSE Second * deadline.at + (Second - 1)

\* The session does not outlast the deadline.
DeadlineFits(deadline) ==
    /\ EpochTells(session.epoch, deadline)
    /\ deadline.withNonce = FALSE => deadline.reset = resetsCounted
    /\ session.timeout <= Latest(deadline)

\* The ticket stands for its deadline.
TicketFits(ticket) ==
    /\ ticket.epoch <= timeEpoch
    /\ EpochTells(ticket.epoch, ticket.stands)
    /\ Earliest(ticket.stands) <= ticket.timeout /\ ticket.timeout <= Latest(ticket.stands)
    /\ ticket.timeout # 0
    /\ ticket.stands.withNonce = FALSE => ticket.expiresOnReset = TRUE
    /\ ticket.resetCount = ticket.stands.reset

\* While the TPM is down there is no session but one that the next startup
\* brings back, and that is no TPM Reset.
DownSession ==
    ~ started => /\ session.place # "LOADED"
                 /\ session.place = "SAVED" => orderlyState = "STATE"

\* The timeout is not before all of the deadlines, and 0 without any.
TimeoutReached ==
    /\ deadlines = {} <=> session.timeout = 0
    /\ deadlines # {} => \E deadline \in deadlines : Earliest(deadline) <= session.timeout

TicketsInv ==
    /\ TicketsTypeOK
    /\ started => timerStopped = FALSE
    /\ session.epoch <= timeEpoch
    /\ session.place = "NONE" => deadlines = {}
    /\ DownSession
    /\ TimeoutReached
    /\ \A deadline \in deadlines : DeadlineFits(deadline)
    /\ \A ticket \in tickets : TicketFits(ticket)

-----------------------------------------------------------------------------
(* Seconds and timeouts.                                                   *)

USE TicketsAssumption

LEMMA DeadlineTimes ==
    ASSUME NEW deadline \in Deadline
    PROVE  /\ Earliest(deadline) \in Nat
           /\ Latest(deadline) \in Nat
  <1>1. deadline.at \in Nat /\ deadline.withNonce \in BOOLEAN
    BY DEF Deadline
  <1>2. Second * deadline.at \in Nat
    BY <1>1, ProductIsNat
  <1> QED
    BY <1>1, <1>2 DEF Earliest, Latest

\* ComputeAuthTimeout computes a timeout for the deadline that was meant.
LEMMA TimeoutIsMeant ==
    ASSUME TicketsTypeOK, NEW seconds \in Nat, seconds # 0, NEW withNonce \in BOOLEAN
    PROVE  LET authTimeout == ComputeAuthTimeout(seconds, withNonce)
               meant == DeadlineMeant(seconds, withNonce)
           IN  /\ meant \in Deadline
               /\ authTimeout \in Nat \ {0}
               /\ Earliest(meant) <= authTimeout /\ authTimeout <= Latest(meant)
  <1> DEFINE r == CommandTime % Second
             m == Second * seconds
             meant == DeadlineMeant(seconds, withNonce)
  <1>1. CommandTime \in Nat
    BY DEF CommandTime, TicketsTypeOK
  <1>2. r \in 0 .. (Second - 1)
    BY <1>1, Remainder
  <1>3. m \in Nat /\ m > 0
    BY Z3
  <1>4. session.startTime \in Nat /\ powerPeriod \in Nat /\ resetsCounted \in Nat
    BY DEF TicketsTypeOK
  <1>5. /\ meant.withNonce = withNonce
        /\ meant.at = IF withNonce THEN session.startTime + m ELSE seconds
    BY DEF DeadlineMeant
  <1>6. ComputeAuthTimeout(seconds, withNonce) =
            IF withNonce THEN session.startTime + m ELSE m + r
    BY DEF ComputeAuthTimeout
  <1>7. meant \in Deadline
    <2>1. (IF withNonce THEN session.startTime + m ELSE seconds) \in Nat
      BY <1>3, <1>4
    <2> QED
      BY <1>4, <2>1 DEF DeadlineMeant, Deadline
  <1> HIDE DEF r, meant
  <1>8. CASE withNonce
    <2>1. /\ Earliest(meant) = session.startTime + m
          /\ Latest(meant) = session.startTime + m
      BY <1>5, <1>8 DEF Earliest, Latest
    <2> HIDE DEF m
    <2>2. session.startTime + m \in Nat \ {0}
      BY <1>3, <1>4
    <2>3. ComputeAuthTimeout(seconds, withNonce) = session.startTime + m
      BY <1>6, <1>8
    <2> QED
      BY <1>7, <2>1, <2>2, <2>3 DEF meant
  <1>9. CASE ~ withNonce
    <2>1. Earliest(meant) = m /\ Latest(meant) = m + (Second - 1)
      BY <1>5, <1>9 DEF Earliest, Latest
    <2> HIDE DEF m
    <2> QED
      BY <1>2, <1>3, <1>6, <1>7, <1>9, <2>1 DEF meant
  <1> QED
    BY <1>8, <1>9

-----------------------------------------------------------------------------
(* Commands.                                                               *)

\* What a command may do: nothing to time, epochs and Resets.
LEMMA CommandStep ==
    ASSUME TicketsInv, ReadTime, PowerTypeOK', started' = started,
           session' \in [place : {"NONE", "LOADED", "SAVED"}, startTime : Nat, epoch : Nat,
                         timeout : Nat],
           session'.epoch <= timeEpoch,
           session'.place = "NONE" => deadlines' = {},
           TimeoutReached',
           deadlines' \subseteq Deadline, \A deadline \in deadlines' : DeadlineFits(deadline)',
           tickets' \subseteq Ticket, \A ticket \in tickets' : TicketFits(ticket)
    PROVE  TicketsInv'
  <1>1. started /\ UNCHANGED <<tpmTime, timerStopped, timeEpoch, resetsCounted, powerPeriod>>
    BY DEF ReadTime
  <1>2. gTime' \in Nat
    BY DEF ReadTime, CommandTime, TicketsInv, TicketsTypeOK
  <1>3. TicketsTypeOK'
    BY <1>1, <1>2 DEF TicketsInv, TicketsTypeOK
  <1>4. \A ticket \in tickets' : TicketFits(ticket)'
    BY <1>1 DEF TicketFits, EpochTells
  <1> QED
    BY <1>1, <1>3, <1>4 DEF TicketsInv, DownSession

LEMMA NothingChangedStep ==
    ASSUME TicketsInv, ReadTime, PowerTypeOK', started' = started,
           UNCHANGED <<session, tickets, deadlines>>
    PROVE  TicketsInv'
  <1>1. TimeoutReached' /\ \A deadline \in deadlines' : DeadlineFits(deadline)'
    BY DEF ReadTime, TicketsInv, TimeoutReached, DeadlineFits, EpochTells
  <1> QED
    BY <1>1, CommandStep DEF TicketsInv, TicketsTypeOK

\* The session has no timeout, and relies on nothing.
LEMMA NoDeadlineStep ==
    ASSUME TicketsInv, ReadTime, UNCHANGED <<powerVars, tickets>>, deadlines' = {},
           session' \in {StartedSession, NoTimedSession, [session EXCEPT !.timeout = 0]}
    PROVE  TicketsInv'
  <1>1. CommandTime \in Nat /\ timeEpoch \in Nat
    BY DEF CommandTime, TicketsInv, TicketsTypeOK
  <1>2. /\ session' \in [place : {"NONE", "LOADED", "SAVED"}, startTime : Nat, epoch : Nat,
                          timeout : Nat]
        /\ session'.epoch <= timeEpoch
        /\ session'.timeout = 0
    BY <1>1 DEF StartedSession, NoTimedSession, TicketsInv, TicketsTypeOK
  <1>3. TimeoutReached'
    BY <1>2 DEF TimeoutReached
  <1>4. PowerTypeOK' /\ started' = started
    BY DEF powerVars, PowerTypeOK, TicketsInv, TicketsTypeOK
  <1>5. tickets' \subseteq Ticket /\ \A ticket \in tickets' : TicketFits(ticket)
    BY DEF TicketsInv, TicketsTypeOK
  <1> QED
    BY <1>2, <1>3, <1>4, <1>5, CommandStep

\* The timeout moves to that of another deadline if it comes first.
LEMMA DeadlineAdded ==
    ASSUME TicketsInv, NEW deadline \in Deadline, NEW timeout \in Nat \ {0},
           EpochTells(session.epoch, deadline),
           deadline.withNonce = FALSE => deadline.reset = resetsCounted,
           Earliest(deadline) <= timeout, timeout <= Latest(deadline),
           SessionLoaded, ReadTime,
           session' = [session EXCEPT !.timeout = TimeoutUpdated(timeout)],
           deadlines' = deadlines \cup {deadline},
           UNCHANGED powerVars,
           tickets' \subseteq Ticket, \A ticket \in tickets' : TicketFits(ticket)
    PROVE  TicketsInv'
  <1>1. /\ session.timeout \in Nat
        /\ deadlines \subseteq Deadline
        /\ session \in [place : {"NONE", "LOADED", "SAVED"}, startTime : Nat, epoch : Nat,
                         timeout : Nat]
    BY DEF TicketsInv, TicketsTypeOK
  <1>2. /\ TimeoutUpdated(timeout) \in Nat \ {0}
        /\ TimeoutUpdated(timeout) <= timeout
        /\ session.timeout # 0 => TimeoutUpdated(timeout) <= session.timeout
        /\ \/ TimeoutUpdated(timeout) = timeout
           \/ session.timeout # 0 /\ TimeoutUpdated(timeout) = session.timeout
    BY <1>1 DEF TimeoutUpdated
  <1>3. /\ session'.timeout = TimeoutUpdated(timeout)
        /\ session'.epoch = session.epoch
        /\ session'.place = "LOADED"
        /\ session' \in [place : {"NONE", "LOADED", "SAVED"}, startTime : Nat, epoch : Nat,
                          timeout : Nat]
    BY <1>1, <1>2 DEF SessionLoaded
  <1>4. TimeoutReached'
    BY <1>1, <1>2, <1>3 DEF TicketsInv, TimeoutReached
  <1>5. ASSUME NEW d \in deadlines'
        PROVE  DeadlineFits(d)'
    <2>1. Latest(d) \in Nat /\ Latest(deadline) \in Nat
      BY <1>1, DeadlineTimes
    <2>2. EpochTells(session.epoch, d) /\ (d.withNonce = FALSE => d.reset = resetsCounted)
      BY DEF TicketsInv, DeadlineFits
    <2>3. session'.timeout <= Latest(d)
      <3>1. CASE d = deadline
        BY <1>2, <1>3, <2>1, <3>1
      <3>2. CASE d \in deadlines
        BY <1>1, <1>2, <1>3, <2>1, <3>2 DEF TicketsInv, DeadlineFits, TimeoutReached
      <3> QED
        BY <3>1, <3>2
    <2> QED
      BY <1>3, <2>2, <2>3 DEF DeadlineFits, EpochTells, ReadTime
  <1>6. PowerTypeOK' /\ started' = started
    BY DEF powerVars, PowerTypeOK, TicketsInv, TicketsTypeOK
  <1>7. session'.epoch <= timeEpoch /\ deadlines' \subseteq Deadline
    BY <1>1, <1>3 DEF TicketsInv
  <1> QED
    BY <1>3, <1>4, <1>5, <1>6, <1>7, CommandStep

LEMMA PolicyTimedStep ==
    ASSUME TicketsInv, NEW seconds \in Expirations, NEW withNonce \in BOOLEAN,
           NEW wantsTicket \in BOOLEAN, PolicyTimed(seconds, withNonce, wantsTicket)
    PROVE  TicketsInv'
  <1> DEFINE authTimeout == ComputeAuthTimeout(seconds, withNonce)
             meant == DeadlineMeant(seconds, withNonce)
             ticket == [timeout |-> authTimeout, epoch |-> timeEpoch,
                        expiresOnReset |-> ~ withNonce, resetCount |-> resetsCounted,
                        stands |-> meant]
  <1>1. CASE seconds = 0
    <2>1. authTimeout = 0
      BY <1>1 DEF ComputeAuthTimeout
    <2>2. UNCHANGED <<powerVars, session, tickets, deadlines>> /\ ReadTime
      BY <1>1, <2>1 DEF PolicyTimed, TimeoutUpdated, TicketsInv, TicketsTypeOK
    <2>3. PowerTypeOK' /\ started' = started
      BY <2>2 DEF powerVars, PowerTypeOK, TicketsInv, TicketsTypeOK
    <2> QED
      BY <2>2, <2>3, NothingChangedStep
  <1>2. CASE seconds # 0
    <2>1. seconds \in Nat
      OBVIOUS
    <2>2. /\ meant \in Deadline
          /\ authTimeout \in Nat \ {0}
          /\ Earliest(meant) <= authTimeout /\ authTimeout <= Latest(meant)
      BY <1>2, <2>1, TimeoutIsMeant DEF TicketsInv
    <2>3. /\ meant.period = powerPeriod
          /\ meant.withNonce = withNonce
          /\ meant.reset = resetsCounted
      BY DEF DeadlineMeant
    <2> HIDE DEF authTimeout, meant
    <2>4. /\ SessionLoaded /\ ReadTime /\ UNCHANGED powerVars
          /\ session.epoch = timeEpoch
          /\ session' = [session EXCEPT !.timeout = TimeoutUpdated(authTimeout)]
          /\ deadlines' = deadlines \cup {meant}
          /\ tickets' = tickets \/ tickets' = tickets \cup {ticket}
      BY <1>2, <2>2 DEF PolicyTimed, InTime, authTimeout, meant
    <2>5. timerStopped = FALSE /\ timeEpoch \in Nat /\ resetsCounted \in Nat /\ powerPeriod \in Nat
      BY <2>4 DEF ReadTime, TicketsInv, TicketsTypeOK
    <2>6. EpochTells(timeEpoch, meant)
      BY <2>3, <2>5 DEF EpochTells
    <2>7. ticket \in Ticket /\ TicketFits(ticket)
      <3>1. ticket \in Ticket
        BY <2>2, <2>5 DEF Ticket
      <3>2. withNonce = FALSE => ticket.expiresOnReset = TRUE
        OBVIOUS
      <3>3. /\ ticket.epoch = timeEpoch /\ ticket.stands = meant
            /\ ticket.timeout = authTimeout /\ ticket.resetCount = resetsCounted
        OBVIOUS
      <3> QED
        BY <2>2, <2>3, <2>5, <2>6, <3>1, <3>2, <3>3 DEF TicketFits
    <2>8. tickets' \subseteq Ticket /\ \A t \in tickets' : TicketFits(t)
      BY <2>4, <2>7 DEF TicketsInv, TicketsTypeOK
    <2> QED
      BY <2>2, <2>3, <2>4, <2>6, <2>8, DeadlineAdded
  <1> QED
    BY <1>1, <1>2

LEMMA PolicyTicketStep ==
    ASSUME TicketsInv, NEW ticket \in tickets, TPM2_PolicyTicket(ticket)
    PROVE  TicketsInv'
  <1>1. ticket \in Ticket /\ TicketFits(ticket)
    BY DEF TicketsInv, TicketsTypeOK
  <1>2. ticket.stands \in Deadline /\ ticket.timeout \in Nat \ {0}
    BY <1>1 DEF Ticket, TicketFits
  <1>3. /\ session.epoch = timeEpoch /\ ticket.epoch = timeEpoch
        /\ ticket.expiresOnReset = TRUE => ticket.resetCount = resetsCounted
    BY <1>2 DEF TPM2_PolicyTicket, InTime, TicketIsGenuine
  <1>4. /\ EpochTells(session.epoch, ticket.stands)
        /\ ticket.stands.withNonce = FALSE => ticket.stands.reset = resetsCounted
    BY <1>1, <1>3 DEF TicketFits
  <1>5. tickets' \subseteq Ticket /\ \A t \in tickets' : TicketFits(t)
    BY DEF TPM2_PolicyTicket, TicketsInv, TicketsTypeOK
  <1> QED
    BY <1>1, <1>2, <1>4, <1>5, DeadlineAdded DEF TPM2_PolicyTicket, TicketFits

LEMMA MoveTimedSessionStep ==
    ASSUME TicketsInv, MoveTimedSession
    PROVE  TicketsInv'
  <1>1. /\ session \in [place : {"NONE", "LOADED", "SAVED"}, startTime : Nat, epoch : Nat,
                         timeout : Nat]
        /\ session.place # "NONE"
    BY DEF MoveTimedSession, TicketsInv, TicketsTypeOK
  <1>2. /\ session' \in [place : {"NONE", "LOADED", "SAVED"}, startTime : Nat, epoch : Nat,
                          timeout : Nat]
        /\ session'.place # "NONE"
        /\ session'.timeout = session.timeout /\ session'.epoch = session.epoch
    BY <1>1 DEF MoveTimedSession
  <1>3. PowerTypeOK' /\ started' = started
    BY DEF MoveTimedSession, NvClearOrderly, PowerTypeOK, TicketsInv, TicketsTypeOK
  <1>4. TimeoutReached' /\ \A deadline \in deadlines' : DeadlineFits(deadline)'
    BY <1>2 DEF MoveTimedSession, ReadTime, TicketsInv, TimeoutReached, DeadlineFits, EpochTells
  <1> QED
    BY <1>2, <1>3, <1>4, CommandStep DEF MoveTimedSession, TicketsInv, TicketsTypeOK

LEMMA UnrelatedCommandStep ==
    ASSUME TicketsInv, UnrelatedCommand
    PROVE  TicketsInv'
  <1>1. PowerTypeOK' /\ started' = started
    BY DEF UnrelatedCommand, NvClearOrderly, powerVars, PowerTypeOK, TicketsInv, TicketsTypeOK
  <1> QED
    BY <1>1, NothingChangedStep DEF UnrelatedCommand

-----------------------------------------------------------------------------
(* Time and power.                                                         *)

LEMMA TimeStep ==
    ASSUME TicketsInv, TimePasses \/ TicketsNvSignal
    PROVE  TicketsInv'
  <1>1. UNCHANGED <<started, orderlyState, timerStopped, timeEpoch, resetsCounted, gTime, session,
                    tickets, powerPeriod, deadlines>>
    BY DEF TimePasses, TicketsNvSignal, NvSignal, powerVars, timingVars, timingHistory
  <1>2. tpmTime' \in Nat /\ PowerTypeOK'
    <2>1. CASE TimePasses
      BY <2>1 DEF TimePasses, powerVars, PowerTypeOK, TicketsInv, TicketsTypeOK
    <2>2. CASE TicketsNvSignal
      <3>1. nvAvailable' \in BOOLEAN
        BY <2>2 DEF TicketsNvSignal, NvSignal
      <3> QED
        BY <1>1, <2>2, <3>1 DEF TicketsNvSignal, timingVars, PowerTypeOK, TicketsInv, TicketsTypeOK
    <2> QED
      BY <2>1, <2>2
  <1> QED
    BY <1>1, <1>2 DEF TicketsInv, TicketsTypeOK, DownSession, TimeoutReached, DeadlineFits,
       TicketFits, EpochTells

LEMMA TicketsShutdownStep ==
    ASSUME TicketsInv, NEW type \in StartupArgument, TicketsShutdown(type)
    PROVE  TicketsInv'
  <1>1. PowerTypeOK' /\ started' = started
    BY DEF TicketsShutdown, PowerShutdown, PowerTypeOK, TicketsInv, TicketsTypeOK
  <1> QED
    BY <1>1, NothingChangedStep DEF TicketsShutdown

\* Power is lost, or a reset signal comes: a session is left only if the next
\* startup can bring it back, and its deadlines with it.
LEMMA InitStep ==
    ASSUME TicketsInv, ResetSignal \/ PowerCycle
    PROVE  TicketsInv'
  <1>1. /\ started /\ started' = FALSE
        /\ UNCHANGED <<orderlyState, nvAvailable, timeEpoch, resetsCounted, tickets>>
        /\ SessionAfterInit
    BY DEF ResetSignal, PowerCycle, PowerLoss
  <1>2. PowerTypeOK'
    BY <1>1 DEF PowerTypeOK, TicketsInv, TicketsTypeOK
  <1>3. /\ tpmTime' \in Nat /\ gTime' \in Nat
        /\ powerPeriod' \in Nat /\ timerStopped' \in BOOLEAN
        /\ \/ powerPeriod' = powerPeriod /\ timerStopped' = timerStopped
           \/ powerPeriod' = powerPeriod + 1 /\ timerStopped' = TRUE
    <2>1. CASE ResetSignal
      BY <2>1 DEF ResetSignal, TicketsInv, TicketsTypeOK
    <2>2. CASE PowerCycle
      BY <2>2 DEF PowerCycle, TicketsInv, TicketsTypeOK
    <2> QED
      BY <2>1, <2>2
  <1>4. \A epoch : \A d \in Deadline : EpochTells(epoch, d) => EpochTells(epoch, d)'
    <2> SUFFICES ASSUME NEW epoch, NEW d \in Deadline, EpochTells(epoch, d)
                 PROVE  EpochTells(epoch, d)'
      OBVIOUS
    <2>1. d.period \in Nat /\ powerPeriod \in Nat
      BY DEF Deadline, TicketsInv, TicketsTypeOK
    <2> QED
      BY <1>1, <1>3, <2>1 DEF EpochTells
  <1>5. \A ticket \in tickets' : TicketFits(ticket)'
    <2>1. \A ticket \in tickets : ticket.stands \in Deadline
      BY DEF TicketsInv, TicketsTypeOK, Ticket
    <2> QED
      BY <1>1, <1>4, <2>1 DEF TicketsInv, TicketFits
  <1>6. CASE session.place = "SAVED" /\ orderlyState = "STATE"
    <2>1. UNCHANGED <<session, deadlines>>
      BY <1>1, <1>6 DEF SessionAfterInit
    <2>2. \A deadline \in deadlines' : DeadlineFits(deadline)'
      BY <1>1, <1>4, <2>1 DEF TicketsInv, TicketsTypeOK, DeadlineFits
    <2>3. TimeoutReached' /\ DownSession'
      BY <1>1, <1>6, <2>1 DEF TicketsInv, TimeoutReached, DownSession
    <2> QED
      BY <1>1, <1>2, <1>3, <1>5, <2>1, <2>2, <2>3 DEF TicketsInv, TicketsTypeOK
  <1>7. CASE ~ (session.place = "SAVED" /\ orderlyState = "STATE")
    <2>1. session' = NoTimedSession /\ deadlines' = {}
      BY <1>1, <1>7 DEF SessionAfterInit
    <2>2. TimeoutReached' /\ DownSession'
      BY <2>1 DEF TimeoutReached, DownSession, NoTimedSession
    <2>3. /\ session' \in [place : {"NONE", "LOADED", "SAVED"}, startTime : Nat, epoch : Nat,
                            timeout : Nat]
          /\ session'.epoch <= timeEpoch
      BY <2>1 DEF NoTimedSession, TicketsInv, TicketsTypeOK
    <2> QED
      BY <1>1, <1>2, <1>3, <1>5, <2>1, <2>2, <2>3 DEF TicketsInv, TicketsTypeOK
  <1> QED
    BY <1>6, <1>7

\* The epoch goes up if the timer was stopped, and then no deadline is of this
\* power period; a TPM Reset finds no session.
LEMMA TicketsStartupStep ==
    ASSUME TicketsInv, NEW type \in StartupArgument, TicketsStartup(type)
    PROVE  TicketsInv'
  <1>1. /\ ~ started /\ started' = TRUE /\ timerStopped' = FALSE
        /\ timeEpoch' = NextEpoch
        /\ UNCHANGED <<tpmTime, session, tickets, powerPeriod, deadlines>>
    BY DEF TicketsStartup, PowerStartup, timingHistory
  <1>2. /\ timeEpoch \in Nat /\ timeEpoch' \in Nat
        /\ IF timerStopped THEN timeEpoch' = timeEpoch + 1 ELSE timeEpoch' = timeEpoch
        /\ timerStopped \in BOOLEAN
    BY <1>1 DEF NextEpoch, TicketsInv, TicketsTypeOK
  <1>3. resetsCounted' \in Nat /\ gTime' \in Nat
    BY DEF TicketsStartup, TicketsInv, TicketsTypeOK
  <1>4. PowerTypeOK'
    BY DEF TicketsStartup, PowerStartup, PowerTypeOK, TicketsInv, TicketsTypeOK
  <1>5. \A epoch \in Nat : \A d \in Deadline :
           EpochTells(epoch, d) /\ epoch <= timeEpoch => EpochTells(epoch, d)'
    BY <1>1, <1>2 DEF EpochTells
  <1>6. \A ticket \in tickets' : TicketFits(ticket)'
    <2>1. \A ticket \in tickets :
             ticket.stands \in Deadline /\ ticket.epoch \in Nat /\ ticket.epoch <= timeEpoch
      BY DEF TicketsInv, TicketsTypeOK, Ticket, TicketFits
    <2>2. \A ticket \in tickets : ticket.epoch <= timeEpoch'
      BY <1>2, <2>1
    <2> QED
      BY <1>1, <1>5, <2>1, <2>2 DEF TicketsInv, TicketFits
  <1>7. \A deadline \in deadlines : resetsCounted' = resetsCounted
    <2>1. deadlines # {} => session.place \in {"LOADED", "SAVED"}
      BY DEF TicketsInv, TicketsTypeOK
    <2>2. deadlines # {} => orderlyState = "STATE"
      BY <1>1, <2>1 DEF TicketsInv, DownSession
    <2> QED
      BY <2>2 DEF TicketsStartup, StartupType
  <1>8. session.epoch \in Nat /\ session.epoch <= timeEpoch /\ session.epoch <= timeEpoch'
    BY <1>2 DEF TicketsInv, TicketsTypeOK
  <1>9. \A deadline \in deadlines' : DeadlineFits(deadline)'
    BY <1>1, <1>5, <1>7, <1>8 DEF TicketsInv, TicketsTypeOK, DeadlineFits
  <1>10. TicketsTypeOK'
    BY <1>1, <1>2, <1>3, <1>4 DEF TicketsInv, TicketsTypeOK
  <1>11. DownSession' /\ TimeoutReached'
    BY <1>1 DEF TicketsInv, DownSession, TimeoutReached
  <1> QED
    BY <1>1, <1>6, <1>8, <1>9, <1>10, <1>11 DEF TicketsInv

-----------------------------------------------------------------------------
(* The theorems.                                                           *)

LEMMA TicketsStep ==
    ASSUME TicketsInv, [TicketsNext]_ticketsVars
    PROVE  TicketsInv'
  <1>1. CASE UNCHANGED ticketsVars
    BY <1>1 DEF ticketsVars, powerVars, timingVars, timingHistory, TicketsInv, TicketsTypeOK,
       PowerTypeOK, DownSession, TimeoutReached, DeadlineFits, TicketFits, EpochTells
  <1>2. CASE \/ StartTimedSession
             \/ RestartTimedPolicy
             \/ \E continueSession \in BOOLEAN : UseTimedSession(continueSession)
             \/ FlushTimedSession
    BY <1>2, NoDeadlineStep
       DEF StartTimedSession, RestartTimedPolicy, UseTimedSession, FlushTimedSession
  <1>3. CASE \/ \E seconds \in Expirations, withNonce, wantsTicket \in BOOLEAN :
                   PolicyTimed(seconds, withNonce, wantsTicket)
             \/ \E ticket \in tickets : TPM2_PolicyTicket(ticket)
    BY <1>3, PolicyTimedStep, PolicyTicketStep
  <1>4. CASE MoveTimedSession \/ UnrelatedCommand
    BY <1>4, MoveTimedSessionStep, UnrelatedCommandStep
  <1>5. CASE TimePasses \/ TicketsNvSignal \/ ResetSignal \/ PowerCycle
    BY <1>5, TimeStep, InitStep
  <1>6. CASE \E type \in StartupArgument : TicketsShutdown(type) \/ TicketsStartup(type)
    BY <1>6, TicketsShutdownStep, TicketsStartupStep
  <1> QED
    BY <1>1, <1>2, <1>3, <1>4, <1>5, <1>6 DEF TicketsNext

\* An epoch tells the power period of what was given it, and the timeout of the
\* session is that of the first of its deadlines (TimeNewEpoch, SessionSetStartTime,
\* PolicyContextUpdate, TicketComputeAuth).
THEOREM TicketsInvariant == TicketsSpec => []TicketsInv
  <1>1. TicketsInit => TicketsInv
    <2> SUFFICES ASSUME TicketsInit
                 PROVE  TicketsInv
      OBVIOUS
    <2>1. PowerTypeOK /\ started = FALSE
      BY DEF TicketsInit, PowerInit, PowerTypeOK, StartupArgument
    <2>2. TicketsTypeOK
      BY <2>1 DEF TicketsInit, NoTimedSession, TicketsTypeOK
    <2> QED
      BY <2>1, <2>2 DEF TicketsInit, NoTimedSession, TicketsInv, DownSession, TimeoutReached
  <1> QED
    BY <1>1, TicketsStep, PTL DEF TicketsSpec

\* No session authorizes anything once one of its deadlines is over (the timeout
\* and the epoch in CheckPolicyAuthSession).
THEOREM AuthorizationEnds == TicketsSpec => []TimedAuthorizationEnds
  <1>1. ASSUME TicketsInv, started, SessionLoaded, InTime(session.timeout),
               NEW deadline \in deadlines
        PROVE  NotOver(deadline)
    <2>1. /\ deadline \in Deadline /\ DeadlineFits(deadline)
          /\ session.timeout \in Nat /\ session.timeout # 0
          /\ tpmTime \in Nat
      BY <1>1 DEF TicketsInv, TicketsTypeOK, TimeoutReached
    <2>2. /\ session.epoch = timeEpoch
          /\ tpmTime <= session.timeout
      BY <1>1, <2>1 DEF InTime, CommandTime
    <2>3. deadline.period = powerPeriod
      BY <1>1, <2>1, <2>2 DEF TicketsInv, DeadlineFits, EpochTells
    <2>4. tpmTime <= Latest(deadline)
      BY <2>1, <2>2, DeadlineTimes DEF DeadlineFits
    <2>5. CASE deadline.withNonce
      BY <2>3, <2>4, <2>5 DEF NotOver, Latest
    <2>6. CASE ~ deadline.withNonce
      <3>1. deadline.at \in Nat /\ deadline.withNonce = FALSE
        BY <2>1, <2>6 DEF Deadline
      <3>2. tpmTime \div Second <= deadline.at
        BY <2>1, <2>4, <3>1, WithinSecond DEF Latest
      <3> QED
        BY <2>1, <2>3, <2>6, <3>1, <3>2 DEF NotOver, DeadlineFits
    <2> QED
      BY <2>5, <2>6
  <1>2. TicketsInv => TimedAuthorizationEnds
    BY <1>1 DEF TimedAuthorizationEnds
  <1> QED
    BY <1>2, TicketsInvariant, PTL

\* And it does while they all are to come (ComputeAuthTimeout, PolicyContextUpdate).
THEOREM AuthorizationLasts == TicketsSpec => []TimedAuthorizationLasts
  <1>1. ASSUME TicketsInv, started, SessionLoaded, nvAvailable, deadlines # {},
               \A deadline \in deadlines :
                  /\ NotOver(deadline)
                  /\ deadline.withNonce \/ tpmTime <= Second * deadline.at
        PROVE  InTime(session.timeout)
    <2>1. PICK deadline \in deadlines : Earliest(deadline) <= session.timeout
      BY <1>1 DEF TicketsInv, TimeoutReached
    <2>2. /\ deadline \in Deadline /\ DeadlineFits(deadline)
          /\ session.timeout \in Nat /\ tpmTime \in Nat
      BY <1>1 DEF TicketsInv, TicketsTypeOK
    <2>3. session.epoch = timeEpoch
      BY <1>1, <2>2 DEF NotOver, DeadlineFits, EpochTells
    <2>4. tpmTime <= Earliest(deadline)
      BY <1>1, <2>2 DEF NotOver, Earliest, Deadline
    <2>5. tpmTime <= session.timeout
      BY <2>1, <2>2, <2>4, DeadlineTimes
    <2> QED
      BY <1>1, <2>2, <2>3, <2>5 DEF InTime, CommandTime
  <1>2. TicketsInv => TimedAuthorizationLasts
    BY <1>1 DEF TimedAuthorizationLasts
  <1> QED
    BY <1>2, TicketsInvariant, PTL
=============================================================================

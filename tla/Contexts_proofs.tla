-------------------------- MODULE Contexts_proofs --------------------------
(***************************************************************************)
(* A saved session comes back once, and can come back: for any number of   *)
(* sessions and slots, and any width of the entries and of the counter.    *)
(*                                                                         *)
(* The proof first settles what low bits tell of a number that is at most  *)
(* a turn away from the counter, and then that no saved context is ever    *)
(* further away than that.                                                 *)
(***************************************************************************)
EXTENDS Contexts, FiniteSetTheorems, TLAPS

-----------------------------------------------------------------------------
(* The inductive invariant.                                                *)

\* The numbers of saved contexts: the entry has their low bits, none is of an
\* earlier turn than the low bits can tell, and no two are the same.
NumbersFit(array, number, counter) ==
    /\ \A h \in Handle : array[h] > MaxLoaded <=> number[h] # 0
    /\ \A h \in Handle : number[h] # 0 =>
          /\ array[h] = Low(number[h])
          /\ number[h] < counter
          /\ counter - number[h] <= SlotRange
    /\ \A h, k \in Handle : number[h] # 0 /\ number[h] = number[k] => h = k

\* A session in RAM has a slot of its own, and free slots are counted.
SlotsFit ==
    /\ \A h \in Handle : SessionIsLoaded(h) => contextArray[h] \in occupied
    /\ \A h, k \in Handle : SessionIsLoaded(h) /\ contextArray[h] = contextArray[k] => h = k
    /\ freeSessionSlots = Cardinality(Slot \ occupied)

\* No slot is taken without a session in it.
SlotsUsed == \A slot \in occupied : \E h \in Handle : contextArray[h] = slot

\* What the next Resume or Restart makes of the saved sessions.
Restored == [h \in Handle |-> IF forgotten[h] # 0 THEN forgotten[h] ELSE live[h]]

CounterFits ==
    /\ contextCounter \in (MaxLoaded + 1) .. CounterMax
    /\ Low(contextCounter) > MaxLoaded

SavedFits ==
    IF orderlyState = "STATE"
    THEN /\ savedReset.counter = contextCounter
         /\ \A h \in Handle : forgotten[h] # 0 => live[h] = 0
    ELSE forgotten = NoContext

\* All that is lost with the last number of the counter.
ArrayFits ==
    /\ given < contextCounter
    /\ NumbersFit(contextArray, live, contextCounter)
    /\ OldestIsOldest
    /\ SlotsUsed
    /\ GapIsMaximal => freeSessionSlots >= 1
    /\ orderlyState = "STATE" => NumbersFit(savedReset.array, Restored, contextCounter)

ContextsInv ==
    /\ ContextsTypeOK
    /\ CounterFits
    /\ SavedFits
    /\ SlotsFit
    /\ contextCounter # CounterMax => ArrayFits

-----------------------------------------------------------------------------
(* Low bits.                                                               *)

LEMMA Sizes ==
    /\ MaxActive \in Nat /\ MaxActive > 0
    /\ MaxLoaded \in Nat /\ MaxLoaded > 0
    /\ SlotRange \in Nat /\ SlotRange > MaxLoaded + 2
    /\ CounterMax \in Nat /\ MaxTotalResets \in Nat
  BY ContextsAssumption

\* Quotients that differ are a whole turn apart.
LEMMA TurnsApart ==
    ASSUME NEW p \in Int, NEW q \in Int, p < q
    PROVE  p * SlotRange \in Int /\ q * SlotRange \in Int
           /\ p * SlotRange + SlotRange <= q * SlotRange
  <1>1. SlotRange \in Nat
    BY Sizes
  <1>2. q - p \in Int /\ q - p >= 1
    OBVIOUS
  <1>3. (q - p) * SlotRange >= SlotRange
    BY <1>1, <1>2, Z3
  <1> QED
    BY <1>1, <1>3, Z3

LEMMA LowBits ==
    ASSUME NEW x \in Int
    PROVE  /\ Low(x) \in 0 .. (SlotRange - 1)
           /\ \E q \in Int : x = q * SlotRange + Low(x)
  <1>1. SlotRange \in Nat /\ SlotRange > 0
    BY Sizes
  <1>2. /\ x \div SlotRange \in Int
        /\ x % SlotRange \in 0 .. (SlotRange - 1)
        /\ x = (x \div SlotRange) * SlotRange + (x % SlotRange)
    BY <1>1, Z3
  <1> QED
    BY <1>2 DEF Low

LEMMA LowOf ==
    ASSUME NEW q \in Int, NEW r \in 0 .. (SlotRange - 1), NEW x \in Int,
           x = q * SlotRange + r
    PROVE  Low(x) = r
  <1>1. SlotRange \in Nat
    BY Sizes
  <1>2. PICK p \in Int : x = p * SlotRange + Low(x)
    BY LowBits
  <1>3. Low(x) \in 0 .. (SlotRange - 1)
    BY LowBits
  <1>4. ~ (p < q)
    BY <1>1, <1>2, <1>3, TurnsApart
  <1>5. ~ (q < p)
    BY <1>1, <1>2, <1>3, TurnsApart
  <1>6. p = q
    BY <1>4, <1>5
  <1>7. q * SlotRange \in Int
    BY <1>1, Z3
  <1> QED
    BY <1>1, <1>2, <1>3, <1>6, <1>7

\* A turn more or less leaves the low bits alone.
LEMMA LowOfTurn ==
    ASSUME NEW x \in Int
    PROVE  Low(x - SlotRange) = Low(x)
  <1>1. SlotRange \in Nat
    BY Sizes
  <1>2. PICK p \in Int : x = p * SlotRange + Low(x)
    BY LowBits
  <1>3. Low(x) \in 0 .. (SlotRange - 1)
    BY LowBits
  <1>4. x - SlotRange = (p - 1) * SlotRange + Low(x)
    <2>1. (p - 1) * SlotRange = p * SlotRange - SlotRange
      BY <1>1, Z3
    <2>2. p * SlotRange \in Int
      BY <1>1, Z3
    <2> QED
      BY <1>1, <1>2, <1>3, <2>1, <2>2
  <1>5. p - 1 \in Int /\ x - SlotRange \in Int
    BY <1>1
  <1> QED
    BY <1>3, <1>4, <1>5, LowOf

\* Numbers less than a turn apart are told apart by their low bits.
LEMMA LowTells ==
    ASSUME NEW x \in Int, NEW y \in Int, Low(x) = Low(y),
           x - y < SlotRange, y - x < SlotRange
    PROVE  x = y
  <1>1. SlotRange \in Nat
    BY Sizes
  <1>2. PICK p \in Int : x = p * SlotRange + Low(x)
    BY LowBits
  <1>3. PICK q \in Int : y = q * SlotRange + Low(y)
    BY LowBits
  <1>4. Low(x) \in 0 .. (SlotRange - 1)
    BY LowBits
  <1>5. ~ (p < q)
    BY <1>1, <1>2, <1>3, <1>4, TurnsApart
  <1>6. ~ (q < p)
    BY <1>1, <1>2, <1>3, <1>4, TurnsApart
  <1> QED
    BY <1>2, <1>3, <1>5, <1>6

\* Counted from the low bits of the counter, the low bits of the numbers of the
\* last turn are in the order of the numbers.
LEMMA LowInOrder ==
    ASSUME NEW n \in Int, NEW c \in Int, n < c, c - n <= SlotRange
    PROVE  Low(Low(n) - Low(c)) = n - c + SlotRange
  <1>1. SlotRange \in Nat
    BY Sizes
  <1>2. PICK p \in Int : n = p * SlotRange + Low(n)
    BY LowBits
  <1>3. PICK q \in Int : c = q * SlotRange + Low(c)
    BY LowBits
  <1>4. Low(n) \in 0 .. (SlotRange - 1) /\ Low(c) \in 0 .. (SlotRange - 1)
    BY LowBits
  <1>5. /\ (q - p - 1) * SlotRange = q * SlotRange - p * SlotRange - SlotRange
        /\ q * SlotRange \in Int /\ p * SlotRange \in Int
    BY <1>1, Z3
  <1>6. Low(n) - Low(c) = (q - p - 1) * SlotRange + (n - c + SlotRange)
    <2> DEFINE P == p * SlotRange
               Q == q * SlotRange
               D == (q - p - 1) * SlotRange
    <2>1. n = P + Low(n) /\ c = Q + Low(c) /\ D = Q - P - SlotRange /\ P \in Int /\ Q \in Int
      BY <1>2, <1>3, <1>5
    <2> HIDE DEF P, Q, D
    <2>2. Low(n) - Low(c) = D + (n - c + SlotRange)
      BY <1>1, <1>4, <2>1
    <2> QED
      BY <2>2 DEF D
  <1>7. n - c + SlotRange \in 0 .. (SlotRange - 1)
    BY <1>1
  <1>8. q - p - 1 \in Int /\ Low(n) - Low(c) \in Int
    BY <1>4
  <1> QED
    BY <1>6, <1>7, <1>8, LowOf

\* The counter goes on to low bits that are no slot, and up to its maximum; what
\* is skipped has low bits that no saved context has.
LEMMA CounterGoesOn ==
    ASSUME NEW c \in Nat, c < CounterMax, Low(c) > MaxLoaded
    PROVE  /\ AfterCounter(c) \in Nat
           /\ c < AfterCounter(c) /\ AfterCounter(c) <= CounterMax
           /\ Low(AfterCounter(c)) > MaxLoaded
           /\ \A n \in Nat : Low(n) > MaxLoaded /\ c - n < SlotRange
                            => AfterCounter(c) - n <= SlotRange
  <1>1. SlotRange \in Nat /\ MaxLoaded \in Nat /\ CounterMax \in Nat /\ SlotRange > MaxLoaded + 2
    BY Sizes
  <1>2. PICK q \in Int : c + 1 = q * SlotRange + Low(c + 1)
    BY LowBits
  <1>3. Low(c + 1) \in 0 .. (SlotRange - 1) /\ q * SlotRange \in Int
    <2>1. q * SlotRange \in Int
      BY <1>1, Z3
    <2>2. c + 1 \in Int
      OBVIOUS
    <2> QED
      BY <2>1, <2>2, LowBits
  <1>4. CASE Low(c + 1) # 0
    <2>1. AfterCounter(c) = c + 1
      BY <1>4 DEF AfterCounter
    <2>2. Low(c) = Low(c + 1) - 1
      <3>1. c = q * SlotRange + (Low(c + 1) - 1)
        BY <1>1, <1>2, <1>3
      <3>2. Low(c + 1) - 1 \in 0 .. (SlotRange - 1)
        BY <1>1, <1>3, <1>4
      <3> QED
        BY <3>1, <3>2, LowOf
    <2> QED
      BY <1>1, <1>3, <2>1, <2>2
  <1>5. CASE Low(c + 1) = 0
    <2>1. AfterCounter(c) = q * SlotRange + (MaxLoaded + 1)
      BY <1>1, <1>2, <1>3, <1>5 DEF AfterCounter
    <2>2. Low(AfterCounter(c)) = MaxLoaded + 1
      <3>1. MaxLoaded + 1 \in 0 .. (SlotRange - 1) /\ AfterCounter(c) \in Int
        BY <1>1, <1>3, <2>1
      <3> QED
        BY <2>1, <3>1, LowOf
    <2>3. AfterCounter(c) = c + MaxLoaded + 2
      BY <1>1, <1>5 DEF AfterCounter
    <2>4. AfterCounter(c) <= CounterMax
      <3>1. PICK turns \in 1 .. (CounterMax + 1) : CounterMax + 1 = turns * SlotRange
        BY ContextsAssumption
      <3>2. q < turns
        <4>1. ~ (turns < q)
          BY <1>1, <1>2, <1>3, <1>5, <3>1, TurnsApart
        <4>2. turns # q
          BY <1>1, <1>2, <1>3, <1>5, <3>1
        <4> QED
          BY <4>1, <4>2, <1>1
      <3>3. q * SlotRange + SlotRange <= turns * SlotRange
        BY <3>2, <1>1, TurnsApart
      <3> QED
        BY <1>1, <1>3, <2>1, <3>1, <3>3
    <2>5. ASSUME NEW n \in Nat, Low(n) > MaxLoaded, c - n < SlotRange
          PROVE  AfterCounter(c) - n <= SlotRange
      <3> DEFINE j == n - (c + 1 - SlotRange)
      <3>1. j \in Int /\ j >= 0
        BY <1>1, <2>5
      <3>2. ASSUME j <= MaxLoaded
            PROVE  FALSE
        <4>1. n = (q - 1) * SlotRange + j
          <5>1. (q - 1) * SlotRange = q * SlotRange - SlotRange
            BY <1>1, Z3
          <5> QED
            BY <1>1, <1>2, <1>3, <1>5, <5>1
        <4>2. j \in 0 .. (SlotRange - 1)
          BY <1>1, <3>1, <3>2
        <4>3. Low(n) = j
          BY <4>1, <4>2, LowOf
        <4> QED
          BY <2>5, <3>2, <4>3, <1>1
      <3> QED
        BY <1>1, <2>3, <3>1, <3>2
    <2> QED
      BY <1>1, <2>2, <2>3, <2>4, <2>5
  <1> QED
    BY <1>4, <1>5

-----------------------------------------------------------------------------
(* Numbers of saved contexts.                                              *)

\* The entry and the counter leave one number for a context.
LEMMA OneNumber ==
    ASSUME NEW array, NEW number \in [Handle -> Nat], NEW counter \in Nat,
           NumbersFit(array, number, counter),
           NEW h \in Handle, array[h] > MaxLoaded,
           NEW sequence \in Nat, array[h] = Low(sequence),
           sequence < counter, counter - sequence <= SlotRange
    PROVE  number[h] = sequence
  <1>1. number[h] \in Nat /\ SlotRange \in Nat
    BY Sizes
  <1>2. /\ Low(number[h]) = Low(sequence)
        /\ number[h] < counter /\ counter - number[h] <= SlotRange
    BY DEF NumbersFit
  <1>3. /\ number[h] \in Int /\ sequence \in Int
        /\ number[h] - sequence < SlotRange /\ sequence - number[h] < SlotRange
    BY <1>1, <1>2
  <1> QED
    BY <1>2, <1>3, LowTells

\* The low bits of the counter are those of the number a turn before.
LEMMA TurnBefore ==
    ASSUME NEW array, NEW number \in [Handle -> Nat], NEW counter \in Nat,
           NumbersFit(array, number, counter), NEW h \in Handle, number[h] # 0
    PROVE  array[h] = Low(counter) <=> counter - number[h] = SlotRange
  <1>1. number[h] \in Int /\ counter \in Int /\ SlotRange \in Nat /\ counter - SlotRange \in Int
    BY Sizes
  <1>2. /\ array[h] = Low(number[h])
        /\ number[h] < counter /\ counter - number[h] <= SlotRange
    BY DEF NumbersFit
  <1>3. Low(counter - SlotRange) = Low(counter)
    BY <1>1, LowOfTurn
  <1>4. ASSUME Low(number[h]) = Low(counter)
        PROVE  number[h] = counter - SlotRange
    <2>1. number[h] - (counter - SlotRange) < SlotRange
      BY <1>1, <1>2
    <2>2. (counter - SlotRange) - number[h] < SlotRange
      BY <1>1, <1>2, Sizes
    <2> QED
      BY <1>1, <1>3, <1>4, <2>1, <2>2, LowTells
  <1>5. ASSUME counter - number[h] = SlotRange
        PROVE  Low(number[h]) = Low(counter)
    <2>1. number[h] = counter - SlotRange
      BY <1>1, <1>5
    <2> QED
      BY <1>3, <2>1
  <1> QED
    BY <1>1, <1>2, <1>4, <1>5

\* ContextIdSetOldest finds the first number, of which it sees low bits only.
LEMMA OldestFound ==
    ASSUME NEW array \in [Handle -> Entry], NEW number \in [Handle -> Nat], NEW counter \in Nat,
           NumbersFit(array, number, counter), ContextIdSetOldest(array, counter)
    PROVE  IF \A h \in Handle : number[h] = 0
           THEN oldestSavedSession' = NoSavedSession
           ELSE /\ oldestSavedSession' \in Handle
                /\ number[oldestSavedSession'] # 0
                /\ \A h \in Handle : number[h] # 0 => number[oldestSavedSession'] <= number[h]
  <1>1. \A h \in Handle : array[h] <= MaxLoaded <=> ~ (array[h] > MaxLoaded)
    BY Sizes DEF Entry
  <1>2. CASE \A h \in Handle : number[h] = 0
    BY <1>1, <1>2 DEF NumbersFit, ContextIdSetOldest
  <1>3. CASE ~ \A h \in Handle : number[h] = 0
    <2> DEFINE o == oldestSavedSession'
    <2>1. o \in Oldest(array, counter)
      BY <1>1, <1>3 DEF NumbersFit, ContextIdSetOldest
    <2>2. /\ o \in Handle /\ number[o] # 0
          /\ \A h \in Handle : number[h] # 0 =>
                Low(array[o] - Low(counter)) <= Low(array[h] - Low(counter))
      BY <2>1 DEF Oldest, NumbersFit
    <2>3. ASSUME NEW h \in Handle, number[h] # 0
          PROVE  Low(array[h] - Low(counter)) = number[h] - counter + SlotRange
      <3>1. /\ array[h] = Low(number[h]) /\ number[h] < counter
            /\ counter - number[h] <= SlotRange
        BY <2>3 DEF NumbersFit
      <3>2. number[h] \in Int /\ counter \in Int
        OBVIOUS
      <3> QED
        BY <3>1, <3>2, LowInOrder
    <2>4. ASSUME NEW h \in Handle, number[h] # 0
          PROVE  number[o] <= number[h]
      <3>1. number[o] - counter + SlotRange <= number[h] - counter + SlotRange
        BY <2>2, <2>3, <2>4
      <3>2. number[o] \in Nat /\ number[h] \in Nat /\ SlotRange \in Nat
        BY <2>2, Sizes
      <3> QED
        BY <3>1, <3>2
    <2> QED
      BY <1>3, <2>2, <2>4
  <1> QED
    BY <1>2, <1>3

\* A session comes back or is flushed.
LEMMA NumberDropped ==
    ASSUME NEW array \in [Handle -> Entry], NEW number \in [Handle -> Nat], NEW counter \in Nat,
           NumbersFit(array, number, counter),
           NEW h \in Handle, NEW e \in 0 .. MaxLoaded
    PROVE  NumbersFit([array EXCEPT ![h] = e], [number EXCEPT ![h] = 0], counter)
  <1>1. ~ (e > MaxLoaded)
    BY Sizes
  <1> QED
    BY <1>1 DEF NumbersFit

\* A session is saved under the next number.
LEMMA NumberGiven ==
    ASSUME NEW array \in [Handle -> Entry], NEW number \in [Handle -> Nat], NEW counter \in Nat,
           NumbersFit(array, number, counter),
           counter > MaxLoaded, counter < CounterMax, Low(counter) > MaxLoaded,
           \A k \in Handle : number[k] # 0 => counter - number[k] # SlotRange,
           NEW h \in Handle
    PROVE  NumbersFit([array EXCEPT ![h] = Low(counter)], [number EXCEPT ![h] = counter],
                      AfterCounter(counter))
  <1> DEFINE next == AfterCounter(counter)
  <1>1. /\ next \in Nat /\ counter < next
        /\ \A n \in Nat : Low(n) > MaxLoaded /\ counter - n < SlotRange => next - n <= SlotRange
    BY CounterGoesOn
  <1> HIDE DEF next
  <1>2. counter # 0 /\ counter - counter < SlotRange
    BY Sizes
  <1>3. ASSUME NEW k \in Handle, number[k] # 0
        PROVE  number[k] < next /\ next - number[k] <= SlotRange /\ number[k] # counter
    <2>1. /\ array[k] > MaxLoaded /\ array[k] = Low(number[k])
          /\ number[k] < counter /\ counter - number[k] <= SlotRange
          /\ counter - number[k] # SlotRange
      BY <1>3 DEF NumbersFit
    <2>2. number[k] \in Nat /\ SlotRange \in Nat
      BY Sizes
    <2> QED
      BY <1>1, <2>1, <2>2
  <1>4. next - counter <= SlotRange
    BY <1>1, <1>2
  <1> QED
    BY <1>1, <1>2, <1>3, <1>4 DEF NumbersFit, next

-----------------------------------------------------------------------------
(* Slots.                                                                  *)

LEMMA FreeSlots ==
    ASSUME NEW S \in SUBSET Slot
    PROVE  /\ IsFiniteSet(Slot \ S)
           /\ Cardinality(Slot \ S) \in 0 .. MaxLoaded
           /\ Cardinality(Slot) = MaxLoaded
  <1>1. IsFiniteSet(Slot) /\ Cardinality(Slot) = MaxLoaded
    BY Sizes, FS_Interval DEF Slot
  <1>2. Slot \ S \in SUBSET Slot
    OBVIOUS
  <1>3. IsFiniteSet(Slot \ S) /\ Cardinality(Slot \ S) <= Cardinality(Slot)
    BY <1>1, <1>2, FS_Subset
  <1>4. Cardinality(Slot \ S) \in Nat
    BY <1>3, FS_CardinalityType
  <1> QED
    BY <1>1, <1>3, <1>4, Sizes

\* A session comes to a free slot.
LEMMA SlotTaken ==
    ASSUME ContextsTypeOK, SlotsFit, NEW h \in Handle, ~ SessionIsLoaded(h),
           NEW slot \in Slot \ occupied,
           contextArray' = [contextArray EXCEPT ![h] = slot],
           occupied' = occupied \cup {slot},
           freeSessionSlots' = freeSessionSlots - 1
    PROVE  /\ contextArray' \in [Handle -> Entry]
           /\ occupied' \subseteq Slot
           /\ freeSessionSlots' \in 0 .. MaxLoaded
           /\ SlotsFit'
           /\ SlotsUsed => SlotsUsed'
  <1>1. /\ contextArray \in [Handle -> Entry] /\ occupied \subseteq Slot
        /\ freeSessionSlots = Cardinality(Slot \ occupied)
    BY DEF ContextsTypeOK, SlotsFit
  <1>2. slot \in Entry
    BY Sizes DEF Slot, Entry
  <1>3. freeSessionSlots' = Cardinality(Slot \ occupied') /\ occupied' \subseteq Slot
    <2>1. Slot \ occupied' = (Slot \ occupied) \ {slot}
      OBVIOUS
    <2>2. IsFiniteSet(Slot \ occupied)
      BY <1>1, FreeSlots
    <2> QED
      BY <1>1, <2>1, <2>2, FS_RemoveElement
  <1>4. freeSessionSlots' \in 0 .. MaxLoaded
    BY <1>3, FreeSlots
  <1>5. \A k \in Handle : contextArray'[k] = IF k = h THEN slot ELSE contextArray[k]
    BY <1>1
  <1>6. SlotsFit'
    <2>1. \A k \in Handle : contextArray[k] \in Slot => contextArray[k] \in occupied
      BY DEF SlotsFit, SessionIsLoaded
    <2>2. \A k \in Handle : contextArray'[k] \in Slot => contextArray'[k] \in occupied'
      BY <1>5, <2>1
    <2>3. ASSUME NEW j \in Handle, NEW k \in Handle, contextArray'[j] \in Slot,
                 contextArray'[j] = contextArray'[k]
          PROVE  j = k
      BY <1>5, <2>1, <2>3 DEF SlotsFit, SessionIsLoaded
    <2> QED
      BY <1>3, <2>2, <2>3 DEF SlotsFit, SessionIsLoaded
  <1>7. SlotsUsed => SlotsUsed'
    BY <1>1, <1>5 DEF SlotsUsed, SessionIsLoaded
  <1> QED
    BY <1>1, <1>2, <1>3, <1>4, <1>6, <1>7

\* A session leaves its slot.
LEMMA SlotLeft ==
    ASSUME ContextsTypeOK, SlotsFit, NEW h \in Handle, SessionIsLoaded(h),
           NEW e \in Entry \ Slot,
           contextArray' = [contextArray EXCEPT ![h] = e],
           occupied' = occupied \ {contextArray[h]},
           freeSessionSlots' = freeSessionSlots + 1
    PROVE  /\ contextArray' \in [Handle -> Entry]
           /\ occupied' \subseteq Slot
           /\ freeSessionSlots' \in 1 .. MaxLoaded
           /\ SlotsFit'
           /\ SlotsUsed => SlotsUsed'
  <1>1. /\ contextArray \in [Handle -> Entry] /\ occupied \subseteq Slot
        /\ freeSessionSlots = Cardinality(Slot \ occupied)
        /\ contextArray[h] \in Slot /\ contextArray[h] \in occupied
    BY DEF ContextsTypeOK, SlotsFit, SessionIsLoaded
  <1>2. freeSessionSlots' = Cardinality(Slot \ occupied') /\ occupied' \subseteq Slot
    <2>1. Slot \ occupied' = (Slot \ occupied) \cup {contextArray[h]}
      BY <1>1
    <2>2. IsFiniteSet(Slot \ occupied) /\ contextArray[h] \notin Slot \ occupied
      BY <1>1, FreeSlots
    <2> QED
      BY <1>1, <2>1, <2>2, FS_AddElement
  <1>3. freeSessionSlots' \in 1 .. MaxLoaded
    <2>1. Cardinality(Slot \ occupied') \in 0 .. MaxLoaded
      BY <1>2, FreeSlots
    <2>2. Cardinality(Slot \ occupied) \in 0 .. MaxLoaded
      BY <1>1, FreeSlots
    <2> QED
      BY <1>1, <1>2, <2>1, <2>2, Sizes
  <1>4. \A k \in Handle : contextArray'[k] = IF k = h THEN e ELSE contextArray[k]
    BY <1>1
  <1>5. SlotsFit'
    <2>1. /\ \A k \in Handle : contextArray[k] \in Slot => contextArray[k] \in occupied
          /\ \A j, k \in Handle : contextArray[j] \in Slot /\ contextArray[j] = contextArray[k] => j = k
      BY DEF SlotsFit, SessionIsLoaded
    <2>2. \A k \in Handle : contextArray'[k] \in Slot => contextArray'[k] \in occupied'
      BY <1>1, <1>4, <2>1
    <2>3. ASSUME NEW j \in Handle, NEW k \in Handle, contextArray'[j] \in Slot,
                 contextArray'[j] = contextArray'[k]
          PROVE  j = k
      BY <1>4, <2>1, <2>3
    <2> QED
      BY <1>2, <2>2, <2>3 DEF SlotsFit, SessionIsLoaded
  <1>6. SlotsUsed => SlotsUsed'
    BY <1>1, <1>4 DEF SlotsUsed
  <1> QED
    BY <1>1, <1>2, <1>3, <1>5, <1>6

\* No slot changes hands; an entry that is no slot may.
LEMMA SlotsStay ==
    ASSUME ContextsTypeOK, SlotsFit, NEW h \in Handle, NEW e \in Entry \ Slot,
           contextArray' = [contextArray EXCEPT ![h] = e],
           UNCHANGED <<occupied, freeSessionSlots>>
    PROVE  /\ contextArray' \in [Handle -> Entry]
           /\ SlotsFit'
           /\ SlotsUsed /\ ~ SessionIsLoaded(h) => SlotsUsed'
  <1>1. contextArray \in [Handle -> Entry] /\ occupied \subseteq Slot
    BY DEF ContextsTypeOK
  <1>2. \A k \in Handle : contextArray'[k] = IF k = h THEN e ELSE contextArray[k]
    BY <1>1
  <1>3. SlotsFit'
    BY <1>2 DEF SlotsFit, SessionIsLoaded
  <1>4. SlotsUsed /\ ~ SessionIsLoaded(h) => SlotsUsed'
    BY <1>1, <1>2 DEF SlotsUsed, SessionIsLoaded
  <1> QED
    BY <1>1, <1>3, <1>4

\* Which entry is a slot and which a saved context.
LEMMA Entries ==
    /\ \A e \in Entry : e \in Slot <=> e # 0 /\ ~ (e > MaxLoaded)
    /\ 0 \in Entry \ Slot /\ ~ (0 > MaxLoaded) /\ 0 \in 0 .. MaxLoaded
    /\ \A slot \in Slot : slot \in 0 .. MaxLoaded
    /\ \A n \in Nat : Low(n) \in Entry /\ (Low(n) > MaxLoaded => Low(n) \in Entry \ Slot)
    /\ NoSavedSession \notin Handle
  <1>1. \A n \in Nat : Low(n) \in Entry
    BY LowBits DEF Entry
  <1> QED
    BY <1>1, Sizes DEF Entry, Slot, NoSavedSession, Handle

-----------------------------------------------------------------------------
(* The gap.                                                                *)

\* The gap is maximal if the oldest context is a whole turn old.
LEMMA GapIsTurn ==
    ASSUME NumbersFit(contextArray, live, contextCounter), OldestIsOldest, ContextsTypeOK
    PROVE  /\ GapIsMaximal <=> /\ oldestSavedSession # NoSavedSession
                               /\ contextCounter - live[oldestSavedSession] = SlotRange
           /\ oldestSavedSession # NoSavedSession =>
                 /\ oldestSavedSession \in Handle
                 /\ live[oldestSavedSession] # 0
                 /\ \A h \in Handle : live[h] # 0 => live[oldestSavedSession] <= live[h]
           /\ oldestSavedSession = NoSavedSession => \A h \in Handle : live[h] = 0
  <1>1. contextArray \in [Handle -> Entry] /\ live \in [Handle -> Nat] /\ contextCounter \in Nat
    BY DEF ContextsTypeOK
  <1>2. /\ oldestSavedSession # NoSavedSession =>
              /\ oldestSavedSession \in Handle
              /\ live[oldestSavedSession] # 0
              /\ \A h \in Handle : live[h] # 0 => live[oldestSavedSession] <= live[h]
        /\ oldestSavedSession = NoSavedSession => \A h \in Handle : live[h] = 0
    BY Entries DEF OldestIsOldest
  <1> QED
    BY <1>1, <1>2, TurnBefore DEF GapIsMaximal

\* Unless the gap is maximal every context is less than a turn old.
LEMMA NoGap ==
    ASSUME NumbersFit(contextArray, live, contextCounter), OldestIsOldest, ContextsTypeOK,
           ~ GapIsMaximal, NEW h \in Handle, live[h] # 0
    PROVE  contextCounter - live[h] # SlotRange
  <1>1. live \in [Handle -> Nat] /\ contextCounter \in Nat /\ SlotRange \in Nat
    BY Sizes DEF ContextsTypeOK
  <1>2. /\ oldestSavedSession \in Handle /\ live[oldestSavedSession] <= live[h]
        /\ contextCounter - live[oldestSavedSession] # SlotRange
        /\ live[oldestSavedSession] # 0
    BY GapIsTurn
  <1>3. contextCounter - live[oldestSavedSession] <= SlotRange
    BY <1>2 DEF NumbersFit
  <1> QED
    BY <1>1, <1>2, <1>3

\* A session comes back or is flushed: the context is forgotten, and if it was
\* the oldest one the gap is maximal no more.
LEMMA ContextDropped ==
    ASSUME ContextsTypeOK, ContextsTypeOK',
           NumbersFit(contextArray, live, contextCounter), OldestIsOldest,
           NEW h \in Handle, NEW e \in 0 .. MaxLoaded,
           contextArray' = [contextArray EXCEPT ![h] = e],
           live' = [live EXCEPT ![h] = 0],
           contextCounter' = contextCounter,
           IF h = oldestSavedSession THEN ContextIdSetOldest(contextArray', contextCounter)
                                     ELSE UNCHANGED oldestSavedSession
    PROVE  /\ NumbersFit(contextArray, live, contextCounter)'
           /\ OldestIsOldest'
           /\ GapIsMaximal' => GapIsMaximal /\ h # oldestSavedSession
  <1>1. /\ contextArray \in [Handle -> Entry] /\ contextArray' \in [Handle -> Entry]
        /\ live \in [Handle -> Nat] /\ live' \in [Handle -> Nat]
        /\ contextCounter \in Nat
    BY DEF ContextsTypeOK
  <1>2. NumbersFit(contextArray', live', contextCounter)
    BY <1>1, NumberDropped
  <1>3. NumbersFit(contextArray, live, contextCounter)'
    BY <1>2 DEF NumbersFit
  <1>4. \A k \in Handle : live'[k] = IF k = h THEN 0 ELSE live[k]
    BY <1>1
  <1>5. CASE h = oldestSavedSession
    <2>1. IF \A k \in Handle : live'[k] = 0
          THEN oldestSavedSession' = NoSavedSession
          ELSE /\ oldestSavedSession' \in Handle
               /\ live'[oldestSavedSession'] # 0
               /\ \A k \in Handle : live'[k] # 0 => live'[oldestSavedSession'] <= live'[k]
      BY <1>1, <1>2, <1>5, OldestFound
    <2>2. OldestIsOldest'
      BY <2>1 DEF OldestIsOldest
    <2>3. ~ GapIsMaximal'
      <3>1. SUFFICES ASSUME GapIsMaximal'
                     PROVE  FALSE
        OBVIOUS
      <3> DEFINE o == oldestSavedSession'
      <3>2. /\ o \in Handle /\ live'[o] # 0 /\ contextArray'[o] = Low(contextCounter)
        BY <2>1, <3>1 DEF GapIsMaximal
      <3>3. contextCounter - live'[o] = SlotRange
        BY <1>1, <1>2, <3>2, TurnBefore
      <3>4. o # h /\ live[o] = live'[o]
        BY <1>4, <3>2
      <3>5. h # NoSavedSession /\ live[h] # 0 /\ live[h] <= live[o]
        BY <1>5, <3>2, <3>4, Entries, GapIsTurn
      <3>6. contextCounter - live[h] <= SlotRange
        BY <3>5 DEF NumbersFit
      <3>7. live[h] = live[o]
        BY <1>1, <3>2, <3>3, <3>4, <3>5, <3>6, Sizes
      <3> QED
        BY <3>2, <3>4, <3>5, <3>7 DEF NumbersFit
    <2> QED
      BY <1>3, <2>2, <2>3
  <1>6. CASE h # oldestSavedSession
    <2>1. oldestSavedSession' = oldestSavedSession
      BY <1>6
    <2>2. OldestIsOldest'
      BY <1>4, <1>6, <2>1, GapIsTurn, Entries DEF OldestIsOldest
    <2>3. GapIsMaximal' => GapIsMaximal
      BY <1>1, <1>6, <2>1, GapIsTurn DEF GapIsMaximal
    <2> QED
      BY <1>3, <1>6, <2>2, <2>3
  <1> QED
    BY <1>5, <1>6

-----------------------------------------------------------------------------
(* The steps.                                                              *)

\* The state that TPM2_Shutdown saved is gone, and what was flushed since.
LEMMA StateVoided ==
    ASSUME ContextsTypeOK, SavedStateIsVoid
    PROVE  /\ PowerTypeOK' /\ started' = started /\ orderlyState' = "NONE"
           /\ savedReset' \in [array : [Handle -> Entry], counter : Nat]
           /\ totalResetCount' \in Nat
           /\ forgotten' \in [Handle -> Nat] /\ forgotten' = NoContext
  <1>1. started' = started /\ orderlyState' = "NONE" /\ nvAvailable' = nvAvailable
    BY DEF SavedStateIsVoid, NvClearOrderly
  <1>2. savedReset' = NothingSaved /\ forgotten' = NoContext /\ totalResetCount' = totalResetCount
    BY <1>1 DEF SavedStateIsVoid
  <1>3. NothingSaved \in [array : [Handle -> Entry], counter : Nat]
    BY Entries DEF NothingSaved
  <1> QED
    BY <1>1, <1>2, <1>3 DEF ContextsTypeOK, PowerTypeOK, NoContext

LEMMA CreateSessionStep ==
    ASSUME ContextsInv, CreateSession
    PROVE  ContextsInv'
  <1>1. PICK h \in Handle, slot \in Slot : SessionCreate(h, slot)
    BY DEF CreateSession
  <1>2. /\ slot \in Slot \ occupied /\ slot \in 0 .. MaxLoaded
        /\ freeSessionSlots # 0 /\ ~ (freeSessionSlots = 1 /\ GapIsMaximal)
        /\ contextArray[h] = 0 /\ contextArray' = [contextArray EXCEPT ![h] = slot]
        /\ occupied' = occupied \cup {slot} /\ freeSessionSlots' = freeSessionSlots - 1
        /\ UNCHANGED <<contextCounter, oldestSavedSession>>
    BY <1>1, Entries DEF SessionCreate
  <1>3. UNCHANGED <<started, orderlyState, nvAvailable, savedReset, totalResetCount, given, live,
                    forgotten>>
    BY DEF CreateSession, powerVars, contextHistory
  <1>4. ~ SessionIsLoaded(h) /\ ~ (contextArray[h] > MaxLoaded)
    BY <1>2, Entries DEF SessionIsLoaded
  <1>5. /\ contextArray' \in [Handle -> Entry] /\ occupied' \subseteq Slot
        /\ freeSessionSlots' \in 0 .. MaxLoaded /\ SlotsFit' /\ (SlotsUsed => SlotsUsed')
    BY <1>2, <1>4, SlotTaken DEF ContextsInv
  <1>6. ContextsTypeOK'
    BY <1>2, <1>3, <1>5 DEF ContextsInv, ContextsTypeOK, PowerTypeOK
  <1>7. CounterFits' /\ SavedFits'
    BY <1>2, <1>3 DEF ContextsInv, CounterFits, SavedFits
  <1>8. ASSUME contextCounter' # CounterMax
        PROVE  ArrayFits'
    <2>1. ArrayFits
      BY <1>2, <1>8 DEF ContextsInv
    <2>2. live[h] = 0 /\ live' = [live EXCEPT ![h] = 0]
      BY <1>3, <1>4, <2>1 DEF ArrayFits, NumbersFit, ContextsInv, ContextsTypeOK
    <2>3. h # oldestSavedSession
      BY <2>1, <2>2, Entries DEF ArrayFits, OldestIsOldest
    <2>4. /\ NumbersFit(contextArray, live, contextCounter)'
          /\ OldestIsOldest'
          /\ GapIsMaximal' => GapIsMaximal
      BY <1>2, <1>6, <2>1, <2>2, <2>3, ContextDropped DEF ArrayFits, ContextsInv
    <2>5. GapIsMaximal' => freeSessionSlots' >= 1
      BY <1>2, <2>4 DEF ContextsInv, ContextsTypeOK
    <2>6. orderlyState' = "STATE" => NumbersFit(savedReset.array, Restored, contextCounter)'
      BY <1>2, <1>3, <2>1 DEF ArrayFits, NumbersFit, Restored
    <2> QED
      BY <1>2, <1>3, <1>5, <2>1, <2>4, <2>5, <2>6 DEF ArrayFits
  <1> QED
    BY <1>5, <1>6, <1>7, <1>8 DEF ContextsInv

LEMMA ContextSaveStep ==
    ASSUME ContextsInv, NEW h \in Handle, ContextSave(h)
    PROVE  ContextsInv'
  <1> DEFINE next == AfterCounter(contextCounter)
  <1>1. /\ SessionIsLoaded(h) /\ contextCounter # CounterMax /\ SavedStateIsVoid
        /\ given' = contextCounter /\ live' = [live EXCEPT ![h] = contextCounter]
        /\ ~ GapIsMaximal
        /\ contextArray' = [contextArray EXCEPT ![h] = Low(contextCounter)]
        /\ contextCounter' = next
        /\ oldestSavedSession' = IF oldestSavedSession = NoSavedSession THEN h
                                                                       ELSE oldestSavedSession
        /\ occupied' = occupied \ {contextArray[h]}
        /\ freeSessionSlots' = freeSessionSlots + 1
    BY DEF ContextSave, SessionContextSave
  <1>2. /\ ArrayFits /\ ContextsTypeOK /\ SlotsFit
        /\ contextCounter \in Nat /\ contextCounter < CounterMax /\ contextCounter > MaxLoaded
        /\ Low(contextCounter) > MaxLoaded /\ Low(contextCounter) \in Entry \ Slot
    BY <1>1, Sizes, Entries DEF ContextsInv, ContextsTypeOK, CounterFits
  <1>3. next \in Nat /\ contextCounter < next /\ next <= CounterMax /\ Low(next) > MaxLoaded
    BY <1>2, CounterGoesOn
  <1> HIDE DEF next
  <1>4. /\ contextArray' \in [Handle -> Entry] /\ occupied' \subseteq Slot
        /\ freeSessionSlots' \in 1 .. MaxLoaded /\ SlotsFit' /\ (SlotsUsed => SlotsUsed')
    BY <1>1, <1>2, SlotLeft
  <1>5. ContextsTypeOK' /\ orderlyState' = "NONE" /\ forgotten' = NoContext
    <2>1. live' \in [Handle -> Nat] /\ given' \in Nat
      BY <1>1, <1>2 DEF ContextsTypeOK
    <2>2. oldestSavedSession' \in Handle \cup {NoSavedSession}
      BY <1>1, <1>2 DEF ContextsTypeOK
    <2>3. freeSessionSlots' \in 0 .. MaxLoaded
      BY <1>4
    <2> QED
      BY <1>1, <1>2, <1>3, <1>4, <2>1, <2>2, <2>3, StateVoided DEF ContextsTypeOK
  <1>6. CounterFits' /\ SavedFits'
    <2>1. contextCounter' \in (MaxLoaded + 1) .. CounterMax /\ Low(contextCounter') > MaxLoaded
      BY <1>1, <1>2, <1>3, Sizes
    <2> QED
      BY <1>5, <2>1 DEF CounterFits, SavedFits
  <1>7. ArrayFits'
    <2>1. ~ (contextArray[h] > MaxLoaded) /\ live[h] = 0
      <3>1. ~ (contextArray[h] > MaxLoaded)
        BY <1>1, Sizes DEF SessionIsLoaded, Slot
      <3> QED
        BY <1>2, <3>1 DEF ArrayFits, NumbersFit
    <2>2. \A k \in Handle : live[k] # 0 => contextCounter - live[k] # SlotRange
      BY <1>1, <1>2, NoGap DEF ArrayFits
    <2>3. /\ contextArray \in [Handle -> Entry] /\ live \in [Handle -> Nat]
          /\ NumbersFit(contextArray, live, contextCounter)
      BY <1>2 DEF ArrayFits, ContextsTypeOK
    <2>4. NumbersFit(contextArray', live', contextCounter')
      BY <1>1, <1>2, <2>2, <2>3, NumberGiven DEF next
    <2>5. NumbersFit(contextArray, live, contextCounter)'
      BY <2>4 DEF NumbersFit
    <2>6. \A k \in Handle : live'[k] = IF k = h THEN contextCounter ELSE live[k]
      BY <1>1, <2>3
    <2>7. OldestIsOldest'
      <3>1. contextCounter # 0 /\ \A k \in Handle : live[k] # 0 => live[k] < contextCounter
        BY <1>2, <2>3, Sizes DEF NumbersFit
      <3>2. CASE oldestSavedSession = NoSavedSession
        <4>1. \A k \in Handle : live[k] = 0
          BY <1>2, <3>2, GapIsTurn DEF ArrayFits
        <4> QED
          BY <1>1, <1>2, <2>6, <3>1, <3>2, <4>1 DEF OldestIsOldest
      <3>3. CASE oldestSavedSession # NoSavedSession
        <4>1. /\ oldestSavedSession' = oldestSavedSession /\ oldestSavedSession \in Handle
              /\ live[oldestSavedSession] # 0
              /\ \A k \in Handle : live[k] # 0 => live[oldestSavedSession] <= live[k]
          BY <1>1, <1>2, <3>3, GapIsTurn DEF ArrayFits
        <4>2. live'[oldestSavedSession] = live[oldestSavedSession]
          BY <2>1, <2>6, <4>1
        <4>3. live[oldestSavedSession] <= contextCounter
          BY <1>2, <2>3, <3>1, <4>1
        <4> QED
          BY <2>6, <3>1, <4>1, <4>2, <4>3 DEF OldestIsOldest
      <3> QED
        BY <3>2, <3>3
    <2>8. given' < contextCounter' /\ freeSessionSlots' >= 1
      BY <1>1, <1>3, <1>4
    <2> QED
      BY <1>2, <1>4, <1>5, <2>5, <2>7, <2>8 DEF ArrayFits
  <1> QED
    BY <1>4, <1>5, <1>6, <1>7 DEF ContextsInv

LEMMA ContextSaveTooManyStep ==
    ASSUME ContextsInv, NEW h \in Handle, ContextSaveTooMany(h)
    PROVE  ContextsInv'
  <1>1. /\ contextCounter = CounterMax /\ SavedStateIsVoid
        /\ contextArray' = [contextArray EXCEPT ![h] = Low(contextCounter)]
        /\ UNCHANGED <<contextCounter, oldestSavedSession, occupied, freeSessionSlots, given, live>>
    BY DEF ContextSaveTooMany
  <1>2. Low(contextCounter) \in Entry \ Slot
    BY Entries DEF ContextsInv, ContextsTypeOK, CounterFits
  <1>3. contextArray' \in [Handle -> Entry] /\ SlotsFit'
    BY <1>1, <1>2, SlotsStay DEF ContextsInv
  <1>4. ContextsTypeOK' /\ orderlyState' = "NONE" /\ forgotten' = NoContext
    BY <1>1, <1>3, StateVoided DEF ContextsInv, ContextsTypeOK
  <1> QED
    BY <1>1, <1>3, <1>4 DEF ContextsInv, CounterFits, SavedFits

\* A context that is accepted is the one the session was last saved in.
LEMMA ValidIsLive ==
    ASSUME ContextsInv, contextCounter # CounterMax, NEW h \in Handle, NEW sequence \in Nat,
           NEW resetCount \in Nat,
           Genuine(sequence, resetCount), ContextIsValid(h, sequence, resetCount)
    PROVE  live[h] = sequence /\ resetCount = totalResetCount
  <1>1. /\ resetCount = totalResetCount /\ SessionIsSaved(h)
        /\ contextArray[h] = Low(sequence) /\ contextCounter - sequence <= SlotRange
    BY DEF ContextIsValid, SequenceNumberIsValid
  <1>2. totalResetCount \in Nat /\ given \in Nat /\ contextCounter \in Nat /\ live \in [Handle -> Nat]
    BY DEF ContextsInv, ContextsTypeOK
  <1>3. sequence < contextCounter
    BY <1>1, <1>2 DEF Genuine, ContextsInv, ArrayFits
  <1> QED
    BY <1>1, <1>2, <1>3, OneNumber DEF SessionIsSaved, ContextsInv, ArrayFits

LEMMA ContextLoadStep ==
    ASSUME ContextsInv, NEW h \in Handle, NEW sequence \in Nat, NEW resetCount \in Nat,
           ContextLoad(h, sequence, resetCount)
    PROVE  ContextsInv'
  <1>1. PICK slot \in Slot : SessionContextLoad(h, slot)
    BY DEF ContextLoad
  <1>2. /\ slot \in Slot \ occupied /\ slot \in 0 .. MaxLoaded
        /\ freeSessionSlots # 0
        /\ ~ (freeSessionSlots = 1 /\ GapIsMaximal /\ h # oldestSavedSession)
        /\ contextArray' = [contextArray EXCEPT ![h] = slot]
        /\ IF h = oldestSavedSession THEN ContextIdSetOldest(contextArray', contextCounter)
                                     ELSE UNCHANGED oldestSavedSession
        /\ occupied' = occupied \cup {slot} /\ freeSessionSlots' = freeSessionSlots - 1
        /\ contextCounter' = contextCounter
    BY <1>1, Entries DEF SessionContextLoad
  <1>3. /\ SavedStateIsVoid /\ live' = [live EXCEPT ![h] = 0] /\ given' = given
        /\ contextArray[h] > MaxLoaded
    BY DEF ContextLoad, ContextIsValid, SequenceNumberIsValid, SessionIsSaved
  <1>4. ~ SessionIsLoaded(h)
    BY <1>3, Sizes DEF SessionIsLoaded, Slot
  <1>5. /\ contextArray' \in [Handle -> Entry] /\ occupied' \subseteq Slot
        /\ freeSessionSlots' \in 0 .. MaxLoaded /\ SlotsFit' /\ (SlotsUsed => SlotsUsed')
    BY <1>2, <1>4, SlotTaken DEF ContextsInv
  <1>6. ContextsTypeOK' /\ orderlyState' = "NONE" /\ forgotten' = NoContext
    <2>1. oldestSavedSession' \in Handle \cup {NoSavedSession}
      BY <1>2 DEF ContextIdSetOldest, Oldest, ContextsInv, ContextsTypeOK
    <2>2. live' \in [Handle -> Nat] /\ given' \in Nat /\ contextCounter' \in Nat
      BY <1>2, <1>3 DEF ContextsInv, ContextsTypeOK
    <2> QED
      BY <1>3, <1>5, <2>1, <2>2, StateVoided DEF ContextsInv, ContextsTypeOK
  <1>7. ASSUME contextCounter' # CounterMax
        PROVE  ArrayFits'
    <2>1. ArrayFits
      BY <1>2, <1>7 DEF ContextsInv
    <2>2. /\ NumbersFit(contextArray, live, contextCounter)'
          /\ OldestIsOldest'
          /\ GapIsMaximal' => GapIsMaximal /\ h # oldestSavedSession
      BY <1>2, <1>3, <1>6, <2>1, ContextDropped DEF ArrayFits, ContextsInv
    <2>3. GapIsMaximal' => freeSessionSlots' >= 1
      BY <1>2, <2>2 DEF ContextsInv, ContextsTypeOK
    <2> QED
      BY <1>2, <1>3, <1>5, <1>6, <2>1, <2>2, <2>3 DEF ArrayFits
  <1> QED
    BY <1>2, <1>5, <1>6, <1>7 DEF ContextsInv, CounterFits, SavedFits

LEMMA OtherCommandStep ==
    ASSUME ContextsInv, OtherCommand
    PROVE  ContextsInv'
  <1>1. /\ UNCHANGED <<contextArray, contextCounter, oldestSavedSession, occupied,
                       freeSessionSlots, given, live>>
        /\ SavedStateIsVoid
    BY DEF OtherCommand, contextIdVars
  <1>2. ContextsTypeOK' /\ orderlyState' = "NONE" /\ forgotten' = NoContext
    BY <1>1, StateVoided DEF ContextsInv, ContextsTypeOK
  <1>3. CounterFits' /\ SavedFits' /\ SlotsFit'
    BY <1>1, <1>2 DEF ContextsInv, CounterFits, SavedFits, SlotsFit, SessionIsLoaded
  <1>4. contextCounter' # CounterMax => ArrayFits'
    BY <1>1, <1>2 DEF ContextsInv, ArrayFits, NumbersFit, OldestIsOldest, SlotsUsed, GapIsMaximal
  <1> QED
    BY <1>2, <1>3, <1>4 DEF ContextsInv

\* After TPM2_Shutdown(STATE) the context of a flushed session is kept for the
\* Resume: what that restores is what it was.
LEMMA FlushRemembers ==
    ASSUME ContextsInv, NEW h \in Handle, FlushContext(h)
    PROVE  /\ SavedFits'
           /\ orderlyState = "STATE" => Restored' = Restored
  <1>1. /\ live' = [live EXCEPT ![h] = 0]
        /\ forgotten' = [forgotten EXCEPT ![h] =
                            IF orderlyState = "STATE" /\ live[h] # 0 THEN live[h] ELSE @]
        /\ orderlyState' = orderlyState /\ savedReset' = savedReset
        /\ contextCounter' = contextCounter
    BY DEF FlushContext, SessionFlush, powerVars
  <1>2. live \in [Handle -> Nat] /\ forgotten \in [Handle -> Nat]
    BY DEF ContextsInv, ContextsTypeOK
  <1>3. CASE orderlyState = "STATE"
    <2>1. \A k \in Handle : forgotten[k] # 0 => live[k] = 0
      BY <1>3 DEF ContextsInv, SavedFits
    <2>2. \A k \in Handle :
             /\ live'[k] = IF k = h THEN 0 ELSE live[k]
             /\ forgotten'[k] = IF k = h /\ live[h] # 0 THEN live[h] ELSE forgotten[k]
      BY <1>1, <1>2, <1>3
    <2>3. Restored' = Restored
      BY <2>1, <2>2 DEF Restored
    <2>4. SavedFits'
      BY <1>1, <1>3, <2>1, <2>2 DEF ContextsInv, SavedFits
    <2> QED
      BY <2>3, <2>4
  <1>4. CASE orderlyState # "STATE"
    <2>1. forgotten' = forgotten
      BY <1>1, <1>2, <1>4
    <2> QED
      BY <1>1, <1>4, <2>1 DEF ContextsInv, SavedFits
  <1> QED
    BY <1>3, <1>4

LEMMA FlushContextStep ==
    ASSUME ContextsInv, NEW h \in Handle, FlushContext(h)
    PROVE  ContextsInv'
  <1>1. /\ UNCHANGED <<started, orderlyState, nvAvailable, savedReset, totalResetCount, given>>
        /\ contextArray[h] # 0
        /\ contextArray' = [contextArray EXCEPT ![h] = 0]
        /\ contextCounter' = contextCounter
        /\ live' = [live EXCEPT ![h] = 0]
        /\ 0 \in Entry \ Slot /\ 0 \in 0 .. MaxLoaded
    BY Entries DEF FlushContext, SessionFlush, powerVars
  <1>2. /\ contextArray \in [Handle -> Entry] /\ live \in [Handle -> Nat]
        /\ forgotten \in [Handle -> Nat] /\ freeSessionSlots \in 0 .. MaxLoaded
    BY DEF ContextsInv, ContextsTypeOK
  <1>3. /\ contextArray' \in [Handle -> Entry] /\ occupied' \subseteq Slot
        /\ freeSessionSlots' \in 0 .. MaxLoaded /\ SlotsFit' /\ (SlotsUsed => SlotsUsed')
        /\ freeSessionSlots' = freeSessionSlots \/ freeSessionSlots' >= 1
        /\ oldestSavedSession' \in Handle \cup {NoSavedSession}
    <2>1. CASE SessionIsSaved(h)
      <3>1. ~ SessionIsLoaded(h)
        BY <1>2, <2>1, Sizes DEF SessionIsLoaded, SessionIsSaved, Slot
      <3>2. /\ UNCHANGED <<occupied, freeSessionSlots>>
            /\ IF h = oldestSavedSession THEN ContextIdSetOldest(contextArray', contextCounter)
                                         ELSE UNCHANGED oldestSavedSession
        BY <2>1 DEF FlushContext, SessionFlush
      <3>3. oldestSavedSession' \in Handle \cup {NoSavedSession}
        BY <3>2 DEF ContextIdSetOldest, Oldest, ContextsInv, ContextsTypeOK
      <3> QED
        BY <1>1, <1>2, <3>1, <3>2, <3>3, SlotsStay DEF ContextsInv, ContextsTypeOK
    <2>2. CASE ~ SessionIsSaved(h)
      <3>1. SessionIsLoaded(h)
        BY <1>1, <1>2, <2>2, Entries DEF SessionIsLoaded, SessionIsSaved
      <3>2. /\ occupied' = occupied \ {contextArray[h]}
            /\ freeSessionSlots' = freeSessionSlots + 1
            /\ UNCHANGED oldestSavedSession
        BY <2>2 DEF FlushContext, SessionFlush
      <3>3. /\ contextArray' \in [Handle -> Entry] /\ occupied' \subseteq Slot
            /\ freeSessionSlots' \in 1 .. MaxLoaded /\ SlotsFit' /\ (SlotsUsed => SlotsUsed')
        BY <1>1, <3>1, <3>2, SlotLeft DEF ContextsInv
      <3> QED
        BY <3>2, <3>3, Sizes DEF ContextsInv, ContextsTypeOK
    <2> QED
      BY <2>1, <2>2
  <1>4. ContextsTypeOK'
    <2>1. live' \in [Handle -> Nat] /\ forgotten' \in [Handle -> Nat]
      BY <1>1, <1>2 DEF FlushContext
    <2> QED
      BY <1>1, <1>3, <2>1 DEF ContextsInv, ContextsTypeOK, PowerTypeOK
  <1>5. ASSUME contextCounter' # CounterMax
        PROVE  ArrayFits'
    <2>1. ArrayFits
      BY <1>1, <1>5 DEF ContextsInv
    <2>2. IF h = oldestSavedSession THEN ContextIdSetOldest(contextArray', contextCounter)
                                    ELSE UNCHANGED oldestSavedSession
      <3>1. CASE SessionIsSaved(h)
        BY <3>1 DEF FlushContext, SessionFlush
      <3>2. CASE ~ SessionIsSaved(h)
        <4>1. h # oldestSavedSession
          BY <2>1, <3>2, Entries DEF ArrayFits, NumbersFit, OldestIsOldest, SessionIsSaved
        <4> QED
          BY <3>2, <4>1 DEF FlushContext, SessionFlush
      <3> QED
        BY <3>1, <3>2
    <2>3. /\ NumbersFit(contextArray, live, contextCounter)'
          /\ OldestIsOldest'
          /\ GapIsMaximal' => GapIsMaximal
      BY <1>1, <1>4, <2>1, <2>2, ContextDropped DEF ArrayFits, ContextsInv
    <2>4. GapIsMaximal' => freeSessionSlots' >= 1
      BY <1>3, <2>1, <2>3 DEF ArrayFits
    <2>5. orderlyState' = "STATE" => NumbersFit(savedReset.array, Restored, contextCounter)'
      BY <1>1, <2>1, FlushRemembers DEF ArrayFits, NumbersFit
    <2> QED
      BY <1>1, <1>3, <2>1, <2>3, <2>4, <2>5 DEF ArrayFits
  <1> QED
    BY <1>1, <1>3, <1>4, <1>5, FlushRemembers DEF ContextsInv, CounterFits

LEMMA ShutdownStep ==
    ASSUME ContextsInv, NEW type \in StartupArgument, Shutdown(type)
    PROVE  ContextsInv'
  <1>1. /\ started' = started /\ orderlyState' = type /\ nvAvailable' = nvAvailable
        /\ savedReset' = IF type = "STATE" THEN [array |-> contextArray, counter |-> contextCounter]
                                           ELSE NothingSaved
        /\ forgotten' = NoContext
        /\ UNCHANGED <<contextArray, contextCounter, oldestSavedSession, occupied,
                       freeSessionSlots, totalResetCount, given, live>>
    BY DEF Shutdown, PowerShutdown, contextIdVars
  <1>2. ContextsTypeOK'
    <2>1. NothingSaved \in [array : [Handle -> Entry], counter : Nat]
      BY Entries DEF NothingSaved
    <2>2. savedReset' \in [array : [Handle -> Entry], counter : Nat]
      BY <1>1, <2>1 DEF ContextsInv, ContextsTypeOK
    <2>3. forgotten' \in [Handle -> Nat] /\ PowerTypeOK'
      BY <1>1 DEF NoContext, ContextsInv, ContextsTypeOK, PowerTypeOK
    <2> QED
      BY <1>1, <2>2, <2>3 DEF ContextsInv, ContextsTypeOK
  <1>3. CounterFits' /\ SlotsFit'
    BY <1>1 DEF ContextsInv, CounterFits, SlotsFit, SessionIsLoaded
  <1>4. SavedFits'
    BY <1>1 DEF SavedFits, NoContext
  <1>5. ASSUME contextCounter' # CounterMax
        PROVE  ArrayFits'
    <2>1. ArrayFits
      BY <1>1, <1>5 DEF ContextsInv
    <2>2. Restored' = live
      BY <1>1 DEF Restored, NoContext, ContextsInv, ContextsTypeOK
    <2>3. orderlyState' = "STATE" => NumbersFit(savedReset'.array, Restored', contextCounter')
      BY <1>1, <2>1, <2>2 DEF ArrayFits
    <2>4. orderlyState' = "STATE" => NumbersFit(savedReset.array, Restored, contextCounter)'
      BY <2>3 DEF NumbersFit
    <2> QED
      BY <1>1, <2>1, <2>4 DEF ArrayFits, NumbersFit, OldestIsOldest, SlotsUsed, GapIsMaximal
  <1> QED
    BY <1>2, <1>3, <1>4, <1>5 DEF ContextsInv

\* The first number after a Reset has the low bits after the slots.
LEMMA FirstCounterFits ==
    MaxLoaded + 1 \in (MaxLoaded + 1) .. CounterMax /\ Low(MaxLoaded + 1) > MaxLoaded
  <1>1. Low(MaxLoaded + 1) = MaxLoaded + 1
    <2>1. MaxLoaded + 1 = 0 * SlotRange + (MaxLoaded + 1)
      BY Sizes
    <2>2. MaxLoaded + 1 \in 0 .. (SlotRange - 1)
      BY Sizes
    <2> QED
      BY <2>1, <2>2, LowOf
  <1>2. MaxLoaded + 1 <= CounterMax
    <2>1. PICK turns \in 1 .. (CounterMax + 1) : CounterMax + 1 = turns * SlotRange
      BY ContextsAssumption
    <2>2. 0 * SlotRange + SlotRange <= turns * SlotRange
      BY Sizes, TurnsApart
    <2> QED
      BY <2>1, <2>2, Sizes
  <1> QED
    BY <1>1, <1>2, Sizes

\* A TPM Reset begins anew; a Resume or a Restart restores what was saved.
LEMMA StartupStep ==
    ASSUME ContextsInv, NEW startupType \in StartupArgument, Startup(startupType)
    PROVE  ContextsInv'
  <1> DEFINE type == StartupType(startupType)
  <1>1. /\ started' = TRUE /\ orderlyState' = "NONE" /\ nvAvailable' = nvAvailable
        /\ savedReset' = NothingSaved /\ forgotten' = NoContext
        /\ occupied' = {} /\ freeSessionSlots' = MaxLoaded
    BY DEF Startup, PowerStartup, SessionStartup
  <1>2. /\ NothingSaved \in [array : [Handle -> Entry], counter : Nat]
        /\ NoContext \in [Handle -> Nat]
    BY Entries DEF NothingSaved, NoContext
  <1>3. freeSessionSlots' = Cardinality(Slot \ occupied')
    BY <1>1, FreeSlots
  <1>4. SavedFits'
    BY <1>1 DEF SavedFits
  <1>5. CASE type = "RESET"
    <2>1. /\ contextArray' = [h \in Handle |-> 0] /\ contextCounter' = MaxLoaded + 1
          /\ oldestSavedSession' = NoSavedSession
          /\ totalResetCount' = totalResetCount + 1 /\ given' = 0 /\ live' = NoContext
      BY <1>5 DEF Startup, SessionStartup
    <2>2. ContextsTypeOK'
      BY <1>1, <1>2, <2>1, Sizes, Entries DEF ContextsInv, ContextsTypeOK, PowerTypeOK
    <2>3. CounterFits'
      BY <2>1, FirstCounterFits DEF CounterFits
    <2>4. SlotsFit'
      BY <1>1, <1>3, <2>1, Entries DEF SlotsFit, SessionIsLoaded
    <2>5. ArrayFits'
      BY <1>1, <2>1, Entries, Sizes
         DEF ArrayFits, NumbersFit, OldestIsOldest, SlotsUsed, GapIsMaximal, NoContext
    <2> QED
      BY <1>4, <2>2, <2>3, <2>4, <2>5 DEF ContextsInv
  <1>6. CASE type # "RESET"
    <2>1. /\ orderlyState = "STATE"
          /\ contextArray' = [h \in Handle |-> IF savedReset.array[h] \in Slot THEN 0
                                                ELSE savedReset.array[h]]
          /\ contextCounter' = savedReset.counter
          /\ ContextIdSetOldest(contextArray', contextCounter')
          /\ live' = Restored
          /\ UNCHANGED <<totalResetCount, given>>
      BY <1>6 DEF Startup, SessionStartup, StartupType, Restored
    <2>2. contextCounter' = contextCounter
      BY <2>1 DEF ContextsInv, SavedFits
    <2>3. /\ savedReset.array \in [Handle -> Entry] /\ contextCounter \in Nat
          /\ forgotten \in [Handle -> Nat] /\ live \in [Handle -> Nat]
      BY DEF ContextsInv, ContextsTypeOK
    <2>4. /\ contextArray' \in [Handle -> Entry] /\ live' \in [Handle -> Nat]
          /\ \A h \in Handle : contextArray'[h] \notin Slot
          /\ \A h \in Handle : contextArray'[h] = savedReset.array[h]
                               \/ (contextArray'[h] = 0 /\ savedReset.array[h] \in Slot)
      <3>1. \A h \in Handle : contextArray'[h] = IF savedReset.array[h] \in Slot
                                                  THEN 0 ELSE savedReset.array[h]
        BY <2>1
      <3>2. 0 \in Entry /\ 0 \notin Slot
        BY Entries
      <3>3. \A h \in Handle : savedReset.array[h] \in Entry
        BY <2>3
      <3>4. contextArray' \in [Handle -> Entry]
        BY <2>1, <3>2, <3>3
      <3>5. live' \in [Handle -> Nat]
        BY <2>1, <2>3 DEF Restored
      <3>6. \A h \in Handle : contextArray'[h] \notin Slot
        BY <3>1, <3>2
      <3>7. \A h \in Handle : contextArray'[h] = savedReset.array[h]
                              \/ (contextArray'[h] = 0 /\ savedReset.array[h] \in Slot)
        BY <3>1
      <3> QED
        BY <3>4, <3>5, <3>6, <3>7
    <2>5. oldestSavedSession' \in Handle \cup {NoSavedSession}
      BY <2>1 DEF ContextIdSetOldest, Oldest
    <2>6. ContextsTypeOK'
      BY <1>1, <1>2, <2>1, <2>2, <2>4, <2>5, Sizes DEF ContextsInv, ContextsTypeOK, PowerTypeOK
    <2>7. CounterFits' /\ SlotsFit'
      BY <1>1, <1>3, <2>2, <2>4 DEF ContextsInv, CounterFits, SlotsFit, SessionIsLoaded
    <2>8. ASSUME contextCounter' # CounterMax
          PROVE  ArrayFits'
      <3>1. given < contextCounter /\ NumbersFit(savedReset.array, Restored, contextCounter)
        BY <2>1, <2>2, <2>8 DEF ContextsInv, ArrayFits
      <3>2. \A h \in Handle : contextArray'[h] > MaxLoaded <=> savedReset.array[h] > MaxLoaded
        BY <2>3, <2>4, Entries
      <3>3. NumbersFit(contextArray', live', contextCounter)
        BY <2>1, <2>3, <2>4, <3>1, <3>2, Entries DEF NumbersFit
      <3>4. NumbersFit(contextArray, live, contextCounter)'
        BY <2>2, <3>3 DEF NumbersFit
      <3>5. ContextIdSetOldest(contextArray', contextCounter)
        BY <2>1, <2>2
      <3>6. IF \A h \in Handle : live'[h] = 0
            THEN oldestSavedSession' = NoSavedSession
            ELSE /\ oldestSavedSession' \in Handle
                 /\ live'[oldestSavedSession'] # 0
                 /\ \A h \in Handle : live'[h] # 0 => live'[oldestSavedSession'] <= live'[h]
        BY <2>3, <2>4, <3>3, <3>5, OldestFound
      <3> QED
        BY <1>1, <2>1, <2>2, <3>1, <3>4, <3>6, Sizes DEF ArrayFits, OldestIsOldest, SlotsUsed
    <2> QED
      BY <1>4, <2>6, <2>7, <2>8 DEF ContextsInv
  <1> QED
    BY <1>5, <1>6

LEMMA SignalStep ==
    ASSUME ContextsInv, PowerLost \/ NvSignalled \/ UNCHANGED contextVars
    PROVE  ContextsInv'
  <1>1. /\ UNCHANGED <<orderlyState, contextArray, contextCounter, oldestSavedSession, occupied,
                       freeSessionSlots, savedReset, totalResetCount, given, live, forgotten>>
        /\ PowerTypeOK'
    <2>1. CASE PowerLost
      BY <2>1 DEF PowerLost, PowerLoss, contextIdVars, contextHistory, ContextsInv,
         ContextsTypeOK, PowerTypeOK
    <2>2. CASE NvSignalled
      <3>1. nvAvailable' \in BOOLEAN
        BY <2>2 DEF NvSignalled, NvSignal
      <3> QED
        BY <2>2, <3>1 DEF NvSignalled, NvSignal, contextIdVars, contextHistory, ContextsInv,
           ContextsTypeOK, PowerTypeOK
    <2>3. CASE UNCHANGED contextVars
      BY <2>3 DEF contextVars, powerVars, contextIdVars, contextHistory, ContextsInv,
         ContextsTypeOK, PowerTypeOK
    <2> QED
      BY <2>1, <2>2, <2>3
  <1>2. ContextsTypeOK' /\ CounterFits' /\ SavedFits' /\ SlotsFit'
    BY <1>1 DEF ContextsInv, ContextsTypeOK, CounterFits, SavedFits, SlotsFit, SessionIsLoaded
  <1>3. contextCounter' # CounterMax => ArrayFits'
    BY <1>1 DEF ContextsInv, ArrayFits, NumbersFit, OldestIsOldest, SlotsUsed, GapIsMaximal, Restored
  <1> QED
    BY <1>2, <1>3 DEF ContextsInv

-----------------------------------------------------------------------------
(* The theorems.                                                           *)

\* As long as the counter has a next number every saved session has one context,
\* at most a turn old, that its entry tells from all others (SessionContextSave,
\* SessionContextLoad, ContextIdSetOldest, SessionStartup).
THEOREM ContextsInvariant == ContextsSpec => []ContextsInv
  <1>1. ContextsInit => ContextsInv
    <2> SUFFICES ASSUME ContextsInit
                 PROVE  ContextsInv
      OBVIOUS
    <2>1. PowerTypeOK /\ orderlyState = "CLEAR"
      BY DEF ContextsInit, PowerInit, PowerTypeOK, StartupArgument
    <2>2. /\ NothingSaved \in [array : [Handle -> Entry], counter : Nat]
          /\ NoContext \in [Handle -> Nat]
      BY Entries DEF NothingSaved, NoContext
    <2>3. ContextsTypeOK
      BY <2>1, <2>2, Sizes, Entries DEF ContextsInit, ContextsTypeOK
    <2>4. CounterFits /\ SavedFits
      BY <2>1, FirstCounterFits DEF ContextsInit, CounterFits, SavedFits
    <2>5. SlotsFit
      BY Entries, FreeSlots DEF ContextsInit, SlotsFit, SessionIsLoaded
    <2>6. ArrayFits
      BY <2>1, Entries, Sizes
         DEF ContextsInit, ArrayFits, NumbersFit, OldestIsOldest, SlotsUsed, GapIsMaximal, NoContext
    <2> QED
      BY <2>3, <2>4, <2>5, <2>6 DEF ContextsInv
  <1>2. ContextsInv /\ [ContextsNext]_contextVars => ContextsInv'
    <2> SUFFICES ASSUME ContextsInv, [ContextsNext]_contextVars
                 PROVE  ContextsInv'
      OBVIOUS
    <2>1. ASSUME NEW h \in Handle, NEW sequence \in 1 .. CounterMax,
                 NEW resetCount \in 0 .. totalResetCount, ContextLoad(h, sequence, resetCount)
          PROVE  ContextsInv'
      <3>1. sequence \in Nat /\ resetCount \in Nat
        OBVIOUS
      <3> QED
        BY <2>1, <3>1, ContextLoadStep
    <2>2. ASSUME NEW h \in Handle,
                 ContextSave(h) \/ ContextSaveTooMany(h) \/ FlushContext(h)
          PROVE  ContextsInv'
      BY <2>2, ContextSaveStep, ContextSaveTooManyStep, FlushContextStep
    <2>3. ASSUME NEW type \in StartupArgument, Shutdown(type) \/ Startup(type)
          PROVE  ContextsInv'
      BY <2>3, ShutdownStep, StartupStep
    <2> QED
      BY <2>1, <2>2, <2>3, CreateSessionStep, OtherCommandStep, SignalStep DEF ContextsNext
  <1> QED
    BY <1>1, <1>2, PTL DEF ContextsSpec

\* No context loads but the latest of a session that is still saved
\* (SequenceNumberForSavedContextIsValid).
THEOREM OnlyLiveLoad == ContextsSpec => []OnlyLiveContextsLoad
  <1>1. ASSUME ContextsInv, ContextsInUse,
               NEW h \in Handle, NEW sequence \in 1 .. CounterMax,
               NEW resetCount \in 0 .. totalResetCount,
               Genuine(sequence, resetCount), ContextIsValid(h, sequence, resetCount)
        PROVE  live[h] = sequence /\ resetCount = totalResetCount
    <2>1. sequence \in Nat /\ resetCount \in Nat /\ contextCounter # CounterMax
      BY <1>1 DEF ContextsInUse
    <2> QED
      BY <1>1, <2>1, ValidIsLive
  <1>2. ContextsInv => OnlyLiveContextsLoad
    BY <1>1 DEF OnlyLiveContextsLoad
  <1> QED
    BY <1>2, ContextsInvariant, PTL

\* The latest context of a saved session always loads (SessionContextSave refuses
\* when the gap is maximal).
THEOREM LiveStayValid == ContextsSpec => []LiveContextsStayValid
  <1>1. ASSUME ContextsInv, contextCounter # CounterMax, NEW h \in Handle, live[h] # 0
        PROVE  SequenceNumberIsValid(h, live[h])
    <2>1. live[h] \in Nat /\ contextCounter \in Nat
      BY <1>1 DEF ContextsInv, ContextsTypeOK
    <2> QED
      BY <1>1, <2>1 DEF ContextsInv, ArrayFits, NumbersFit, SequenceNumberIsValid, SessionIsSaved
  <1>2. ContextsInv => LiveContextsStayValid
    BY <1>1 DEF LiveContextsStayValid, ContextsInUse
  <1> QED
    BY <1>2, ContextsInvariant, PTL

\* Slots, free slots and the oldest context are what the entries say
\* (gr.contextArray, s_freeSessionSlots, s_oldestSavedSession).
THEOREM ExactContextArray == ContextsSpec => []ContextArrayIsExact
  <1>1. ASSUME ContextsInv, contextCounter # CounterMax
        PROVE  OldestIsOldest /\ SlotsAreExact
    <2>1. OldestIsOldest /\ SlotsUsed
      BY <1>1 DEF ContextsInv, ArrayFits
    <2> QED
      BY <1>1, <2>1 DEF ContextsInv, SlotsFit, SlotsUsed, SlotsAreExact, SessionIsLoaded
  <1>2. ContextsInv => ContextArrayIsExact
    BY <1>1 DEF ContextArrayIsExact, ContextsInUse
  <1> QED
    BY <1>2, ContextsInvariant, PTL

\* There is a slot for the oldest context while no other can be saved
\* (SessionCreate and SessionContextLoad keep the last one).
THEOREM GapRelieved == ContextsSpec => []GapCanBeRelieved
  <1>1. ContextsInv => GapCanBeRelieved
    BY DEF ContextsInv, ArrayFits, GapCanBeRelieved, ContextsInUse
  <1> QED
    BY <1>1, ContextsInvariant, PTL
=============================================================================

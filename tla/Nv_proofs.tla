----------------------------- MODULE Nv_proofs -----------------------------
(***************************************************************************)
(* What an NV index promises: for any number of indices, of any kinds, and *)
(* for every width of an orderly counter.                                  *)
(***************************************************************************)
EXTENDS Nv, WellFoundedInduction, TLAPS

-----------------------------------------------------------------------------
(* The inductive invariant.                                                *)

\* There is room in RAM for an orderly index, and for no other.
HasRoom(h) ==
    /\ ram[h] # None <=> IsOrderly(h)
    /\ savedRam[h] # None <=> IsOrderly(h)

\* An index is as it was defined, wherever its attributes are kept; those of an
\* orderly index that change are in RAM.
IsAsDefined(h) ==
    /\ IsDefined(h) => IsTemplate(index[h].attributes \cap DefinedAttribute)
    /\ IsOrderly(h) =>
          /\ index[h].attributes \subseteq DefinedAttribute
          /\ ram[h].attributes \cap DefinedAttribute = index[h].attributes
          /\ savedRam[h].attributes \cap DefinedAttribute = index[h].attributes

\* The RAM holds what NV holds: all of it while the TPM is down, its data while
\* the note of a shutdown stands, and of a counter whether it is written.
RamIsSaved(h) ==
    /\ ~ started => ram[h] = savedRam[h]
    /\ IsOrderly(h) =>
          /\ Orderly => ram[h].data = savedRam[h].data
          /\ Orderly \/ IsCounter(h) =>
                ("WRITTEN" \in ram[h].attributes <=> "WRITTEN" \in savedRam[h].attributes)

\* A counter that is written holds the highest count read, or will when it is
\* raised at the next startup; at any other handle the next one starts above it.
CountIsKept(h) ==
    /\ IsCounter(h) => Info(h).data <= MaxCount
    /\ IsCounter(h) /\ IsOrderly(h) =>
          /\ savedRam[h].data <= MaxCount
          /\ ram[h].data <= RaisedCount(savedRam[h].data)
    /\ h \notin flushed =>
          IF IsCounter(h) /\ IsWritten(h)
          THEN IF IsOrderly(h)
               THEN /\ started => highest[h] <= ram[h].data
                    /\ Orderly => highest[h] <= savedRam[h].data
                    /\ highest[h] <= RaisedCount(savedRam[h].data)
               ELSE highest[h] <= index[h].data
          ELSE highest[h] <= savedMax

Marks(entry) ==
    { lock \in {"READ", "WRITE"} :
        (IF lock = "READ" THEN "READLOCKED" ELSE "WRITELOCKED") \in entry.attributes }

\* The locks that outlive a loss of power are those in NV.
LocksAreKept(h) ==
    /\ keptLocks[h] \subseteq locks[h]
    /\ started => locks[h] \subseteq Marks(Info(h))
    /\ keptLocks[h] \subseteq Marks(IF IsOrderly(h) THEN savedRam[h] ELSE index[h])

\* Data that was lost with the power is not written any more after the startup.
DataIsLatest(h) ==
    IsDefined(h) /\ ~ IsCounter(h) /\ IsWritten(h) /\ (IsOrderly(h) => started \/ Orderly) =>
        /\ Info(h).data = latest[h].data
        /\ "CLEAR_STCLEAR" \in index[h].attributes => latest[h].age = "PERIOD"
        /\ IsOrderly(h) => latest[h].age # "OLD"

IndexInv(h) ==
    /\ HasRoom(h)
    /\ IsAsDefined(h)
    /\ RamIsSaved(h)
    /\ CountIsKept(h)
    /\ LocksAreKept(h)
    /\ DataIsLatest(h)

NvInv ==
    /\ NvTypeOK
    /\ savedMax <= maxCounter
    /\ \A h \in NvHandle : IndexInv(h)

-----------------------------------------------------------------------------
(* Numbers. *)

USE NvAssumption

\* The larger of two counts.
LEMMA MaxOfTwo ==
    ASSUME NEW a \in Nat, NEW b \in Nat
    PROVE  Max({a, b}) \in Nat /\ Max({a, b}) >= a /\ Max({a, b}) >= b /\ Max({a, b}) \in {a, b}
  <1>1. \E x \in {a, b} : \A y \in {a, b} : x >= y
    BY SMT
  <1> QED
    BY <1>1 DEF Max

\* The largest of some counts, as long as there is a bound.
LEMMA MaxOfBounded ==
    ASSUME NEW S \in SUBSET Nat, S # {}, NEW bound \in Nat, \A x \in S : x <= bound
    PROVE  Max(S) \in S /\ \A x \in S : x <= Max(S)
  <1> DEFINE D == { bound - x : x \in S }
  <1>1. D \in SUBSET Nat /\ D # {}
    <2>1. \A x \in S : x \in Nat /\ bound - x \in Nat
      OBVIOUS
    <2> QED
      BY <2>1
  <1>2. PICK d \in D : \A e \in D : d <= e
    <2>1. PICK d \in D : \A e \in D : ~ (<<e, d>> \in OpToRel(<, Nat))
      BY <1>1, NatLessThanWellFounded, WFMin, Zenon
    <2>2. \A e \in D : ~ (e < d)
      BY <1>1, <2>1 DEF OpToRel
    <2> QED
      BY <1>1, <2>2
  <1>3. PICK x \in S : d = bound - x
    BY <1>2
  <1>4. \A y \in S : y <= x
    BY <1>2, <1>3
  <1>5. \E m \in S : \A y \in S : m >= y
    BY <1>4
  <1> QED
    BY <1>5 DEF Max

\* A count and its low bits.
LEMMA DivMod ==
    ASSUME NEW x \in Nat, NEW d \in Nat, d > 0
    PROVE  /\ x \div d \in Nat
           /\ x % d \in 0 .. (d - 1)
           /\ x = (x \div d) * d + (x % d)
  BY Z3

\* With all low bits set a count is as large as before, or larger.
LEMMA RaisedIsAbove ==
    ASSUME NEW x \in Nat
    PROVE  RaisedCount(x) \in Nat /\ x <= RaisedCount(x)
  <1>1. /\ x \div OrderlyRange \in Nat
        /\ x % OrderlyRange \in 0 .. (OrderlyRange - 1)
        /\ x = (x \div OrderlyRange) * OrderlyRange + (x % OrderlyRange)
    BY DivMod
  <1>2. (x \div OrderlyRange) * OrderlyRange \in Nat
    BY <1>1, Z3
  <1> QED
    BY <1>1, <1>2 DEF RaisedCount

\* A multiple has no remainder.
LEMMA MultipleRollsOver ==
    ASSUME NEW q \in Nat, NEW d \in Nat, d > 0
    PROVE  (q * d + d) % d = 0
  <1> DEFINE n == q * d + d
  <1>1. n \in Nat
    BY Z3
  <1>2. /\ n \div d \in Nat /\ n % d \in 0 .. (d - 1)
        /\ n = (n \div d) * d + (n % d)
    BY <1>1, DivMod
  <1> DEFINE p == n \div d
  <1>3. (q + 1 - p) * d = n % d
    BY <1>2, Z3
  <1>4. q + 1 - p < 1
    <2>1. q + 1 - p >= 1 => (q + 1 - p) * d >= d
      BY <1>2, Z3
    <2> QED
      BY <1>2, <1>3, <2>1
  <1>5. q + 1 - p > -1
    <2>1. q + 1 - p <= -1 => (q + 1 - p) * d <= -d
      BY <1>2, Z3
    <2> QED
      BY <1>2, <1>3, <2>1
  <1>6. q + 1 - p = 0
    BY <1>2, <1>4, <1>5
  <1> QED
    BY <1>3, <1>6, Z3

\* A count that does not roll over stays below the raised value of any count it
\* started from.
LEMMA NextBelowRaised ==
    ASSUME NEW x \in Nat, NEW saved \in Nat, x <= RaisedCount(saved), (x + 1) % OrderlyRange # 0
    PROVE  x + 1 <= RaisedCount(saved)
  <1> DEFINE q == saved \div OrderlyRange
  <1>1. q \in Nat /\ q * OrderlyRange \in Nat
    <2>1. q \in Nat
      BY DivMod
    <2> QED
      BY <2>1, Z3
  <1>2. RaisedCount(saved) = q * OrderlyRange + OrderlyRange - 1
    BY DEF RaisedCount
  <1> HIDE DEF q
  <1>3. x + 1 # q * OrderlyRange + OrderlyRange
    <2>1. OrderlyRange \in Nat /\ OrderlyRange > 0
      OBVIOUS
    <2>2. (q * OrderlyRange + OrderlyRange) % OrderlyRange = 0
      BY <1>1, <2>1, MultipleRollsOver
    <2> QED
      BY <2>2, Zenon
  <1> QED
    BY <1>1, <1>2, <1>3

-----------------------------------------------------------------------------
(* Entries. *)

LEMMA NoneIsNoEntry == None \notin IndexEntry /\ None.attributes = {"NONE"} /\ None.data = 0
  BY DEF None, IndexEntry, Attribute, DefinedAttribute

LEMMA EntryTypes ==
    ASSUME NvTypeOK, NEW h \in NvHandle
    PROVE  /\ index[h] \in IndexEntry \cup {None}
           /\ ram[h] \in IndexEntry \cup {None}
           /\ savedRam[h] \in IndexEntry \cup {None}
           /\ Info(h) \in IndexEntry \cup {None}
           /\ index[h].data \in Nat /\ ram[h].data \in Nat /\ savedRam[h].data \in Nat
           /\ Info(h).data \in Nat
  <1>1. /\ index[h] \in IndexEntry \cup {None}
        /\ ram[h] \in IndexEntry \cup {None}
        /\ savedRam[h] \in IndexEntry \cup {None}
    BY DEF NvTypeOK
  <1>2. \A e \in IndexEntry \cup {None} : e.data \in Nat
    BY NoneIsNoEntry DEF IndexEntry
  <1> QED
    BY <1>1, <1>2 DEF Info

\* What is where the index says, under the invariant.
LEMMA IndexFacts ==
    ASSUME NvInv, NEW h \in NvHandle
    PROVE  /\ IsOrderly(h) => /\ IsDefined(h) /\ Info(h) = ram[h]
                              /\ ram[h] \in IndexEntry /\ savedRam[h] \in IndexEntry
           /\ ~ IsOrderly(h) => Info(h) = index[h] /\ ram[h] = None /\ savedRam[h] = None
           /\ IsDefined(h) => index[h] \in IndexEntry /\ Info(h) \in IndexEntry
           /\ IsCounter(h) => IsDefined(h)
           /\ IsWritten(h) => IsDefined(h)
  <1>1. /\ index[h] \in IndexEntry \cup {None}
        /\ ram[h] \in IndexEntry \cup {None}
        /\ savedRam[h] \in IndexEntry \cup {None}
    BY EntryTypes DEF NvInv
  <1>2. ~ IsDefined(h) => index[h].attributes = {"NONE"}
    BY NoneIsNoEntry DEF IsDefined
  <1>3. IsOrderly(h) => IsDefined(h)
    BY <1>2 DEF IsOrderly
  <1>4. IsCounter(h) => IsDefined(h)
    BY <1>2 DEF IsCounter
  <1>5. /\ ram[h] # None <=> IsOrderly(h)
        /\ savedRam[h] # None <=> IsOrderly(h)
    BY DEF NvInv, IndexInv, HasRoom
  <1>6. IsWritten(h) => IsDefined(h)
    BY <1>2, <1>3 DEF IsWritten, Info
  <1> QED
    BY <1>1, <1>3, <1>4, <1>5, <1>6 DEF Info, IsDefined

\* An index that a command leaves alone.  The RAM may be written to NV while the
\* TPM is up, the note of the shutdown may be taken back, and the largest
\* counter may rise.
LEMMA IndexLeftAlone ==
    ASSUME NvInv, NEW h \in NvHandle,
           index'[h] = index[h], ram'[h] = ram[h], locks'[h] = locks[h], latest'[h] = latest[h],
           highest'[h] = highest[h],
           started' = started, Orderly' => Orderly,
           keptLocks'[h] = keptLocks[h], flushed \subseteq flushed', savedMax <= savedMax',
           savedMax' \in Nat,
           savedRam'[h] = savedRam[h] \/ (started /\ savedRam'[h] = ram[h])
    PROVE  IndexInv(h)'
  <1>1. IndexInv(h) /\ NvTypeOK
    BY DEF NvInv
  <1>2. /\ IsDefined(h)' <=> IsDefined(h)
        /\ IsOrderly(h)' <=> IsOrderly(h)
        /\ IsCounter(h)' <=> IsCounter(h)
        /\ IsWritten(h)' <=> IsWritten(h)
        /\ Info(h)' = Info(h)
    BY DEF IsDefined, IsOrderly, IsCounter, IsWritten, Info
  <1>3. /\ index[h].data \in Nat /\ ram[h].data \in Nat /\ savedRam[h].data \in Nat
        /\ highest[h] \in Nat /\ savedMax \in Nat
    BY <1>1, EntryTypes DEF NvTypeOK
  <1>4. /\ RaisedCount(ram[h].data) \in Nat /\ ram[h].data <= RaisedCount(ram[h].data)
        /\ RaisedCount(savedRam[h].data) \in Nat
    BY <1>3, RaisedIsAbove
  <1>5. HasRoom(h)' /\ IsAsDefined(h)'
    BY <1>1, <1>2 DEF IndexInv, HasRoom, IsAsDefined
  <1>6. RamIsSaved(h)'
    BY <1>1, <1>2 DEF IndexInv, RamIsSaved
  <1>7. CountIsKept(h)'
    <2>1. CASE savedRam'[h] = savedRam[h]
      <3>1. RaisedCount(savedRam[h].data)' = RaisedCount(savedRam[h].data)
        BY <2>1 DEF RaisedCount
      <3> QED
        BY <1>1, <1>2, <1>3, <2>1, <3>1 DEF IndexInv, CountIsKept
    <2>2. CASE started /\ savedRam'[h] = ram[h]
      <3>1. RaisedCount(savedRam[h].data)' = RaisedCount(ram[h].data)
        BY <2>2 DEF RaisedCount
      <3>2. IsOrderly(h) => Info(h) = ram[h]
        BY DEF Info
      <3>3. h \notin flushed /\ IsCounter(h) /\ IsWritten(h) /\ IsOrderly(h) => highest[h] <= ram[h].data
        BY <1>1, <2>2 DEF IndexInv, CountIsKept
      <3> QED
        BY <1>1, <1>2, <1>3, <1>4, <2>2, <3>1, <3>2, <3>3 DEF IndexInv, CountIsKept
    <2> QED
      BY <2>1, <2>2
  <1>8. LocksAreKept(h)'
    <2>1. started => keptLocks[h] \subseteq Marks(Info(h))
      BY <1>1 DEF IndexInv, LocksAreKept
    <2> QED
      BY <1>1, <1>2, <2>1 DEF IndexInv, LocksAreKept, Info, Marks
  <1>9. DataIsLatest(h)'
    BY <1>1, <1>2 DEF IndexInv, DataIsLatest
  <1> QED
    BY <1>5, <1>6, <1>7, <1>8, <1>9 DEF IndexInv

-----------------------------------------------------------------------------
(* Commands that leave the indices alone. *)

LEMMA UnchangedStep ==
    ASSUME NvInv, UNCHANGED <<index, ram, savedRam, savedMax, nvHistory>>, PowerTypeOK',
           started' = started, Orderly' => Orderly, maxCounter' \in Nat, maxCounter <= maxCounter'
    PROVE  NvInv'
  <1>1. \A h \in NvHandle : IndexInv(h)'
    <2> SUFFICES ASSUME NEW h \in NvHandle
                 PROVE  IndexInv(h)'
      OBVIOUS
    <2>1. savedMax \in Nat
      BY DEF NvInv, NvTypeOK
    <2> QED
      BY <2>1, IndexLeftAlone DEF nvHistory
  <1>2. NvTypeOK'
    BY DEF NvInv, NvTypeOK, nvHistory
  <1>3. savedMax' <= maxCounter'
    BY DEF NvInv, NvTypeOK
  <1> QED
    BY <1>1, <1>2, <1>3 DEF NvInv

LEMMA OtherOrderlyNvCommandStep ==
    ASSUME NvInv, OtherOrderlyNvCommand
    PROVE  NvInv'
  <1>1. PowerTypeOK' /\ started' = started /\ ~ Orderly'
    BY DEF OtherOrderlyNvCommand, NvClearOrderly, NvInv, NvTypeOK, PowerTypeOK, Orderly
  <1> QED
    BY <1>1, UnchangedStep DEF OtherOrderlyNvCommand, nvMemory, NvInv, NvTypeOK

LEMMA NvNvSignalStep ==
    ASSUME NvInv, NvNvSignal
    PROVE  NvInv'
  <1>1. nvAvailable' \in BOOLEAN /\ started' = started /\ orderlyState' = orderlyState
    BY DEF NvNvSignal, NvSignal
  <1>2. PowerTypeOK' /\ (Orderly' => Orderly)
    BY <1>1 DEF NvInv, NvTypeOK, PowerTypeOK, Orderly
  <1> QED
    BY <1>1, <1>2, UnchangedStep DEF NvNvSignal, nvMemory, NvInv, NvTypeOK

\* A counter that can not be deleted is noted.
LEMMA UndefineSpaceFailsStep ==
    ASSUME NvInv, NEW h \in NvHandle, UndefineSpaceFails(h)
    PROVE  NvInv'
  <1>1. maxCounter' \in Nat /\ maxCounter <= maxCounter'
    BY EntryTypes, MaxOfTwo DEF UndefineSpaceFails, NvInv, NvTypeOK
  <1>2. UNCHANGED <<powerVars, index, ram, savedRam, savedMax, nvHistory>>
    BY DEF UndefineSpaceFails
  <1>3. PowerTypeOK' /\ started' = started /\ (Orderly' => Orderly)
    BY <1>2 DEF NvInv, NvTypeOK, PowerTypeOK, Orderly, powerVars
  <1> QED
    BY <1>1, <1>2, <1>3, UnchangedStep

-----------------------------------------------------------------------------
(* Definition and deletion. *)

LEMMA NewIndex ==
    ASSUME NEW h \in NvHandle, NEW template \in Templates[h]
    PROVE  /\ [attributes |-> template, data |-> 0] \in IndexEntry
           /\ IsTemplate(template) /\ template \subseteq DefinedAttribute
           /\ {"WRITTEN", "READLOCKED", "WRITELOCKED"} \cap template = {}
  <1>1. IsTemplate(template)
    OBVIOUS
  <1> QED
    BY <1>1 DEF IsTemplate, IndexEntry, Attribute, DefinedAttribute

LEMMA DefineSpaceStep ==
    ASSUME NvInv, NEW h \in NvHandle, NEW template \in Templates[h], DefineSpace(h, template)
    PROVE  NvInv'
  <1> DEFINE new == [attributes |-> template, data |-> 0]
             image == [ram EXCEPT ![h] = new]
  <1>1. /\ NvTypeOK /\ savedMax <= maxCounter /\ \A k \in NvHandle : IndexInv(k)
        /\ started /\ ~ IsDefined(h)
        /\ UNCHANGED <<powerVars, maxCounter, nvHistory>>
        /\ index' = [index EXCEPT ![h] = new]
        /\ savedMax' = maxCounter
        /\ maxCounter \in Nat /\ savedMax \in Nat
    BY DEF NvInv, DefineSpace, NvTypeOK
  <1>2. /\ "ORDERLY" \in template => ram' = image /\ savedRam' = image
        /\ "ORDERLY" \notin template => ram' = ram /\ savedRam' = savedRam
    BY DEF DefineSpace, NvAddRAM, WriteOrderlyRam
  <1>3. /\ new \in IndexEntry /\ IsTemplate(template) /\ template \subseteq DefinedAttribute
        /\ {"WRITTEN", "READLOCKED", "WRITELOCKED"} \cap template = {}
        /\ new.attributes = template /\ new.data = 0
    BY NewIndex
  <1> HIDE DEF new
  <1>4. NvTypeOK'
    <2>1. index' \in [NvHandle -> IndexEntry \cup {None}] /\ image \in [NvHandle -> IndexEntry \cup {None}]
      BY <1>1, <1>3 DEF NvTypeOK
    <2>2. {ram', savedRam'} \subseteq [NvHandle -> IndexEntry \cup {None}]
      BY <1>1, <1>2, <2>1, SMTT(30) DEF NvTypeOK
    <2>3. PowerTypeOK'
      BY <1>1 DEF NvTypeOK, PowerTypeOK, powerVars
    <2> QED
      BY <1>1, <2>1, <2>2, <2>3 DEF NvTypeOK, nvHistory
  <1>5. ASSUME NEW k \in NvHandle \ {h}
        PROVE  IndexInv(k)'
    <2>1. /\ index'[k] = index[k] /\ ram'[k] = ram[k]
          /\ savedRam'[k] = savedRam[k] \/ savedRam'[k] = ram[k]
      BY <1>1, <1>2 DEF NvTypeOK
    <2> QED
      BY <1>1, <2>1, IndexLeftAlone DEF powerVars, nvHistory, Orderly
  <1>6. IndexInv(h)'
    <2>1. /\ index'[h] = new
          /\ IF "ORDERLY" \in template THEN ram'[h] = new /\ savedRam'[h] = new
                                       ELSE ram'[h] = None /\ savedRam'[h] = None
      <3>1. ~ IsOrderly(h)
        BY <1>1, IndexFacts
      <3> QED
        BY <1>1, <1>2, <3>1, IndexFacts DEF NvTypeOK
    <2>2. /\ IsOrderly(h)' <=> "ORDERLY" \in template
          /\ IsCounter(h)' <=> "COUNTER" \in template
          /\ IsDefined(h)' /\ Info(h)' = new /\ ~ IsWritten(h)'
      BY <1>3, <2>1, NoneIsNoEntry DEF IsOrderly, IsCounter, IsDefined, Info, IsWritten
    <2>3. HasRoom(h)' /\ IsAsDefined(h)'
      <3>1. template \cap DefinedAttribute = template
        BY <1>3
      <3> QED
        BY <1>3, <2>1, <2>2, <3>1, NoneIsNoEntry DEF HasRoom, IsAsDefined
    <2>4. RamIsSaved(h)'
      BY <2>1, <2>2 DEF RamIsSaved
    <2>5. CountIsKept(h)'
      <3>1. ~ (IsCounter(h) /\ IsWritten(h))
        BY <1>1, IndexFacts
      <3>2. h \notin flushed => highest[h] <= savedMax
        BY <1>1, <3>1 DEF IndexInv, CountIsKept
      <3>3. highest[h] \in Nat /\ 0 <= RaisedCount(0) /\ RaisedCount(0) \in Nat
        BY <1>1, RaisedIsAbove DEF NvTypeOK
      <3>4. "ORDERLY" \in template => RaisedCount(savedRam[h].data)' = RaisedCount(0)
        BY <1>3, <2>1 DEF RaisedCount
      <3> QED
        BY <1>1, <1>3, <2>1, <2>2, <3>2, <3>3, <3>4 DEF CountIsKept, nvHistory
    <2>6. LocksAreKept(h)'
      <3>1. locks[h] = {} /\ keptLocks[h] = {}
        <4>1. locks[h] \subseteq Marks(Info(h)) /\ keptLocks[h] \subseteq locks[h]
          BY <1>1 DEF IndexInv, LocksAreKept
        <4>2. Info(h) = None
          BY <1>1, IndexFacts DEF IsDefined
        <4> QED
          BY <4>1, <4>2, NoneIsNoEntry DEF Marks
      <3> QED
        BY <1>1, <3>1 DEF LocksAreKept, nvHistory
    <2>7. DataIsLatest(h)'
      BY <2>2 DEF DataIsLatest
    <2> QED
      BY <2>3, <2>4, <2>5, <2>6, <2>7 DEF IndexInv
  <1> QED
    BY <1>1, <1>4, <1>5, <1>6 DEF NvInv

\* Indices are deleted with descriptors that are those in use, or those in NV.
\* The counters whose value is not noted are among the orderly ones flushed.
LEMMA DeleteStep ==
    ASSUME NvInv, NEW deleted \in SUBSET NvHandle, NEW descriptor,
           started, started' = started, Orderly' => Orderly, PowerTypeOK',
           NvDeleteIndex(deleted, descriptor),
           \A h \in deleted :
              IsCounter(h) /\ IsWritten(h) /\ h \notin flushed' =>
                  {"COUNTER", "WRITTEN"} \subseteq descriptor[h].attributes,
           \A h \in deleted :
              {"COUNTER", "WRITTEN"} \subseteq descriptor[h].attributes => IsCounter(h),
           flushed \subseteq flushed', flushed' \subseteq NvHandle,
           UNCHANGED <<highest, latest>>
    PROVE  NvInv'
  <1> DEFINE noted == { h \in deleted : {"COUNTER", "WRITTEN"} \subseteq descriptor[h].attributes }
             counts == {maxCounter} \cup { Info(h).data : h \in noted }
             image == [h \in NvHandle |-> IF h \in deleted THEN None ELSE ram[h]]
  <1>1. /\ NvTypeOK /\ savedMax <= maxCounter /\ \A k \in NvHandle : IndexInv(k)
        /\ maxCounter \in Nat /\ savedMax \in Nat
    BY DEF NvInv, NvTypeOK
  <1>2. /\ maxCounter' = Max(counts) /\ savedMax' = maxCounter'
        /\ index' = [h \in NvHandle |-> IF h \in deleted THEN None ELSE index[h]]
        /\ locks' = [h \in NvHandle |-> IF h \in deleted THEN {} ELSE locks[h]]
        /\ keptLocks' = [h \in NvHandle |-> IF h \in deleted THEN {} ELSE keptLocks[h]]
    BY DEF NvDeleteIndex
  <1>3. IF \E h \in deleted : IsOrderly(h) THEN ram' = image /\ savedRam' = image
                                            ELSE ram' = ram /\ savedRam' = savedRam
    BY DEF NvDeleteIndex, WriteOrderlyRam
  <1>4. /\ maxCounter' \in Nat /\ maxCounter <= maxCounter'
        /\ \A h \in noted : Info(h).data <= maxCounter'
    <2>1. \A h \in noted : Info(h).data \in Nat /\ Info(h).data <= MaxCount
      BY <1>1, EntryTypes DEF IndexInv, CountIsKept
    <2>2. PICK bound \in Nat : maxCounter <= bound /\ MaxCount <= bound
      BY <1>1
    <2>3. counts \in SUBSET Nat /\ counts # {} /\ \A x \in counts : x <= bound
      BY <1>1, <2>1, <2>2
    <2>4. Max(counts) \in counts /\ \A x \in counts : x <= Max(counts)
      BY <2>3, MaxOfBounded
    <2>5. \A h \in noted : Info(h).data \in counts
      OBVIOUS
    <2> QED
      BY <1>2, <2>3, <2>4, <2>5
  <1> HIDE DEF counts
  <1>5. ASSUME NEW k \in NvHandle \ deleted
        PROVE  IndexInv(k)'
    <2>1. /\ index'[k] = index[k] /\ locks'[k] = locks[k] /\ keptLocks'[k] = keptLocks[k]
      BY <1>2
    <2>2. ram'[k] = ram[k] /\ (savedRam'[k] = savedRam[k] \/ savedRam'[k] = ram[k])
      BY <1>3
    <2>3. savedMax <= savedMax' /\ savedMax' \in Nat
      BY <1>1, <1>2, <1>4
    <2> QED
      BY <1>1, <2>1, <2>2, <2>3, IndexLeftAlone
  <1>6. ASSUME NEW h \in deleted
        PROVE  IndexInv(h)'
    <2>1. /\ index'[h] = None /\ locks'[h] = {} /\ keptLocks'[h] = {}
      BY <1>2
    <2>2. ram'[h] = None /\ savedRam'[h] = None
      BY <1>3, IndexFacts
    <2>3. /\ ~ IsOrderly(h)' /\ ~ IsCounter(h)' /\ ~ IsDefined(h)' /\ ~ IsWritten(h)'
      BY <2>1, NoneIsNoEntry DEF IsOrderly, IsCounter, IsDefined, IsWritten, Info
    <2>4. HasRoom(h)' /\ IsAsDefined(h)' /\ RamIsSaved(h)' /\ LocksAreKept(h)' /\ DataIsLatest(h)'
      BY <2>1, <2>2, <2>3 DEF HasRoom, IsAsDefined, RamIsSaved, LocksAreKept, DataIsLatest
    <2>5. h \notin flushed' => highest[h] <= savedMax'
      <3> SUFFICES ASSUME h \notin flushed'
                   PROVE  highest[h] <= maxCounter'
        BY <1>2
      <3>1. CountIsKept(h) /\ h \notin flushed /\ highest[h] \in Nat
        BY <1>1 DEF IndexInv, NvTypeOK
      <3>2. CASE IsCounter(h) /\ IsWritten(h)
        <4>1. Info(h).data <= maxCounter' /\ Info(h).data \in Nat
          BY <1>1, <1>4, <3>2, EntryTypes
        <4>2. highest[h] <= Info(h).data
          BY <3>1, <3>2, IndexFacts DEF CountIsKept
        <4> QED
          BY <1>4, <3>1, <4>1, <4>2
      <3>3. CASE ~ (IsCounter(h) /\ IsWritten(h))
        BY <1>1, <1>4, <3>1, <3>3 DEF CountIsKept
      <3> QED
        BY <3>2, <3>3
    <2>6. CountIsKept(h)'
      BY <2>3, <2>5 DEF CountIsKept
    <2> QED
      BY <2>4, <2>6 DEF IndexInv
  <1>7. NvTypeOK'
    <2>1. index' \in [NvHandle -> IndexEntry \cup {None}] /\ image \in [NvHandle -> IndexEntry \cup {None}]
      BY <1>1, <1>2 DEF NvTypeOK
    <2>2. {ram', savedRam'} \subseteq [NvHandle -> IndexEntry \cup {None}]
      BY <1>1, <1>3, <2>1 DEF NvTypeOK
    <2>3. {locks', keptLocks'} \subseteq [NvHandle -> SUBSET {"READ", "WRITE"}]
      BY <1>1, <1>2 DEF NvTypeOK
    <2> QED
      BY <1>1, <1>2, <1>4, <2>1, <2>2, <2>3 DEF NvTypeOK
  <1> QED
    BY <1>2, <1>4, <1>5, <1>6, <1>7 DEF NvInv

LEMMA UndefineSpaceStep ==
    ASSUME NvInv, NEW h \in NvHandle, UndefineSpace(h)
    PROVE  NvInv'
  <1> DEFINE descriptor == [k \in NvHandle |-> Info(k)]
  <1>1. /\ IsCounter(h) /\ IsWritten(h) => {"COUNTER", "WRITTEN"} \subseteq descriptor[h].attributes
        /\ "COUNTER" \in descriptor[h].attributes => IsCounter(h)
    <2>1. "COUNTER" \in Info(h).attributes <=> IsCounter(h)
      BY IndexFacts DEF NvInv, IndexInv, IsAsDefined, IsCounter, DefinedAttribute
    <2> QED
      BY <2>1 DEF IsWritten
  <1>2. NvDeleteIndex({h}, descriptor) /\ UNCHANGED <<powerVars, highest, flushed, latest>> /\ started
    BY DEF UndefineSpace
  <1>3. PowerTypeOK' /\ started' = started /\ (Orderly' => Orderly) /\ flushed \subseteq NvHandle
    BY <1>2 DEF NvInv, NvTypeOK, PowerTypeOK, Orderly, powerVars
  <1> HIDE DEF descriptor
  <1> QED
    BY <1>1, <1>2, <1>3, DeleteStep

\* In NV an orderly counter is not written, but then it counts as flushed.
LEMMA ClearOwnerIndicesStep ==
    ASSUME NvInv, ClearOwnerIndices
    PROVE  NvInv'
  <1> DEFINE owned == { h \in NvHandle : IsDefined(h) /\ "PLATFORMCREATE" \notin index[h].attributes }
  <1>1. /\ started /\ NvClearOrderly /\ NvDeleteIndex(owned, index)
        /\ flushed' = flushed \cup { h \in owned : IsOrderly(h) /\ IsCounter(h) /\ IsWritten(h) }
        /\ UNCHANGED <<highest, latest>>
    BY DEF ClearOwnerIndices
  <1>2. PowerTypeOK' /\ started' = started /\ ~ Orderly' /\ flushed \subseteq NvHandle
    BY <1>1 DEF NvClearOrderly, NvInv, NvTypeOK, PowerTypeOK, Orderly
  <1>3. \A h \in owned : IsCounter(h) /\ IsWritten(h) /\ h \notin flushed' =>
            {"COUNTER", "WRITTEN"} \subseteq index[h].attributes
    BY <1>1 DEF IsCounter, IsWritten, Info
  <1>4. \A h \in owned : {"COUNTER", "WRITTEN"} \subseteq index[h].attributes => IsCounter(h)
    BY DEF IsCounter
  <1>5. flushed \subseteq flushed' /\ flushed' \subseteq NvHandle /\ owned \in SUBSET NvHandle
    BY <1>1, <1>2
  <1> HIDE DEF owned
  <1> QED
    BY <1>1, <1>2, <1>3, <1>4, <1>5, DeleteStep

-----------------------------------------------------------------------------
(* Writes. *)

LEMMA WrittenEntry ==
    ASSUME NvInv, NEW h \in NvHandle, IsDefined(h), NEW value \in Nat
    PROVE  /\ Written(h, value) \in IndexEntry
           /\ Written(h, value).data = value
           /\ Written(h, value).attributes = Info(h).attributes \cup {"WRITTEN"}
           /\ Marks(Written(h, value)) = Marks(Info(h))
  <1>1. Info(h) \in IndexEntry
    BY IndexFacts
  <1>2. Written(h, value).attributes = Info(h).attributes \cup {"WRITTEN"}
    BY DEF Written
  <1>3. Marks(Written(h, value)) = Marks(Info(h))
    BY <1>2 DEF Marks
  <1> QED
    BY <1>1, <1>2, <1>3 DEF Written, IndexEntry, Attribute

\* What NvWriteIndexData leaves behind.  Only an orderly index that is written
\* in RAM alone differs from what NV has.
LEMMA WriteIndexData ==
    ASSUME NvInv, NEW h \in NvHandle, IsDefined(h), started, NEW value \in Nat, NEW rollsOver \in BOOLEAN,
           NvWriteIndexData(h, value, rollsOver),
           UNCHANGED <<maxCounter, savedMax, flushed, locks, keptLocks>>,
           \A k \in NvHandle \ {h} : latest'[k] = latest[k] /\ highest'[k] = highest[k],
           latest' \in [NvHandle -> [data : Nat, age : Age]], highest' \in [NvHandle -> Nat]
    PROVE  /\ NvTypeOK' /\ savedMax' <= maxCounter' /\ started' = started
           /\ \A k \in NvHandle \ {h} : IndexInv(k)'
           /\ IsOrderly(h)' <=> IsOrderly(h)
           /\ IsCounter(h)' <=> IsCounter(h)
           /\ IsDefined(h)' /\ IsWritten(h)'
           /\ Info(h)' = Written(h, value)
           /\ IsOrderly(h) =>
                 /\ ~ Orderly' /\ index'[h] = index[h] /\ ram'[h] = Written(h, value)
                 /\ IF IsCounter(h) /\ (rollsOver \/ ~ IsWritten(h))
                    THEN savedRam'[h] = Written(h, value) ELSE savedRam'[h] = savedRam[h]
           /\ ~ IsOrderly(h) => index'[h] = Written(h, value) /\ ram'[h] = None /\ savedRam'[h] = None
           /\ HasRoom(h)' /\ IsAsDefined(h)' /\ LocksAreKept(h)'
  <1> DEFINE w == Written(h, value)
             image == [ram EXCEPT ![h] = w]
  <1>1. /\ NvTypeOK /\ savedMax <= maxCounter /\ IndexInv(h)
        /\ w \in IndexEntry /\ w.data = value
        /\ w.attributes = Info(h).attributes \cup {"WRITTEN"}
        /\ Marks(w) = Marks(Info(h))
    BY WrittenEntry DEF NvInv
  <1> HIDE DEF w
  <1>2. CASE IsOrderly(h)
    <2>1. /\ orderlyState' = "NONE" /\ UNCHANGED <<index, started, nvAvailable>> /\ ram' = image
          /\ IF IsCounter(h) /\ (rollsOver \/ ~ IsWritten(h)) THEN savedRam' = image
             ELSE savedRam' = savedRam
      BY <1>2 DEF NvWriteIndexData, WriteOrderlyRam, w
    <2>2. /\ index \in [NvHandle -> IndexEntry \cup {None}] /\ ram \in [NvHandle -> IndexEntry \cup {None}]
          /\ savedRam \in [NvHandle -> IndexEntry \cup {None}] /\ savedMax \in Nat
      BY <1>1 DEF NvTypeOK
    <2>3. NvTypeOK'
      <3>1. image \in [NvHandle -> IndexEntry \cup {None}]
        BY <1>1, <2>2
      <3>2. {index', ram', savedRam'} \subseteq [NvHandle -> IndexEntry \cup {None}]
        BY <2>1, <2>2, <3>1
      <3>3. PowerTypeOK'
        BY <1>1, <2>1 DEF NvTypeOK, PowerTypeOK
      <3> QED
        BY <1>1, <3>2, <3>3 DEF NvTypeOK
    <2>4. ASSUME NEW k \in NvHandle \ {h}
          PROVE  IndexInv(k)'
      <3>1. ram'[k] = ram[k] /\ (savedRam'[k] = savedRam[k] \/ savedRam'[k] = ram[k])
        BY <2>1, <2>2
      <3> QED
        BY <2>1, <2>2, <3>1, IndexLeftAlone DEF Orderly
    <2>5. /\ IsOrderly(h)' /\ (IsCounter(h)' <=> IsCounter(h)) /\ IsDefined(h)'
      BY <1>2, <2>1 DEF IsOrderly, IsCounter, IsDefined
    <2>6. ram'[h] = w /\ Info(h)' = w /\ IsWritten(h)'
      BY <1>1, <2>1, <2>2, <2>5 DEF Info, IsWritten
    <2>7. IF IsCounter(h) /\ (rollsOver \/ ~ IsWritten(h)) THEN savedRam'[h] = w
          ELSE savedRam'[h] = savedRam[h]
      BY <2>1, <2>2
    <2>8. /\ Info(h) = ram[h] /\ w # None /\ savedRam[h] # None
          /\ w.attributes \cap DefinedAttribute = index[h].attributes
      BY <1>1, <1>2, IndexFacts, NoneIsNoEntry DEF IndexInv, IsAsDefined, DefinedAttribute
    <2>9. HasRoom(h)' /\ IsAsDefined(h)'
      BY <1>1, <1>2, <2>1, <2>5, <2>6, <2>7, <2>8 DEF HasRoom, IsAsDefined, IndexInv
    <2>10. LocksAreKept(h)'
      <3>1. keptLocks[h] \subseteq Marks(savedRam'[h])
        BY <1>1, <1>2, <2>7 DEF IndexInv, LocksAreKept
      <3>2. Marks(savedRam'[h]) = Marks(savedRam[h])'
        BY DEF Marks
      <3>3. locks[h] \subseteq Marks(w) /\ Marks(w) = Marks(Info(h))'
        BY <1>1, <2>6 DEF IndexInv, LocksAreKept, Marks
      <3> QED
        BY <1>1, <2>5, <3>1, <3>2, <3>3 DEF LocksAreKept, IndexInv
    <2> QED
      BY <1>1, <1>2, <2>1, <2>3, <2>4, <2>5, <2>6, <2>7, <2>9, <2>10 DEF Orderly, w
  <1>3. CASE ~ IsOrderly(h)
    <2>1. /\ index' = [index EXCEPT ![h] = w] /\ UNCHANGED <<powerVars, ram, savedRam>>
      BY <1>3 DEF NvWriteIndexData, w
    <2>2. index \in [NvHandle -> IndexEntry \cup {None}] /\ savedMax \in Nat
      BY <1>1 DEF NvTypeOK
    <2>3. NvTypeOK'
      <3>1. index' \in [NvHandle -> IndexEntry \cup {None}]
        BY <1>1, <2>1, <2>2
      <3> QED
        BY <1>1, <2>1, <3>1 DEF NvTypeOK, PowerTypeOK, powerVars
    <2>4. ASSUME NEW k \in NvHandle \ {h}
          PROVE  IndexInv(k)'
      <3>1. index'[k] = index[k]
        BY <2>1, <2>2
      <3> QED
        BY <2>1, <2>2, <3>1, IndexLeftAlone DEF powerVars, Orderly
    <2>5. /\ index'[h] = w /\ Info(h) = index[h] /\ ram'[h] = None /\ savedRam'[h] = None
          /\ w # None
      BY <1>1, <1>3, <2>1, <2>2, IndexFacts, NoneIsNoEntry
    <2>6. /\ ~ IsOrderly(h)' /\ (IsCounter(h)' <=> IsCounter(h)) /\ IsDefined(h)'
      BY <1>1, <1>3, <2>5 DEF IsOrderly, IsCounter, IsDefined
    <2>7. Info(h)' = w /\ IsWritten(h)'
      BY <1>1, <2>5, <2>6 DEF Info, IsWritten
    <2>8. HasRoom(h)' /\ IsAsDefined(h)'
      <3>1. w.attributes \cap DefinedAttribute = index[h].attributes \cap DefinedAttribute
        BY <1>1, <2>5 DEF DefinedAttribute
      <3> QED
        BY <1>1, <2>5, <2>6, <3>1 DEF HasRoom, IsAsDefined, IndexInv
    <2>9. LocksAreKept(h)'
      <3>1. Marks(w) = Marks(index[h])' /\ Marks(w) = Marks(Info(h))'
        BY <2>5, <2>7 DEF Marks
      <3> QED
        BY <1>1, <1>3, <2>1, <2>5, <2>6, <3>1 DEF LocksAreKept, IndexInv, powerVars
    <2> QED
      BY <1>1, <1>3, <2>1, <2>3, <2>4, <2>5, <2>6, <2>7, <2>8, <2>9 DEF powerVars, w
  <1> QED
    BY <1>2, <1>3

LEMMA WriteStep ==
    ASSUME NvInv, NEW h \in NvHandle, NEW value \in NvData, Write(h, value)
    PROVE  NvInv'
  <1> DEFINE w == Written(h, value)
  <1>1. /\ IsDefined(h) /\ started /\ value \in Nat /\ ~ IsCounter(h)
        /\ NvWriteIndexData(h, value, FALSE)
        /\ UNCHANGED <<maxCounter, savedMax, highest, flushed, locks, keptLocks>>
        /\ latest' = [latest EXCEPT ![h] = [data |-> value, age |-> "PERIOD"]]
    BY DEF Write
  <1>2. /\ latest \in [NvHandle -> [data : Nat, age : Age]] /\ highest \in [NvHandle -> Nat]
        /\ savedMax \in Nat /\ IndexInv(h)
    BY DEF NvInv, NvTypeOK
  <1>3. /\ latest' \in [NvHandle -> [data : Nat, age : Age]]
        /\ latest'[h] = [data |-> value, age |-> "PERIOD"]
        /\ \A k \in NvHandle \ {h} : latest'[k] = latest[k] /\ highest'[k] = highest[k]
    BY <1>1, <1>2 DEF Age
  <1>4. /\ NvTypeOK' /\ savedMax' <= maxCounter' /\ started' = started
        /\ \A k \in NvHandle \ {h} : IndexInv(k)'
        /\ IsOrderly(h)' <=> IsOrderly(h)
        /\ ~ IsCounter(h)'
        /\ IsDefined(h)' /\ IsWritten(h)'
        /\ Info(h)' = w
        /\ IsOrderly(h) => ~ Orderly'
        /\ HasRoom(h)' /\ IsAsDefined(h)' /\ LocksAreKept(h)'
    BY <1>1, <1>2, <1>3, WriteIndexData
  <1>5. w.data = value
    BY <1>1, WrittenEntry
  <1> HIDE DEF w
  <1>6. RamIsSaved(h)'
    BY <1>1, <1>4 DEF RamIsSaved
  <1>7. CountIsKept(h)'
    BY <1>1, <1>2, <1>4 DEF CountIsKept, IndexInv
  <1>8. DataIsLatest(h)'
    BY <1>3, <1>4, <1>5 DEF DataIsLatest
  <1> QED
    BY <1>4, <1>6, <1>7, <1>8 DEF NvInv, IndexInv

LEMMA IncrementStep ==
    ASSUME NvInv, NEW h \in NvHandle, Increment(h)
    PROVE  NvInv'
  <1> DEFINE count == NextCount(h)
             rollsOver == count % OrderlyRange = 0
             w == Written(h, count)
  <1>1. /\ IsDefined(h) /\ started /\ IsCounter(h) /\ count <= MaxCount
        /\ NvWriteIndexData(h, count, rollsOver)
        /\ UNCHANGED <<maxCounter, savedMax, latest, flushed, locks, keptLocks>>
        /\ highest' = [highest EXCEPT ![h] = Max({@, count})]
    BY DEF Increment
  <1>2. /\ latest \in [NvHandle -> [data : Nat, age : Age]] /\ highest \in [NvHandle -> Nat]
        /\ savedMax \in Nat /\ maxCounter \in Nat /\ IndexInv(h) /\ savedMax <= maxCounter
        /\ Info(h).data \in Nat /\ ram[h].data \in Nat /\ savedRam[h].data \in Nat
    BY EntryTypes DEF NvInv, NvTypeOK
  <1>3. /\ count \in Nat
        /\ IF IsWritten(h) THEN count = Info(h).data + 1 ELSE count = maxCounter + 1
    BY <1>2 DEF NextCount
  <1> HIDE DEF count
  <1>4. /\ highest' \in [NvHandle -> Nat]
        /\ highest'[h] \in {highest[h], count}
        /\ \A k \in NvHandle \ {h} : latest'[k] = latest[k] /\ highest'[k] = highest[k]
    BY <1>1, <1>2, <1>3, MaxOfTwo
  <1>5. /\ NvTypeOK' /\ savedMax' <= maxCounter' /\ started' = started
        /\ \A k \in NvHandle \ {h} : IndexInv(k)'
        /\ IsOrderly(h)' <=> IsOrderly(h)
        /\ IsCounter(h)' /\ IsDefined(h)' /\ IsWritten(h)'
        /\ Info(h)' = w
        /\ IsOrderly(h) =>
              /\ ~ Orderly' /\ ram'[h] = w
              /\ IF rollsOver \/ ~ IsWritten(h) THEN savedRam'[h] = w ELSE savedRam'[h] = savedRam[h]
        /\ ~ IsOrderly(h) => index'[h] = w
        /\ HasRoom(h)' /\ IsAsDefined(h)' /\ LocksAreKept(h)'
    BY <1>1, <1>2, <1>3, <1>4, WriteIndexData
  <1>6. w.data = count /\ "WRITTEN" \in w.attributes
    BY <1>1, <1>3, WrittenEntry
  <1> HIDE DEF w
  <1>7. RamIsSaved(h)'
    <2>1. IsOrderly(h) => "WRITTEN" \in savedRam'[h].attributes
      BY <1>1, <1>2, <1>5, <1>6 DEF IndexInv, RamIsSaved, IsWritten, Info
    <2> QED
      BY <1>1, <1>5, <1>6, <2>1 DEF RamIsSaved
  <1>8. CountIsKept(h)'
    <2>1. h \notin flushed => highest'[h] <= count
      BY <1>1, <1>2, <1>3, <1>4 DEF IndexInv, CountIsKept, Info
    <2>2. CASE IsOrderly(h)
      <3>1. Info(h) = ram[h] /\ CountIsKept(h)
        BY <1>2, <2>2 DEF IndexInv, Info
      <3>2. savedRam'[h].data <= MaxCount
        BY <1>1, <1>5, <1>6, <2>2, <3>1 DEF CountIsKept
      <3>3. count <= RaisedCount(savedRam'[h].data) /\ RaisedCount(savedRam'[h].data) \in Nat
        <4>1. CASE rollsOver \/ ~ IsWritten(h)
          BY <1>3, <1>5, <1>6, <2>2, <4>1, RaisedIsAbove
        <4>2. CASE ~ rollsOver /\ IsWritten(h)
          <5>1. savedRam'[h] = savedRam[h] /\ ram[h].data <= RaisedCount(savedRam[h].data)
                /\ count = ram[h].data + 1
            BY <1>1, <1>3, <1>5, <2>2, <3>1, <4>2 DEF CountIsKept
          <5> QED
            BY <1>2, <4>2, <5>1, NextBelowRaised, RaisedIsAbove
        <4> QED
          BY <4>1, <4>2
      <3>4. RaisedCount(savedRam'[h].data) = RaisedCount(savedRam[h].data)'
        BY DEF RaisedCount
      <3> QED
        BY <1>1, <1>3, <1>4, <1>5, <1>6, <2>1, <2>2, <3>2, <3>3, <3>4 DEF CountIsKept
    <2>3. CASE ~ IsOrderly(h)
      BY <1>1, <1>5, <1>6, <2>1, <2>3 DEF CountIsKept
    <2> QED
      BY <2>2, <2>3
  <1>9. DataIsLatest(h)'
    BY <1>5 DEF DataIsLatest
  <1> QED
    BY <1>5, <1>7, <1>8, <1>9 DEF NvInv, IndexInv

-----------------------------------------------------------------------------
(* Locks. *)

\* A lock is noted with the index, in RAM if the index is orderly.
LEMMA LockStep ==
    ASSUME NvInv, started, NEW handles \in SUBSET NvHandle, \A h \in handles : IsDefined(h),
           NEW lock \in {"READ", "WRITE"}, NEW attribute,
           attribute = IF lock = "READ" THEN "READLOCKED" ELSE "WRITELOCKED",
           NvWriteIndexAttribute(handles, attribute),
           Lock(handles, lock)
    PROVE  NvInv'
  <1> DEFINE orderly == { h \in handles : IsOrderly(h) }
             others == { h \in handles : ~ IsOrderly(h) }
             with(e) == [e EXCEPT !.attributes = @ \cup {attribute}]
  <1>1. /\ NvTypeOK /\ savedMax <= maxCounter /\ \A k \in NvHandle : IndexInv(k)
    BY DEF NvInv
  <1>2. /\ ram' = [h \in NvHandle |-> IF h \in orderly THEN with(ram[h]) ELSE ram[h]]
        /\ index' = [h \in NvHandle |-> IF h \in others THEN with(index[h]) ELSE index[h]]
        /\ UNCHANGED <<powerVars, savedRam, maxCounter, savedMax>>
    BY DEF NvWriteIndexAttribute
  <1>3. /\ locks' = [h \in NvHandle |-> IF h \in handles THEN locks[h] \cup {lock} ELSE locks[h]]
        /\ keptLocks' = [h \in NvHandle |-> IF h \in handles /\ ~ IsOrderly(h)
                                            THEN keptLocks[h] \cup {lock} ELSE keptLocks[h]]
        /\ UNCHANGED <<highest, flushed, latest>>
    BY DEF Lock
  <1>4. \A e \in IndexEntry :
            /\ with(e) \in IndexEntry /\ with(e).data = e.data
            /\ with(e).attributes = e.attributes \cup {attribute}
            /\ with(e).attributes \cap DefinedAttribute = e.attributes \cap DefinedAttribute
            /\ "WRITTEN" \in with(e).attributes <=> "WRITTEN" \in e.attributes
            /\ Marks(with(e)) = Marks(e) \cup {lock}
    <2>1. attribute \in Attribute \ (DefinedAttribute \cup {"WRITTEN"})
      BY DEF Attribute, DefinedAttribute
    <2> SUFFICES ASSUME NEW e \in IndexEntry
                 PROVE  /\ with(e) \in IndexEntry /\ with(e).data = e.data
                        /\ with(e).attributes = e.attributes \cup {attribute}
                        /\ with(e).attributes \cap DefinedAttribute = e.attributes \cap DefinedAttribute
                        /\ "WRITTEN" \in with(e).attributes <=> "WRITTEN" \in e.attributes
                        /\ Marks(with(e)) = Marks(e) \cup {lock}
      OBVIOUS
    <2>2. /\ with(e) \in IndexEntry /\ with(e).data = e.data
          /\ with(e).attributes = e.attributes \cup {attribute}
      BY <2>1 DEF IndexEntry
    <2>3. Marks(with(e)) = Marks(e) \cup {lock}
      BY <2>2 DEF Marks
    <2> HIDE DEF with
    <2> QED
      BY <2>1, <2>2, <2>3
  <1> HIDE DEF with
  <1>5. ASSUME NEW h \in NvHandle \ handles
        PROVE  IndexInv(h)'
    <2>1. /\ index'[h] = index[h] /\ ram'[h] = ram[h] /\ locks'[h] = locks[h]
          /\ keptLocks'[h] = keptLocks[h]
      BY <1>2, <1>3
    <2> QED
      BY <1>1, <1>2, <1>3, <2>1, IndexLeftAlone DEF powerVars, Orderly, NvTypeOK
  <1>6. ASSUME NEW h \in orderly
        PROVE  IndexInv(h)'
    <2>1. /\ IndexInv(h) /\ ram[h] \in IndexEntry /\ Info(h) = ram[h] /\ IsOrderly(h) /\ IsDefined(h)
      BY <1>1, IndexFacts
    <2>2. /\ ram'[h] = with(ram[h]) /\ index'[h] = index[h]
          /\ locks'[h] = locks[h] \cup {lock} /\ keptLocks'[h] = keptLocks[h]
      BY <1>2, <1>3
    <2>3. /\ IsOrderly(h)' /\ IsDefined(h)' /\ (IsCounter(h)' <=> IsCounter(h))
      BY <2>1, <2>2 DEF IsOrderly, IsDefined, IsCounter
    <2>4. Info(h)' = with(ram[h]) /\ (IsWritten(h)' <=> IsWritten(h))
      BY <1>4, <2>1, <2>2, <2>3 DEF Info, IsWritten
    <2>5. HasRoom(h)' /\ IsAsDefined(h)' /\ RamIsSaved(h)'
      <3>1. /\ ram'[h] \in IndexEntry /\ ram'[h].data = ram[h].data
            /\ ram'[h].attributes \cap DefinedAttribute = ram[h].attributes \cap DefinedAttribute
            /\ "WRITTEN" \in ram'[h].attributes <=> "WRITTEN" \in ram[h].attributes
        BY <1>4, <2>1, <2>2
      <3>2. savedRam' = savedRam /\ started' /\ (Orderly' <=> Orderly)
        BY <1>2 DEF powerVars, Orderly
      <3>3. HasRoom(h)'
        BY <2>1, <2>3, <3>1, <3>2, NoneIsNoEntry DEF IndexInv, HasRoom
      <3>4. IsAsDefined(h)'
        BY <2>1, <2>2, <2>3, <3>1, <3>2 DEF IndexInv, IsAsDefined
      <3>5. RamIsSaved(h)'
        BY <2>1, <2>3, <3>1, <3>2 DEF IndexInv, RamIsSaved
      <3> QED
        BY <3>3, <3>4, <3>5
    <2>6. CountIsKept(h)'
      BY <1>2, <1>3, <1>4, <2>1, <2>2, <2>3, <2>4 DEF IndexInv, CountIsKept, powerVars, Orderly, RaisedCount
    <2>7. LocksAreKept(h)'
      <3>1. Marks(Info(h))' = Marks(ram[h]) \cup {lock}
        BY <1>4, <2>1, <2>4 DEF Marks
      <3>2. Marks(savedRam[h])' = Marks(savedRam[h])
        BY <1>2 DEF Marks
      <3> QED
        BY <2>1, <2>2, <2>3, <3>1, <3>2 DEF IndexInv, LocksAreKept
    <2>8. DataIsLatest(h)'
      BY <1>2, <1>3, <1>4, <2>1, <2>2, <2>3, <2>4 DEF IndexInv, DataIsLatest
    <2> QED
      BY <2>5, <2>6, <2>7, <2>8 DEF IndexInv
  <1>7. ASSUME NEW h \in others
        PROVE  IndexInv(h)'
    <2>1. /\ IndexInv(h) /\ index[h] \in IndexEntry /\ Info(h) = index[h] /\ ~ IsOrderly(h)
          /\ IsDefined(h) /\ ram[h] = None /\ savedRam[h] = None
      BY <1>1, IndexFacts
    <2>2. /\ ram'[h] = None /\ index'[h] = with(index[h]) /\ savedRam'[h] = None
          /\ locks'[h] = locks[h] \cup {lock} /\ keptLocks'[h] = keptLocks[h] \cup {lock}
      BY <1>2, <1>3, <2>1
    <2>3. /\ ~ IsOrderly(h)' /\ IsDefined(h)' /\ (IsCounter(h)' <=> IsCounter(h))
          /\ "CLEAR_STCLEAR" \in index'[h].attributes <=> "CLEAR_STCLEAR" \in index[h].attributes
      BY <1>4, <2>1, <2>2, NoneIsNoEntry DEF IsOrderly, IsDefined, IsCounter, DefinedAttribute
    <2>4. Info(h)' = with(index[h]) /\ (IsWritten(h)' <=> IsWritten(h))
      BY <1>4, <2>1, <2>2, <2>3 DEF Info, IsWritten
    <2>5. HasRoom(h)' /\ IsAsDefined(h)' /\ RamIsSaved(h)'
      <3>1. index'[h].attributes \cap DefinedAttribute = index[h].attributes \cap DefinedAttribute
        BY <1>4, <2>1, <2>2
      <3>2. IsAsDefined(h)'
        BY <2>1, <2>3, <3>1 DEF IndexInv, IsAsDefined
      <3>3. HasRoom(h)'
        BY <2>2, <2>3 DEF HasRoom
      <3>4. ram'[h] = savedRam'[h]
        BY <2>2
      <3>5. RamIsSaved(h)'
        BY <2>3, <3>4 DEF RamIsSaved
      <3> QED
        BY <3>2, <3>3, <3>5
    <2>6. CountIsKept(h)'
      BY <1>2, <1>3, <1>4, <2>1, <2>2, <2>3, <2>4 DEF IndexInv, CountIsKept
    <2>7. LocksAreKept(h)'
      <3>1. /\ Marks(Info(h))' = Marks(index[h]) \cup {lock}
            /\ Marks(index[h])' = Marks(index[h]) \cup {lock}
        BY <1>4, <2>1, <2>2, <2>4 DEF Marks
      <3> QED
        BY <1>2, <2>1, <2>2, <2>3, <3>1 DEF IndexInv, LocksAreKept, powerVars
    <2>8. DataIsLatest(h)'
      BY <1>3, <1>4, <2>1, <2>2, <2>3, <2>4 DEF IndexInv, DataIsLatest
    <2> QED
      BY <2>5, <2>6, <2>7, <2>8 DEF IndexInv
  <1>8. NvTypeOK'
    <2>1. index' \in [NvHandle -> IndexEntry \cup {None}] /\ ram' \in [NvHandle -> IndexEntry \cup {None}]
      <3>1. \A h \in orderly : with(ram[h]) \in IndexEntry
        BY <1>4, IndexFacts
      <3>2. \A h \in others : with(index[h]) \in IndexEntry
        BY <1>4, IndexFacts
      <3> QED
        BY <1>1, <1>2, <3>1, <3>2 DEF NvTypeOK
    <2>2. {locks', keptLocks'} \subseteq [NvHandle -> SUBSET {"READ", "WRITE"}]
      <3>1. locks \in [NvHandle -> SUBSET {"READ", "WRITE"}] /\ keptLocks \in [NvHandle -> SUBSET {"READ", "WRITE"}]
        BY <1>1 DEF NvTypeOK
      <3>2. locks' \in [NvHandle -> SUBSET {"READ", "WRITE"}]
        BY <1>3, <3>1
      <3>3. keptLocks' \in [NvHandle -> SUBSET {"READ", "WRITE"}]
        BY <1>3, <3>1
      <3> QED
        BY <3>2, <3>3
    <2> QED
      BY <1>1, <1>2, <1>3, <2>1, <2>2 DEF NvTypeOK, PowerTypeOK, powerVars
  <1> QED
    BY <1>1, <1>2, <1>5, <1>6, <1>7, <1>8 DEF NvInv

LEMMA LockCommandStep ==
    ASSUME NvInv, NEW h \in NvHandle, WriteLock(h) \/ ReadLock(h)
    PROVE  NvInv'
  <1>1. CASE WriteLock(h)
    BY <1>1, LockStep DEF WriteLock
  <1>2. CASE ReadLock(h)
    BY <1>2, LockStep DEF ReadLock
  <1> QED
    BY <1>1, <1>2

LEMMA GlobalWriteLockStep ==
    ASSUME NvInv, GlobalWriteLock
    PROVE  NvInv'
  <1> DEFINE global == { h \in NvHandle : "GLOBALLOCK" \in index[h].attributes }
  <1>1. \A h \in global : IsDefined(h)
    BY NoneIsNoEntry DEF IsDefined
  <1>2. started /\ NvWriteIndexAttribute(global, "WRITELOCKED") /\ Lock(global, "WRITE")
    BY DEF GlobalWriteLock
  <1> HIDE DEF global
  <1>3. global \in SUBSET NvHandle
    BY DEF global
  <1> QED
    BY <1>1, <1>2, <1>3, LockStep
-----------------------------------------------------------------------------
(* Shutdown, loss of power and startup. *)

\* TPM2_Shutdown leaves all of the RAM in NV.
LEMMA NvShutdownStep ==
    ASSUME NvInv, NEW type \in StartupArgument, NvShutdown(type)
    PROVE  NvInv'
  <1>1. /\ NvTypeOK /\ savedMax <= maxCounter /\ \A k \in NvHandle : IndexInv(k)
    BY DEF NvInv
  <1>2. /\ ram' = ram /\ savedRam' = ram /\ keptLocks' = locks
        /\ started /\ started' = started
        /\ UNCHANGED <<index, maxCounter, savedMax, highest, flushed, latest, locks>>
    BY DEF NvShutdown, WriteOrderlyRam, PowerShutdown
  <1>3. PowerTypeOK'
    BY <1>1 DEF NvShutdown, PowerShutdown, PowerTypeOK, NvTypeOK
  <1>4. NvTypeOK'
    BY <1>1, <1>2, <1>3 DEF NvTypeOK
  <1>5. ASSUME NEW h \in NvHandle
        PROVE  IndexInv(h)'
    <2>1. IndexInv(h)
      BY <1>1
    <2>2. /\ IsDefined(h)' <=> IsDefined(h)
          /\ IsOrderly(h)' <=> IsOrderly(h)
          /\ IsCounter(h)' <=> IsCounter(h)
          /\ IsWritten(h)' <=> IsWritten(h)
          /\ Info(h)' = Info(h)
      BY <1>2 DEF IsDefined, IsOrderly, IsCounter, IsWritten, Info
    <2>3. HasRoom(h)' /\ IsAsDefined(h)' /\ RamIsSaved(h)'
      BY <1>2, <2>1, <2>2 DEF IndexInv, HasRoom, IsAsDefined, RamIsSaved
    <2>4. CountIsKept(h)'
      <3>1. RaisedCount(ram[h].data) \in Nat /\ ram[h].data <= RaisedCount(ram[h].data)
            /\ ram[h].data \in Nat /\ highest[h] \in Nat
        BY <1>1, EntryTypes, RaisedIsAbove DEF NvTypeOK
      <3>2. RaisedCount(savedRam[h].data)' = RaisedCount(ram[h].data)
        BY <1>2 DEF RaisedCount
      <3>3. IsOrderly(h) => Info(h) = ram[h]
        BY DEF Info
      <3> QED
        BY <1>2, <2>1, <2>2, <3>1, <3>2, <3>3 DEF IndexInv, CountIsKept
    <2>5. LocksAreKept(h)'
      BY <1>2, <2>1, <2>2 DEF IndexInv, LocksAreKept, Info, Marks
    <2>6. DataIsLatest(h)'
      BY <1>2, <2>1, <2>2 DEF IndexInv, DataIsLatest
    <2> QED
      BY <2>3, <2>4, <2>5, <2>6 DEF IndexInv
  <1> QED
    BY <1>1, <1>2, <1>4, <1>5 DEF NvInv

\* What is lost is what the invariant does not say of the RAM in NV.
LEMMA NvPowerLostStep ==
    ASSUME NvInv, NvPowerLost
    PROVE  NvInv'
  <1>1. /\ NvTypeOK /\ savedMax <= maxCounter /\ \A k \in NvHandle : IndexInv(k)
    BY DEF NvInv
  <1>2. /\ ram' = savedRam /\ maxCounter' = savedMax /\ locks' = keptLocks
        /\ started /\ ~ started' /\ (Orderly' <=> Orderly)
        /\ UNCHANGED <<index, savedRam, savedMax, highest, flushed, latest, keptLocks>>
    BY DEF NvPowerLost, PowerLoss, Orderly
  <1>3. PowerTypeOK'
    BY <1>1 DEF NvPowerLost, PowerLoss, PowerTypeOK, NvTypeOK
  <1>4. NvTypeOK'
    BY <1>1, <1>2, <1>3 DEF NvTypeOK
  <1>5. ASSUME NEW h \in NvHandle
        PROVE  IndexInv(h)'
    <2>1. IndexInv(h)
      BY <1>1
    <2>2. /\ IsDefined(h)' <=> IsDefined(h)
          /\ IsOrderly(h)' <=> IsOrderly(h)
          /\ IsCounter(h)' <=> IsCounter(h)
          /\ Info(h)' = IF IsOrderly(h) THEN savedRam[h] ELSE index[h]
      BY <1>2 DEF IsDefined, IsOrderly, IsCounter, Info
    <2>3. HasRoom(h)' /\ IsAsDefined(h)' /\ RamIsSaved(h)'
      BY <1>2, <2>1, <2>2 DEF IndexInv, HasRoom, IsAsDefined, RamIsSaved
    <2>4. Orderly \/ ~ IsOrderly(h) \/ IsCounter(h) => (IsWritten(h)' <=> IsWritten(h))
      BY <2>1, <2>2 DEF IndexInv, RamIsSaved, IsWritten, Info
    <2>5. CountIsKept(h)'
      <3>1. RaisedCount(savedRam[h].data) \in Nat /\ savedRam[h].data <= RaisedCount(savedRam[h].data)
            /\ savedRam[h].data \in Nat /\ highest[h] \in Nat
        BY <1>1, EntryTypes, RaisedIsAbove DEF NvTypeOK
      <3>2. RaisedCount(savedRam[h].data)' = RaisedCount(savedRam[h].data)
        BY <1>2 DEF RaisedCount
      <3>3. ~ IsOrderly(h) => Info(h) = index[h]
        BY DEF Info
      <3> QED
        BY <1>2, <2>1, <2>2, <2>4, <3>1, <3>2, <3>3 DEF IndexInv, CountIsKept
    <2>6. LocksAreKept(h)'
      <3>1. Marks(IF IsOrderly(h) THEN savedRam[h] ELSE index[h])'
              = Marks(IF IsOrderly(h) THEN savedRam[h] ELSE index[h])
        BY <1>2, <2>2 DEF Marks
      <3> QED
        BY <1>2, <2>1, <2>2, <3>1 DEF IndexInv, LocksAreKept
    <2>7. DataIsLatest(h)'
      <3>1. Orderly /\ IsOrderly(h) => savedRam[h].data = ram[h].data
        BY <2>1 DEF IndexInv, RamIsSaved
      <3> QED
        BY <1>2, <2>1, <2>2, <2>4, <3>1 DEF IndexInv, DataIsLatest, Info
    <2> QED
      BY <2>3, <2>5, <2>6, <2>7 DEF IndexInv
  <1>6. savedMax' <= maxCounter'
    BY <1>1, <1>2 DEF NvTypeOK
  <1> QED
    BY <1>4, <1>5, <1>6 DEF NvInv

\* What a Restart or a Reset leaves of the attributes.
LEMMA StartupAttributes ==
    ASSUME NEW attributes \in SUBSET Attribute, NEW type
    PROVE  LET left == NvSetStartupAttributes(attributes, type)
               loses == /\ "COUNTER" \notin attributes
                        /\ \/ "CLEAR_STCLEAR" \in attributes
                           \/ "ORDERLY" \in attributes /\ type = "RESET"
           IN  /\ left \in SUBSET Attribute
               /\ left \cap DefinedAttribute = attributes \cap DefinedAttribute
               /\ "WRITTEN" \in left <=> "WRITTEN" \in attributes /\ ~ loses
               /\ {"WRITTEN", "WRITEDEFINE"} \subseteq left /\ "WRITELOCKED" \in attributes
                     => "WRITELOCKED" \in left
  <1> DEFINE loses == \/ "CLEAR_STCLEAR" \in attributes
                      \/ "ORDERLY" \in attributes /\ type = "RESET"
             kept == (IF "COUNTER" \notin attributes /\ loses THEN attributes \ {"WRITTEN"}
                      ELSE attributes) \ {"READLOCKED"}
             left == NvSetStartupAttributes(attributes, type)
  <1>1. left = IF {"WRITTEN", "WRITEDEFINE"} \subseteq kept THEN kept ELSE kept \ {"WRITELOCKED"}
    BY DEF NvSetStartupAttributes
  <1>2. \A a \in DefinedAttribute : a \notin {"WRITTEN", "WRITELOCKED", "READLOCKED"}
    BY DEF DefinedAttribute
  <1>3. /\ kept \subseteq attributes
        /\ "WRITTEN" \in kept <=> "WRITTEN" \in attributes /\ ~ ("COUNTER" \notin attributes /\ loses)
        /\ "WRITELOCKED" \in attributes => "WRITELOCKED" \in kept
        /\ \A a \in DefinedAttribute : a \in kept <=> a \in attributes
    BY <1>2
  <1> HIDE DEF kept
  <1>4. /\ left \subseteq kept
        /\ "WRITTEN" \in left <=> "WRITTEN" \in kept
        /\ "WRITEDEFINE" \in left <=> "WRITEDEFINE" \in kept
        /\ {"WRITTEN", "WRITEDEFINE"} \subseteq kept => left = kept
        /\ \A a \in DefinedAttribute : a \in left <=> a \in kept
    BY <1>1, <1>2
  <1> HIDE DEF left, loses
  <1>5. left \cap DefinedAttribute = attributes \cap DefinedAttribute
    BY <1>3, <1>4
  <1>6. {"WRITTEN", "WRITEDEFINE"} \subseteq left /\ "WRITELOCKED" \in attributes => "WRITELOCKED" \in left
    BY <1>3, <1>4
  <1>7. left \in SUBSET Attribute
    BY <1>3, <1>4
  <1>8. "WRITTEN" \in left <=> "WRITTEN" \in attributes /\ ~ ("COUNTER" \notin attributes /\ loses)
    BY <1>3, <1>4
  <1> QED
    BY <1>5, <1>6, <1>7, <1>8 DEF left, loses

\* What a startup makes of an index of the list.
LEMMA StartedIndexEntry ==
    ASSUME NvInv, NEW type, NEW h \in NvHandle
    PROVE  LET entry == StartedIndex(type)[h]
               loses == /\ "COUNTER" \notin index[h].attributes
                        /\ "CLEAR_STCLEAR" \in index[h].attributes
           IN  /\ IsOrderly(h) \/ type = "RESUME" \/ ~ IsDefined(h) => entry = index[h]
               /\ IsDefined(h) => entry \in IndexEntry
               /\ entry.data = index[h].data
               /\ entry.attributes \cap DefinedAttribute = index[h].attributes \cap DefinedAttribute
               /\ ~ IsOrderly(h) /\ type # "RESUME" =>
                     /\ "WRITTEN" \in entry.attributes <=> "WRITTEN" \in index[h].attributes /\ ~ loses
                     /\ {"WRITTEN", "WRITEDEFINE"} \subseteq entry.attributes
                        /\ "WRITELOCKED" \in index[h].attributes => "WRITELOCKED" \in entry.attributes
  <1> DEFINE entry == StartedIndex(type)[h]
             left == NvSetStartupAttributes(index[h].attributes, type)
  <1>1. entry = IF type = "RESUME" \/ IsOrderly(h) \/ ~ IsDefined(h) THEN index[h]
                ELSE [index[h] EXCEPT !.attributes = left]
    BY DEF StartedIndex
  <1>2. CASE type = "RESUME" \/ IsOrderly(h) \/ ~ IsDefined(h)
    <2>1. IsDefined(h) => index[h] \in IndexEntry
      BY IndexFacts
    <2>2. ~ IsDefined(h) => index[h].attributes = {"NONE"}
      BY NoneIsNoEntry DEF IsDefined
    <2> QED
      BY <1>1, <1>2, <2>1, <2>2
  <1>3. CASE ~ (type = "RESUME" \/ IsOrderly(h) \/ ~ IsDefined(h))
    <2>1. index[h] \in IndexEntry
      BY <1>3, IndexFacts
    <2>2. index[h].attributes \in SUBSET Attribute
      BY <2>1 DEF IndexEntry
    <2>3. /\ left \in SUBSET Attribute
          /\ left \cap DefinedAttribute = index[h].attributes \cap DefinedAttribute
          /\ "WRITTEN" \in left <=>
                /\ "WRITTEN" \in index[h].attributes
                /\ ~ ("COUNTER" \notin index[h].attributes /\ "CLEAR_STCLEAR" \in index[h].attributes)
          /\ {"WRITTEN", "WRITEDEFINE"} \subseteq left /\ "WRITELOCKED" \in index[h].attributes
                => "WRITELOCKED" \in left
      BY <1>3, <2>2, StartupAttributes DEF IsOrderly
    <2> HIDE DEF left
    <2>4. entry \in IndexEntry /\ entry.attributes = left /\ entry.data = index[h].data
      BY <1>1, <1>3, <2>1, <2>3 DEF IndexEntry
    <2> HIDE DEF entry
    <2>5. entry = StartedIndex(type)[h]
      BY DEF entry
    <2> QED
      BY <1>3, <2>3, <2>4, <2>5
  <1> QED
    BY <1>2, <1>3

\* What a startup makes of the data of an orderly index.
LEMMA StartedRamEntry ==
    ASSUME NvInv, NEW type, NEW h \in NvHandle, IsOrderly(h)
    PROVE  LET entry == StartedRam(type)[h]
               saved == savedRam[h]
               loses == ~ IsCounter(h) /\ ("CLEAR_STCLEAR" \in index[h].attributes \/ type = "RESET")
           IN  /\ entry \in IndexEntry
               /\ entry.attributes \cap DefinedAttribute = saved.attributes \cap DefinedAttribute
               /\ type = "RESUME" => entry = saved
               /\ entry.data = IF type # "RESUME" /\ IsCounter(h) /\ ~ Orderly
                               THEN RaisedCount(saved.data) ELSE saved.data
               /\ type # "RESUME" =>
                     /\ "WRITTEN" \in entry.attributes <=> "WRITTEN" \in saved.attributes /\ ~ loses
                     /\ {"WRITTEN", "WRITEDEFINE"} \subseteq entry.attributes
                        /\ "WRITELOCKED" \in saved.attributes => "WRITELOCKED" \in entry.attributes
  <1> DEFINE entry == StartedRam(type)[h]
             saved == savedRam[h]
             left == NvSetStartupAttributes(saved.attributes, type)
             count == IF "COUNTER" \in saved.attributes /\ ~ Orderly
                      THEN RaisedCount(saved.data) ELSE saved.data
  <1>1. /\ IndexInv(h) /\ saved \in IndexEntry /\ saved # None
    BY IndexFacts, NoneIsNoEntry DEF NvInv
  <1>2. saved.attributes \in SUBSET Attribute /\ saved.data \in Nat
    BY <1>1 DEF IndexEntry
  <1>3. saved.attributes \cap DefinedAttribute = index[h].attributes
    BY <1>1 DEF IndexInv, IsAsDefined
  <1>4. /\ "COUNTER" \in saved.attributes <=> IsCounter(h)
        /\ "CLEAR_STCLEAR" \in saved.attributes <=> "CLEAR_STCLEAR" \in index[h].attributes
        /\ "ORDERLY" \in saved.attributes
    BY <1>3 DEF IsCounter, IsOrderly, DefinedAttribute
  <1>5. entry = IF type = "RESUME" THEN saved ELSE [attributes |-> left, data |-> count]
    BY <1>1 DEF StartedRam
  <1>6. CASE type = "RESUME"
    BY <1>1, <1>5, <1>6
  <1>7. CASE type # "RESUME"
    <2>1. /\ left \in SUBSET Attribute
          /\ left \cap DefinedAttribute = saved.attributes \cap DefinedAttribute
          /\ "WRITTEN" \in left <=>
                /\ "WRITTEN" \in saved.attributes
                /\ ~ (~ IsCounter(h) /\ ("CLEAR_STCLEAR" \in index[h].attributes \/ type = "RESET"))
          /\ {"WRITTEN", "WRITEDEFINE"} \subseteq left /\ "WRITELOCKED" \in saved.attributes
                => "WRITELOCKED" \in left
      BY <1>2, <1>4, StartupAttributes
    <2>2. count \in Nat /\ count = IF IsCounter(h) /\ ~ Orderly THEN RaisedCount(saved.data) ELSE saved.data
      BY <1>2, <1>4, RaisedIsAbove
    <2> HIDE DEF left, count
    <2>3. entry \in IndexEntry /\ entry.attributes = left /\ entry.data = count
      BY <1>5, <1>7, <2>1, <2>2 DEF IndexEntry
    <2> HIDE DEF entry
    <2>4. entry = StartedRam(type)[h]
      BY DEF entry
    <2> QED
      BY <1>7, <2>1, <2>2, <2>3, <2>4
  <1> QED
    BY <1>6, <1>7

\* TPM2_Startup reads the indices back and raises the orderly counters if no
\* shutdown was noted.
LEMMA NvStartupStep ==
    ASSUME NvInv, NEW startupType \in StartupArgument, NvStartup(startupType)
    PROVE  NvInv'
  <1> DEFINE type == StartupType(startupType)
  <1>1. /\ NvTypeOK /\ savedMax <= maxCounter /\ \A k \in NvHandle : IndexInv(k)
    BY DEF NvInv
  <1>2. /\ ~ started /\ started' /\ ~ Orderly' /\ PowerTypeOK'
    BY <1>1 DEF NvStartup, PowerStartup, Orderly, PowerTypeOK, NvTypeOK
  <1>3. /\ type \in {"RESUME", "RESTART", "RESET"}
        /\ ~ Orderly => type = "RESET"
    BY DEF StartupType, Orderly
  <1> HIDE DEF type
  <1>4. /\ index' = StartedIndex(type)
        /\ ram' = StartedRam(type)
        /\ maxCounter' = savedMax
        /\ \A h \in NvHandle : ram'[h].data <= MaxCount
        /\ highest' = [h \in NvHandle |->
               IF {"COUNTER", "WRITTEN"} \subseteq ram'[h].attributes
               THEN Max({highest[h], ram'[h].data}) ELSE highest[h]]
        /\ latest' = [h \in NvHandle |-> [latest[h] EXCEPT !.age = Aged(@, type)]]
        /\ locks' = [h \in NvHandle |-> LocksLeft(h, type)]
        /\ keptLocks' = locks'
        /\ UNCHANGED <<savedRam, savedMax, flushed>>
    BY DEF NvStartup, type
  <1>5. ASSUME NEW h \in NvHandle
        PROVE  /\ ram'[h] \in IndexEntry \cup {None}
               /\ index'[h] \in IndexEntry \cup {None}
               /\ IsDefined(h)' <=> IsDefined(h)
               /\ IsOrderly(h)' <=> IsOrderly(h)
               /\ IsCounter(h)' <=> IsCounter(h)
               /\ ~ IsOrderly(h) => ram'[h] = None
               /\ Info(h)' = IF IsOrderly(h) THEN ram'[h] ELSE index'[h]
    <2>1. ~ IsDefined(h) => index'[h] = None
      BY <1>4, StartedIndexEntry DEF IsDefined
    <2>2. IsDefined(h) => index'[h] \in IndexEntry /\ index[h] \in IndexEntry
      BY <1>4, StartedIndexEntry, IndexFacts
    <2>3. index'[h].attributes \cap DefinedAttribute = index[h].attributes \cap DefinedAttribute
      BY <1>4, StartedIndexEntry
    <2>4. IsDefined(h)' <=> IsDefined(h)
      BY <2>1, <2>2, NoneIsNoEntry DEF IsDefined
    <2>5. (IsOrderly(h)' <=> IsOrderly(h)) /\ (IsCounter(h)' <=> IsCounter(h))
      BY <2>3 DEF IsOrderly, IsCounter, DefinedAttribute
    <2>6. ~ IsOrderly(h) => ram'[h] = None
      BY <1>4, IndexFacts DEF StartedRam
    <2>7. IsOrderly(h) => ram'[h] \in IndexEntry
      BY <1>4, StartedRamEntry
    <2> QED
      BY <2>1, <2>2, <2>4, <2>5, <2>6, <2>7 DEF Info
  <1>6. ASSUME NEW h \in NvHandle
        PROVE  /\ highest'[h] = IF IsCounter(h) /\ IsOrderly(h) /\ "WRITTEN" \in ram'[h].attributes
                                THEN Max({highest[h], ram'[h].data}) ELSE highest[h]
               /\ highest'[h] \in Nat
    <2>1. IsOrderly(h) => ("COUNTER" \in ram'[h].attributes <=> IsCounter(h))
      <3>1. IsOrderly(h) => ram'[h].attributes \cap DefinedAttribute = savedRam[h].attributes \cap DefinedAttribute
        BY <1>4, StartedRamEntry
      <3>2. IsOrderly(h) => savedRam[h].attributes \cap DefinedAttribute = index[h].attributes
        BY <1>1 DEF IndexInv, IsAsDefined
      <3> QED
        BY <3>1, <3>2 DEF IsCounter, DefinedAttribute
    <2>2. ~ IsOrderly(h) => "COUNTER" \notin ram'[h].attributes
      BY <1>5, NoneIsNoEntry
    <2>3. highest[h] \in Nat /\ ram'[h].data \in Nat
      BY <1>1, <1>5, NoneIsNoEntry DEF NvTypeOK, IndexEntry
    <2> QED
      BY <1>4, <2>1, <2>2, <2>3, MaxOfTwo
  <1>7. NvTypeOK'
    <2>1. ram' \in [NvHandle -> IndexEntry \cup {None}] /\ index' \in [NvHandle -> IndexEntry \cup {None}]
      BY <1>4, <1>5 DEF StartedRam, StartedIndex
    <2>2. highest' \in [NvHandle -> Nat]
      BY <1>4, <1>6
    <2>3. latest' \in [NvHandle -> [data : Nat, age : Age]]
      <3>1. latest \in [NvHandle -> [data : Nat, age : Age]]
        BY <1>1 DEF NvTypeOK
      <3>2. \A age \in Age : Aged(age, type) \in Age
        BY DEF Aged, Age
      <3> QED
        BY <1>4, <3>1, <3>2
    <2>4. locks' \in [NvHandle -> SUBSET {"READ", "WRITE"}]
      <3>1. keptLocks \in [NvHandle -> SUBSET {"READ", "WRITE"}]
        BY <1>1 DEF NvTypeOK
      <3>2. \A h \in NvHandle : LocksLeft(h, type) \in SUBSET {"READ", "WRITE"}
        BY <3>1 DEF LocksLeft
      <3> QED
        BY <1>4, <3>2
    <2> QED
      BY <1>1, <1>2, <1>4, <2>1, <2>2, <2>3, <2>4 DEF NvTypeOK
  <1>8. ASSUME NEW h \in NvHandle
        PROVE  IndexInv(h)'
    <2>1. IndexInv(h) /\ ram[h] = savedRam[h]
      BY <1>1, <1>2 DEF IndexInv, RamIsSaved
    <2>2. /\ IsOrderly(h) => /\ IsDefined(h) /\ Info(h) = ram[h]
                              /\ ram[h] \in IndexEntry /\ savedRam[h] \in IndexEntry
          /\ ~ IsOrderly(h) => Info(h) = index[h] /\ ram[h] = None /\ savedRam[h] = None
          /\ IsCounter(h) => IsDefined(h)
      BY IndexFacts
    <2>3. /\ IsDefined(h)' <=> IsDefined(h)
          /\ IsOrderly(h)' <=> IsOrderly(h)
          /\ IsCounter(h)' <=> IsCounter(h)
          /\ ~ IsOrderly(h) => ram'[h] = None
          /\ Info(h)' = IF IsOrderly(h) THEN ram'[h] ELSE index'[h]
      BY <1>5
    <2>4. /\ index'[h].data = index[h].data
          /\ index'[h].attributes \cap DefinedAttribute = index[h].attributes \cap DefinedAttribute
          /\ IsOrderly(h) \/ type = "RESUME" => index'[h] = index[h]
      BY <1>4, StartedIndexEntry
    <2>5. ~ IsOrderly(h) /\ type # "RESUME" =>
             /\ "WRITTEN" \in index'[h].attributes <=>
                   /\ "WRITTEN" \in index[h].attributes
                   /\ IsCounter(h) \/ "CLEAR_STCLEAR" \notin index[h].attributes
             /\ {"WRITTEN", "WRITEDEFINE"} \subseteq index'[h].attributes
                /\ "WRITELOCKED" \in index[h].attributes => "WRITELOCKED" \in index'[h].attributes
      BY <1>4, StartedIndexEntry DEF IsCounter
    <2>6. IsOrderly(h) =>
             /\ ram'[h] \in IndexEntry
             /\ ram'[h].attributes \cap DefinedAttribute = savedRam[h].attributes \cap DefinedAttribute
             /\ type = "RESUME" => ram'[h] = savedRam[h]
             /\ ram'[h].data = IF type # "RESUME" /\ IsCounter(h) /\ ~ Orderly
                               THEN RaisedCount(savedRam[h].data) ELSE savedRam[h].data
             /\ type # "RESUME" =>
                   /\ "WRITTEN" \in ram'[h].attributes <=>
                         /\ "WRITTEN" \in savedRam[h].attributes
                         /\ IsCounter(h) \/ ("CLEAR_STCLEAR" \notin index[h].attributes /\ type # "RESET")
                   /\ {"WRITTEN", "WRITEDEFINE"} \subseteq ram'[h].attributes
                      /\ "WRITELOCKED" \in savedRam[h].attributes => "WRITELOCKED" \in ram'[h].attributes
      <3> SUFFICES ASSUME IsOrderly(h)
                   PROVE  /\ ram'[h] \in IndexEntry
                          /\ ram'[h].attributes \cap DefinedAttribute
                                = savedRam[h].attributes \cap DefinedAttribute
                          /\ type = "RESUME" => ram'[h] = savedRam[h]
                          /\ ram'[h].data = IF type # "RESUME" /\ IsCounter(h) /\ ~ Orderly
                                            THEN RaisedCount(savedRam[h].data) ELSE savedRam[h].data
                          /\ type # "RESUME" =>
                                /\ "WRITTEN" \in ram'[h].attributes <=>
                                      /\ "WRITTEN" \in savedRam[h].attributes
                                      /\ IsCounter(h) \/ ("CLEAR_STCLEAR" \notin index[h].attributes
                                                         /\ type # "RESET")
                                /\ {"WRITTEN", "WRITEDEFINE"} \subseteq ram'[h].attributes
                                   /\ "WRITELOCKED" \in savedRam[h].attributes
                                     => "WRITELOCKED" \in ram'[h].attributes
        OBVIOUS
      <3> QED
        BY <1>4, StartedRamEntry
    <2>7. IsCounter(h) => (IsWritten(h)' <=> IsWritten(h))
      <3>1. CASE IsOrderly(h)
        BY <2>1, <2>2, <2>3, <2>6, <3>1 DEF IsWritten
      <3>2. CASE ~ IsOrderly(h)
        BY <2>2, <2>3, <2>4, <2>5, <3>2 DEF IsWritten
      <3> QED
        BY <3>1, <3>2
    <2>8. HasRoom(h)'
      BY <1>4, <2>1, <2>2, <2>3, <2>6, NoneIsNoEntry DEF IndexInv, HasRoom
    <2>9. IsAsDefined(h)'
      BY <1>4, <2>1, <2>2, <2>3, <2>4, <2>6 DEF IndexInv, IsAsDefined
    <2>10. RamIsSaved(h)'
      <3>1. IsOrderly(h) /\ IsCounter(h) =>
               ("WRITTEN" \in ram'[h].attributes <=> "WRITTEN" \in savedRam[h].attributes)
        BY <2>6
      <3> QED
        BY <1>2, <1>4, <2>3, <3>1 DEF RamIsSaved
    <2>11. CountIsKept(h)'
      <3>1. /\ highest[h] \in Nat /\ savedRam[h].data \in Nat
            /\ RaisedCount(savedRam[h].data) \in Nat
            /\ savedRam[h].data <= RaisedCount(savedRam[h].data)
        BY <1>1, EntryTypes, RaisedIsAbove DEF NvTypeOK
      <3>2. RaisedCount(savedRam[h].data)' = RaisedCount(savedRam[h].data)
        BY <1>4 DEF RaisedCount
      <3>3. CASE IsCounter(h) /\ IsOrderly(h)
        <4> DEFINE count == ram'[h].data
        <4>1. /\ count \in Nat /\ count <= MaxCount
              /\ count = IF Orderly THEN savedRam[h].data ELSE RaisedCount(savedRam[h].data)
          BY <1>3, <1>4, <2>6, <3>1, <3>3
        <4>2. IsWritten(h)' <=> "WRITTEN" \in ram'[h].attributes
          BY <2>3, <3>3 DEF IsWritten
        <4>3. h \notin flushed /\ IsWritten(h) => highest[h] <= count
          BY <2>1, <3>3, <4>1 DEF IndexInv, CountIsKept
        <4>4. IsWritten(h)' => highest'[h] = Max({highest[h], count})
          BY <1>6, <3>3, <4>2
        <4>5. ~ IsWritten(h)' => highest'[h] = highest[h]
          BY <1>6, <4>2
        <4>6. Info(h)'.data = count
          BY <2>3, <3>3
        <4> HIDE DEF count
        <4>7. h \notin flushed /\ IsWritten(h)' => highest'[h] <= count
          BY <2>7, <3>1, <3>3, <4>1, <4>3, <4>4, MaxOfTwo
        <4>8. count <= RaisedCount(savedRam[h].data)
          BY <3>1, <4>1
        <4>9. ram'[h].data = count
          BY DEF count
        <4>10. highest'[h] \in Nat
          BY <1>6
        <4>11. h \notin flushed /\ ~ IsWritten(h)' => highest'[h] <= savedMax
          BY <2>1, <2>7, <3>3, <4>5 DEF IndexInv, CountIsKept
        <4>12. h \notin flushed /\ IsWritten(h)' => highest'[h] <= RaisedCount(savedRam[h].data)
          BY <3>1, <4>1, <4>7, <4>8, <4>10
        <4>13. savedRam[h].data <= MaxCount
          BY <2>1, <3>3 DEF IndexInv, CountIsKept
        <4> QED
          BY <1>2, <1>4, <2>3, <3>2, <3>3, <4>1, <4>6, <4>7, <4>8, <4>9, <4>11, <4>12, <4>13 DEF CountIsKept
      <3>4. CASE ~ (IsCounter(h) /\ IsOrderly(h))
        <4>1. highest'[h] = highest[h]
          BY <1>6, <3>4
        <4>2. IsCounter(h) => Info(h)'.data = Info(h).data /\ Info(h) = index[h]
          BY <2>2, <2>3, <2>4, <3>4
        <4> QED
          BY <1>4, <2>1, <2>3, <2>4, <2>7, <3>4, <4>1, <4>2 DEF IndexInv, CountIsKept
      <3> QED
        BY <3>3, <3>4
    <2>12. LocksAreKept(h)'
      <3> DEFINE place == IF IsOrderly(h) THEN savedRam[h] ELSE index[h]
      <3>1. /\ locks'[h] = LocksLeft(h, type) /\ keptLocks'[h] = locks'[h]
            /\ keptLocks[h] \subseteq Marks(place) /\ Info(h) = place
            /\ keptLocks[h] \subseteq {"READ", "WRITE"}
        BY <1>1, <1>4, <2>1, <2>2 DEF IndexInv, LocksAreKept, NvTypeOK
      <3>2. locks'[h] \subseteq keptLocks[h]
        BY <3>1 DEF LocksLeft
      <3>3. locks'[h] \subseteq Marks(Info(h)')
        <4>1. CASE type = "RESUME"
          BY <2>3, <2>4, <2>6, <3>1, <4>1 DEF LocksLeft
        <4>2. CASE type # "RESUME" /\ locks'[h] # {}
          <5>1. /\ {"WRITEDEFINE", "WRITTEN"} \subseteq place.attributes
                /\ IsCounter(h) \/ ~ IsOrderly(h) \/ type = "RESTART"
                /\ locks'[h] = keptLocks[h] \ {"READ"}
            BY <3>1, <4>2 DEF LocksLeft, IsCounter
          <5>2. locks'[h] = {"WRITE"} /\ "WRITELOCKED" \in place.attributes
            BY <3>1, <3>2, <4>2, <5>1 DEF Marks
          <5>3. IsDefined(h)
            BY <2>2, <5>1, NoneIsNoEntry DEF IsDefined
          <5>4. "WRITEDEFINE" \in index[h].attributes
            BY <2>1, <5>1 DEF IndexInv, IsAsDefined, DefinedAttribute
          <5>5. "CLEAR_STCLEAR" \notin index[h].attributes
            <6>1. IsTemplate(index[h].attributes \cap DefinedAttribute)
              BY <2>1, <5>3 DEF IndexInv, IsAsDefined
            <6> QED
              BY <5>4, <6>1 DEF IsTemplate, DefinedAttribute
          <5>6. CASE IsOrderly(h)
            <6>1. "WRITTEN" \in ram'[h].attributes
              BY <1>3, <2>6, <4>2, <5>1, <5>5, <5>6
            <6>2. "WRITEDEFINE" \in ram'[h].attributes
              BY <2>6, <5>1, <5>6 DEF DefinedAttribute
            <6>3. "WRITELOCKED" \in ram'[h].attributes
              BY <2>6, <4>2, <5>2, <5>6, <6>1, <6>2
            <6> QED
              BY <2>3, <5>2, <5>6, <6>3 DEF Marks
          <5>7. CASE ~ IsOrderly(h)
            <6>1. "WRITTEN" \in index'[h].attributes
              BY <2>5, <4>2, <5>1, <5>5, <5>7
            <6>2. "WRITEDEFINE" \in index'[h].attributes
              BY <2>4, <5>4 DEF DefinedAttribute
            <6>3. "WRITELOCKED" \in index'[h].attributes
              BY <2>5, <4>2, <5>2, <5>7, <6>1, <6>2
            <6> QED
              BY <2>3, <5>2, <5>7, <6>3 DEF Marks
          <5> QED
            BY <5>6, <5>7
        <4> QED
          BY <4>1, <4>2
      <3>4. Marks(Info(h))' = Marks(Info(h)')
        BY DEF Marks
      <3>5. Marks(IF IsOrderly(h) THEN savedRam[h] ELSE index[h])'
              = IF IsOrderly(h) THEN Marks(savedRam[h]) ELSE Marks(Info(h)')
        BY <1>4, <2>3 DEF Marks
      <3> QED
        BY <2>2, <2>3, <3>1, <3>2, <3>3, <3>4, <3>5 DEF LocksAreKept
    <2>13. DataIsLatest(h)'
      <3> SUFFICES ASSUME IsDefined(h), ~ IsCounter(h), IsWritten(h)'
                   PROVE  /\ Info(h)'.data = latest'[h].data
                          /\ "CLEAR_STCLEAR" \in index'[h].attributes => latest'[h].age = "PERIOD"
                          /\ IsOrderly(h) => latest'[h].age # "OLD"
        BY <2>3 DEF DataIsLatest
      <3>1. /\ latest'[h].data = latest[h].data /\ latest'[h].age = Aged(latest[h].age, type)
        BY <1>1, <1>4 DEF NvTypeOK
      <3>2. /\ "CLEAR_STCLEAR" \in index'[h].attributes <=> "CLEAR_STCLEAR" \in index[h].attributes
        BY <2>4 DEF DefinedAttribute
      <3>3. /\ IsWritten(h)
            /\ "CLEAR_STCLEAR" \in index[h].attributes => type = "RESUME"
            /\ IsOrderly(h) => type # "RESET"
        <4>1. CASE IsOrderly(h)
          <5>1. "WRITTEN" \in ram'[h].attributes
            BY <2>3, <4>1 DEF IsWritten
          <5>2. type = "RESET" => type # "RESUME"
            BY Zenon
          <5> QED
            BY <2>1, <2>2, <2>6, <4>1, <5>1, <5>2 DEF IsWritten
        <4>2. CASE ~ IsOrderly(h)
          BY <2>2, <2>3, <2>4, <2>5, <4>2 DEF IsWritten
        <4> QED
          BY <4>1, <4>2
      <3>4. IsOrderly(h) => Orderly
        BY <1>3, <3>3
      <3>5. /\ Info(h).data = latest[h].data
            /\ "CLEAR_STCLEAR" \in index[h].attributes => latest[h].age = "PERIOD"
            /\ IsOrderly(h) => latest[h].age # "OLD"
        BY <2>1, <3>3, <3>4 DEF IndexInv, DataIsLatest
      <3>6. Info(h)'.data = Info(h).data
        BY <2>1, <2>2, <2>3, <2>4, <2>6
      <3>7. "CLEAR_STCLEAR" \in index[h].attributes => latest'[h].age = "PERIOD"
        BY <3>1, <3>3, <3>5 DEF Aged
      <3>8. IsOrderly(h) => latest'[h].age # "OLD"
        BY <1>3, <3>1, <3>3, <3>5 DEF Aged
      <3> QED
        BY <3>1, <3>2, <3>5, <3>6, <3>7, <3>8
    <2> QED
      BY <2>8, <2>9, <2>10, <2>11, <2>12, <2>13 DEF IndexInv
  <1>9. savedMax' <= maxCounter'
    BY <1>1, <1>4 DEF NvTypeOK
  <1> QED
    BY <1>7, <1>8, <1>9 DEF NvInv

-----------------------------------------------------------------------------
(* The theorems.                                                           *)

\* The invariant is inductive: whatever sequence of NV commands, shutdowns,
\* losses of power and startups there was, each index keeps in NV what it needs
\* to go on from after the next of them.
THEOREM NvInvariant == NvSpec => []NvInv
  <1>1. NvInit => NvInv
    <2> SUFFICES ASSUME NvInit
                 PROVE  NvInv
      OBVIOUS
    <2>1. NvTypeOK
      <3>1. PowerTypeOK
        BY DEF NvInit, PowerInit, PowerTypeOK, StartupArgument
      <3>2. latest \in [NvHandle -> [data : Nat, age : Age]]
        BY DEF NvInit, Age
      <3>3. index \in [NvHandle -> IndexEntry \cup {None}] /\ ram = index /\ savedRam = index
        BY DEF NvInit
      <3>4. locks \in [NvHandle -> SUBSET {"READ", "WRITE"}] /\ keptLocks = locks
        BY DEF NvInit
      <3>5. maxCounter \in Nat /\ savedMax \in Nat /\ highest \in [NvHandle -> Nat] /\ flushed = {}
        BY DEF NvInit
      <3> QED
        BY <3>1, <3>2, <3>3, <3>4, <3>5 DEF NvTypeOK
    <2>2. ASSUME NEW h \in NvHandle
          PROVE  IndexInv(h)
      <3>1. /\ index[h] = None /\ ram[h] = None /\ savedRam[h] = None
            /\ locks[h] = {} /\ keptLocks[h] = {} /\ highest[h] = 0 /\ savedMax = 0
        BY DEF NvInit
      <3>2. ~ IsDefined(h) /\ ~ IsOrderly(h) /\ ~ IsCounter(h)
        BY <3>1, NoneIsNoEntry DEF IsDefined, IsOrderly, IsCounter
      <3> QED
        BY <3>1, <3>2 DEF IndexInv, HasRoom, IsAsDefined, RamIsSaved, CountIsKept, LocksAreKept,
           DataIsLatest
    <2> QED
      BY <2>1, <2>2 DEF NvInit, NvInv
  <1>2. NvInv /\ [NvNext]_nvVars => NvInv'
    <2> SUFFICES ASSUME NvInv, [NvNext]_nvVars
                 PROVE  NvInv'
      OBVIOUS
    <2>1. ASSUME NEW h \in NvHandle,
                 \/ \E template \in Templates[h] : DefineSpace(h, template)
                 \/ UndefineSpace(h)
                 \/ UndefineSpaceFails(h)
                 \/ \E value \in NvData : Write(h, value)
                 \/ Increment(h)
                 \/ WriteLock(h)
                 \/ ReadLock(h)
          PROVE  NvInv'
      BY <2>1, DefineSpaceStep, UndefineSpaceStep, UndefineSpaceFailsStep, WriteStep, IncrementStep,
         LockCommandStep
    <2>2. ASSUME \E type \in StartupArgument : NvShutdown(type) \/ NvStartup(type)
          PROVE  NvInv'
      BY <2>2, NvShutdownStep, NvStartupStep
    <2>3. CASE UNCHANGED nvVars
      <3>1. PowerTypeOK' /\ started' = started /\ (Orderly' => Orderly)
        BY <2>3 DEF nvVars, powerVars, NvInv, NvTypeOK, PowerTypeOK, Orderly
      <3>2. maxCounter' \in Nat /\ maxCounter <= maxCounter'
        BY <2>3 DEF nvVars, nvMemory, NvInv, NvTypeOK
      <3> QED
        BY <2>3, <3>1, <3>2, UnchangedStep DEF nvVars, nvMemory
    <2> QED
      BY <2>1, <2>2, <2>3, GlobalWriteLockStep, ClearOwnerIndicesStep, OtherOrderlyNvCommandStep,
         NvPowerLostStep, NvNvSignalStep DEF NvNext
  <1> QED
    BY <1>1, <1>2, PTL DEF NvSpec

\* The RAM of the orderly indices has room for each of them and for nothing else,
\* in NV too (NvAddRAM, NvDeleteRAM).
THEOREM OrderlyRamExact == NvSpec => []OrderlyRamIsExact
  <1>1. NvInv => OrderlyRamIsExact
    BY DEF NvInv, IndexInv, HasRoom, OrderlyRamIsExact
  <1> QED
    BY <1>1, NvInvariant, PTL

\* No count that was read is read again lower, whether the power is lost or the
\* counter deleted and defined again; except the orderly counters that
\* TPM2_Clear deletes (NvSetStartupAttributes, NvDeleteIndex).
THEOREM CountersKept == NvSpec => []CountersNeverGoBack
  <1>1. NvInv => CountersNeverGoBack
    <2> SUFFICES ASSUME NvInv, started, NEW h \in NvHandle \ flushed, IsCounter(h), IsWritten(h)
                 PROVE  Info(h).data >= highest[h]
      BY DEF CountersNeverGoBack
    <2>1. CountIsKept(h)
      BY DEF NvInv, IndexInv
    <2>2. /\ IsOrderly(h) => highest[h] <= ram[h].data
          /\ ~ IsOrderly(h) => highest[h] <= index[h].data
      BY <2>1 DEF CountIsKept
    <2>3. Info(h).data \in Nat /\ highest[h] \in Nat
      BY EntryTypes DEF NvInv, NvTypeOK
    <2> QED
      BY <2>2, <2>3 DEF Info
  <1> QED
    BY <1>1, NvInvariant, PTL

\* An index that can be read has what was written to it last; after a loss of
\* power that may have taken data away it can not be read (NvEntityStartup).
THEOREM DataNotStale == NvSpec => []NoStaleData
  <1>1. NvInv => NoStaleData
    BY DEF NvInv, IndexInv, DataIsLatest, NoStaleData, NvReadable
  <1> QED
    BY <1>1, NvInvariant, PTL

\* A lock holds until the startup that lifts it (TPM2_NV_WriteLock,
\* TPM2_NV_ReadLock, NvSetStartupAttributes).
THEOREM LocksAreHeld == NvSpec => []LocksHold
  <1>1. NvInv => LocksHold
    BY DEF NvInv, IndexInv, LocksAreKept, Marks, LocksHold, NvWriteLocked, NvReadable
  <1> QED
    BY <1>1, NvInvariant, PTL
=============================================================================

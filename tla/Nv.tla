--------------------------------- MODULE Nv ---------------------------------
(***************************************************************************)
(* The NV indices of the TPM (NVDynamic.c and the NV commands).            *)
(*                                                                         *)
(* An index is an entry of a list in NV.  The data and the attributes of   *)
(* an ORDERLY index are kept in RAM, to spare the NV: all of that RAM is   *)
(* written to NV by TPM2_Shutdown, and whenever an orderly index comes or  *)
(* goes, a counter is written first or its low bits roll over.  Whatever   *)
(* else was done to it since is lost with the power, so a write takes the  *)
(* note of the shutdown back, and an orderly counter gets all its low bits *)
(* set at the startup after that.                                          *)
(*                                                                         *)
(* A counter that was deleted may come back under the same handle: it has  *)
(* to go on above the largest counter ever deleted, which is in the marker *)
(* at the end of the list.                                                 *)
(***************************************************************************)
EXTENDS Power, FiniteSets, FiniteSetsExt

CONSTANTS
    NvHandle,       \* the handles at which indices are defined
    Templates,      \* bound: the attributes that indices are defined with at each handle
    OrderlyRange,   \* MAX_ORDERLY_COUNT + 1, 256 in the build
    NvData,         \* what is written to an index that is not a counter
    MaxCount        \* bound: the largest value of a counter

\* TPMA_NV, as far as it is not about authorization.  TPM_NT is COUNTER or any
\* other type.
DefinedAttribute == {"COUNTER", "ORDERLY", "CLEAR_STCLEAR", "WRITEDEFINE", "WRITE_STCLEAR",
                     "READ_STCLEAR", "GLOBALLOCK", "PLATFORMCREATE"}
Attribute == DefinedAttribute \cup {"WRITTEN", "WRITELOCKED", "READLOCKED"}

\* The combinations that TPM2_NV_DefineSpace refuses.
IsTemplate(attributes) ==
    /\ attributes \subseteq DefinedAttribute
    /\ ~ {"COUNTER", "CLEAR_STCLEAR"} \subseteq attributes
    /\ ~ {"CLEAR_STCLEAR", "WRITEDEFINE"} \subseteq attributes

ASSUME NvAssumption ==
    /\ \A h \in NvHandle : \A attributes \in Templates[h] : IsTemplate(attributes)
    /\ OrderlyRange \in Nat \ {0}
    /\ NvData \subseteq Nat
    /\ MaxCount \in Nat

VARIABLES
    index,          \* the indices of the list in NV
    ram,            \* s_indexOrderlyRam
    savedRam,       \* NV_INDEX_RAM_DATA
    maxCounter,     \* s_maxCounter
    savedMax,       \* the marker at the end of the list in NV
    highest,        \* history: the highest count read at each handle
    flushed,        \* history: where TPM2_Clear deleted an orderly counter
    latest,         \* history: what was written last at each handle, and when
    locks,          \* history: the locks that are set
    keptLocks       \* history: those of them that a loss of power leaves

nvMemory == <<index, ram, savedRam, maxCounter, savedMax>>
nvHistory == <<highest, flushed, latest, locks, keptLocks>>
nvVars == <<powerVars, nvMemory, nvHistory>>

\* No index, or no data of it in RAM.
None == [attributes |-> {"NONE"}, data |-> 0]
IndexEntry == [attributes : SUBSET Attribute, data : Nat]
Age == {"PERIOD", "RESET", "OLD"}

NvTypeOK ==
    /\ PowerTypeOK
    /\ {index, ram, savedRam} \subseteq [NvHandle -> IndexEntry \cup {None}]
    /\ {maxCounter, savedMax} \subseteq Nat
    /\ highest \in [NvHandle -> Nat]
    /\ flushed \subseteq NvHandle
    /\ latest \in [NvHandle -> [data : Nat, age : Age]]
    /\ {locks, keptLocks} \subseteq [NvHandle -> SUBSET {"READ", "WRITE"}]

NvInit ==
    /\ PowerInit
    /\ index = [h \in NvHandle |-> None]
    /\ ram = index /\ savedRam = index
    /\ maxCounter = 0 /\ savedMax = 0
    /\ highest = [h \in NvHandle |-> 0]
    /\ flushed = {}
    /\ latest = [h \in NvHandle |-> [data |-> 0, age |-> "OLD"]]
    /\ locks = [h \in NvHandle |-> {}]
    /\ keptLocks = locks

-----------------------------------------------------------------------------
(* NVDynamic.c and NV_spt.c *)

IsDefined(h) == index[h] # None
IsOrderly(h) == "ORDERLY" \in index[h].attributes
IsCounter(h) == "COUNTER" \in index[h].attributes

\* NvGetIndexInfo and NvGetIndexData: those of an orderly index are in RAM.
Info(h) == IF IsOrderly(h) THEN ram[h] ELSE index[h]

IsWritten(h) == "WRITTEN" \in Info(h).attributes

\* NvWriteAccessChecks fails with TPM_RC_NV_LOCKED.
NvWriteLocked(h) == "WRITELOCKED" \in Info(h).attributes

\* NvReadAccessChecks
NvReadable(h) == IsWritten(h) /\ "READLOCKED" \notin Info(h).attributes

\* SET_NV_UPDATE(UT_ORDERLY): the RAM is in NV when the command has ended.
WriteOrderlyRam(image) == ram' = image /\ savedRam' = image

\* Mutant of NvAddRAM: it is left to TPM2_Shutdown to write the RAM.
NvAddRAMUnwritten(h, entry) == ram' = [ram EXCEPT ![h] = entry] /\ UNCHANGED savedRam

NvAddRAM(h, entry) == WriteOrderlyRam([ram EXCEPT ![h] = entry])

\* NvDeleteIndex of some indices: their values raise s_maxCounter if the
\* descriptors at hand say that they are counters and written.
NvDeleteIndex(deleted, descriptor) ==
    /\ maxCounter' = Max({maxCounter} \cup { Info(h).data : h \in
           { k \in deleted : {"COUNTER", "WRITTEN"} \subseteq descriptor[k].attributes } })
    /\ savedMax' = maxCounter'
    /\ index' = [h \in NvHandle |-> IF h \in deleted THEN None ELSE index[h]]
    /\ IF \E h \in deleted : IsOrderly(h)
       THEN WriteOrderlyRam([h \in NvHandle |-> IF h \in deleted THEN None ELSE ram[h]])
       ELSE UNCHANGED <<ram, savedRam>>
    /\ locks' = [h \in NvHandle |-> IF h \in deleted THEN {} ELSE locks[h]]
    /\ keptLocks' = [h \in NvHandle |-> IF h \in deleted THEN {} ELSE keptLocks[h]]

Written(h, value) == [attributes |-> Info(h).attributes \cup {"WRITTEN"}, data |-> value]

\* Mutant of NvWriteIndexData: the note of the shutdown stays.
NvWriteIndexDataOrderly(h, value, rollsOver) ==
    /\ IF IsOrderly(h)
       THEN /\ LET image == [ram EXCEPT ![h] = Written(h, value)]
               IN  IF IsCounter(h) /\ (rollsOver \/ ~ IsWritten(h)) THEN WriteOrderlyRam(image)
                   ELSE ram' = image /\ UNCHANGED savedRam
            /\ UNCHANGED index
       ELSE /\ index' = [index EXCEPT ![h] = Written(h, value)]
            /\ index' # index => nvAvailable
            /\ UNCHANGED <<ram, savedRam>>
    /\ UNCHANGED powerVars

\* NvWriteIndexData: the first write of an orderly counter goes to NV, as does
\* one that rolls over.  The note of the shutdown is taken back also while NV is
\* not available: g_clearOrderly is set without a check.
NvWriteIndexData(h, value, rollsOver) ==
    IF IsOrderly(h)
    THEN /\ LET image == [ram EXCEPT ![h] = Written(h, value)]
            IN  IF IsCounter(h) /\ (rollsOver \/ ~ IsWritten(h)) THEN WriteOrderlyRam(image)
                ELSE ram' = image /\ UNCHANGED savedRam
         /\ orderlyState' = "NONE"
         /\ UNCHANGED <<index, started, nvAvailable>>
    ELSE /\ index' = [index EXCEPT ![h] = Written(h, value)]
         /\ index' # index => nvAvailable
         /\ UNCHANGED <<powerVars, ram, savedRam>>

\* NvWriteIndexAttributes: those of an orderly index change in RAM only.
NvWriteIndexAttribute(handles, attribute) ==
    LET marked(entries, which) ==
            [h \in NvHandle |-> IF h \in which
                                THEN [entries[h] EXCEPT !.attributes = @ \cup {attribute}]
                                ELSE entries[h]]
    IN  /\ ram' = marked(ram, { h \in handles : IsOrderly(h) })
        /\ index' = marked(index, { h \in handles : ~ IsOrderly(h) })
        /\ index' # index => nvAvailable
        /\ UNCHANGED <<powerVars, savedRam, maxCounter, savedMax>>

-----------------------------------------------------------------------------
(* The NV commands. *)

\* TPM2_NV_DefineSpace.  The space is never short.
DefineSpace(h, template) ==
    /\ started
    /\ nvAvailable
    /\ ~ IsDefined(h)
    /\ index' = [index EXCEPT ![h] = [attributes |-> template, data |-> 0]]
    /\ savedMax' = maxCounter
    /\ IF "ORDERLY" \in template THEN NvAddRAM(h, [attributes |-> template, data |-> 0])
                                 ELSE UNCHANGED <<ram, savedRam>>
    /\ UNCHANGED <<powerVars, maxCounter, nvHistory>>

\* TPM2_NV_UndefineSpace and TPM2_NV_UndefineSpaceSpecial, with the descriptor
\* that NvGetIndexInfo gives.
UndefineSpace(h) ==
    /\ started
    /\ nvAvailable
    /\ IsDefined(h)
    /\ NvDeleteIndex({h}, [k \in NvHandle |-> Info(k)])
    /\ UNCHANGED <<powerVars, highest, flushed, latest>>

\* The same without NV: the counter is noted in s_maxCounter, and stays.
UndefineSpaceFails(h) ==
    /\ started
    /\ ~ nvAvailable
    /\ IsCounter(h) /\ IsWritten(h)
    /\ maxCounter' = Max({maxCounter, Info(h).data})
    /\ UNCHANGED <<powerVars, index, ram, savedRam, savedMax, nvHistory>>

\* TPM2_Clear: NvFlushHierarchy deletes what the owner created, with the
\* descriptor as it is in NV, which never says that an orderly index is written.
ClearOwnerIndices ==
    LET owned == { h \in NvHandle : IsDefined(h) /\ "PLATFORMCREATE" \notin index[h].attributes }
    IN  /\ started
        /\ nvAvailable
        /\ NvClearOrderly
        /\ NvDeleteIndex(owned, index)
        /\ flushed' = flushed \cup { h \in owned : IsOrderly(h) /\ IsCounter(h) /\ IsWritten(h) }
        /\ UNCHANGED <<highest, latest>>

\* TPM2_NV_Write, and TPM2_NV_SetBits and TPM2_NV_Extend, which write a value
\* that they compute.
Write(h, value) ==
    /\ started
    /\ IsDefined(h)
    /\ ~ NvWriteLocked(h)
    /\ ~ IsCounter(h)
    /\ NvWriteIndexData(h, value, FALSE)
    /\ latest' = [latest EXCEPT ![h] = [data |-> value, age |-> "PERIOD"]]
    /\ UNCHANGED <<maxCounter, savedMax, highest, flushed, locks, keptLocks>>

\* What TPM2_NV_Increment writes: a counter starts above those deleted.
NextCount(h) == (IF IsWritten(h) THEN Info(h).data ELSE maxCounter) + 1

\* TPM2_NV_Increment
Increment(h) ==
    LET count == NextCount(h)
    IN  /\ started
        /\ IsDefined(h)
        /\ ~ NvWriteLocked(h)
        /\ IsCounter(h)
        /\ count <= MaxCount
        /\ NvWriteIndexData(h, count, count % OrderlyRange = 0)
        /\ highest' = [highest EXCEPT ![h] = Max({@, count})]
        /\ UNCHANGED <<maxCounter, savedMax, flushed, latest, locks, keptLocks>>

\* The locks of an orderly index are lost with the power.
Lock(handles, lock) ==
    /\ locks' = [h \in NvHandle |-> IF h \in handles THEN locks[h] \cup {lock} ELSE locks[h]]
    /\ keptLocks' = [h \in NvHandle |-> IF h \in handles /\ ~ IsOrderly(h)
                                        THEN keptLocks[h] \cup {lock} ELSE keptLocks[h]]
    /\ UNCHANGED <<highest, flushed, latest>>

\* TPM2_NV_WriteLock; it does nothing to an index that is locked.
WriteLock(h) ==
    /\ started
    /\ IsDefined(h)
    /\ ~ NvWriteLocked(h)
    /\ {"WRITEDEFINE", "WRITE_STCLEAR"} \cap index[h].attributes # {}
    /\ NvWriteIndexAttribute({h}, "WRITELOCKED")
    /\ Lock({h}, "WRITE")

\* TPM2_NV_GlobalWriteLock
GlobalWriteLock ==
    LET global == { h \in NvHandle : "GLOBALLOCK" \in index[h].attributes }
    IN  /\ started
        /\ NvWriteIndexAttribute(global, "WRITELOCKED")
        /\ Lock(global, "WRITE")

\* TPM2_NV_ReadLock, also of an index that is not written.
ReadLock(h) ==
    /\ started
    /\ IsDefined(h)
    /\ "READLOCKED" \notin Info(h).attributes
    /\ "READ_STCLEAR" \in index[h].attributes
    /\ NvWriteIndexAttribute({h}, "READLOCKED")
    /\ Lock({h}, "READ")

\* A command of another part takes the note of the shutdown back.
OtherOrderlyNvCommand ==
    /\ started
    /\ Orderly
    /\ NvClearOrderly
    /\ UNCHANGED <<nvMemory, nvHistory>>

-----------------------------------------------------------------------------
(* Shutdown and startup. *)

\* TPM2_Shutdown: NvUpdateIndexOrderlyData.
NvShutdown(shutdownType) ==
    /\ PowerShutdown(shutdownType)
    /\ WriteOrderlyRam(ram)
    /\ keptLocks' = locks
    /\ UNCHANGED <<index, maxCounter, savedMax, highest, flushed, latest, locks>>

\* Mutant of NvSetStartupAttributes: a lock is lifted although it was set with
\* WRITEDEFINE.
NvSetStartupAttributesUnlocks(attributes, type) ==
    LET loses == \/ "CLEAR_STCLEAR" \in attributes
                 \/ "ORDERLY" \in attributes /\ type = "RESET"
    IN  (IF "COUNTER" \notin attributes /\ loses THEN attributes \ {"WRITTEN"} ELSE attributes)
            \ {"READLOCKED", "WRITELOCKED"}

\* NvSetStartupAttributes
NvSetStartupAttributes(attributes, type) ==
    LET loses == \/ "CLEAR_STCLEAR" \in attributes
                 \/ "ORDERLY" \in attributes /\ type = "RESET"
        kept == (IF "COUNTER" \notin attributes /\ loses THEN attributes \ {"WRITTEN"}
                 ELSE attributes) \ {"READLOCKED"}
    IN  IF {"WRITTEN", "WRITEDEFINE"} \subseteq kept THEN kept ELSE kept \ {"WRITELOCKED"}

\* Mutant of RaisedCount: the count goes on as it was saved.
RaisedCountNot(count) == count

\* The count of an orderly counter with its low bits set.
RaisedCount(count) == (count \div OrderlyRange) * OrderlyRange + OrderlyRange - 1

\* NvEntityStartup on the indices in NV ...
StartedIndex(type) ==
    [h \in NvHandle |->
        IF type = "RESUME" \/ IsOrderly(h) \/ ~ IsDefined(h) THEN index[h]
        ELSE [index[h] EXCEPT !.attributes = NvSetStartupAttributes(@, type)]]

\* ... and on those in RAM.
StartedRam(type) ==
    [h \in NvHandle |->
        IF type = "RESUME" \/ savedRam[h] = None THEN savedRam[h]
        ELSE [attributes |-> NvSetStartupAttributes(savedRam[h].attributes, type),
              data |-> IF "COUNTER" \in savedRam[h].attributes /\ ~ Orderly
                       THEN RaisedCount(savedRam[h].data) ELSE savedRam[h].data]]

Aged(age, type) ==
    CASE type = "RESUME" -> age
      [] type = "RESTART" -> (IF age = "PERIOD" THEN "RESET" ELSE age)
      [] OTHER -> "OLD"

\* The locks that a startup leaves: a Resume all, another one those that were
\* set for good on an index that still has its data.
LocksLeft(h, type) ==
    CASE type = "RESUME" -> keptLocks[h]
      [] {"WRITEDEFINE", "WRITTEN"} \subseteq Info(h).attributes
            /\ ("COUNTER" \in index[h].attributes \/ ~ IsOrderly(h) \/ type = "RESTART") ->
                 keptLocks[h] \ {"READ"}
      [] OTHER -> {}

NvStartup(startupType) ==
    LET type == StartupType(startupType)
    IN  /\ PowerStartup(startupType)
        /\ index' = StartedIndex(type)
        /\ ram' = StartedRam(type)
        /\ maxCounter' = savedMax
        /\ \A h \in NvHandle : ram'[h].data <= MaxCount
        /\ highest' = [h \in NvHandle |->
               IF {"COUNTER", "WRITTEN"} \subseteq ram'[h].attributes
               THEN Max({highest[h], ram'[h].data}) ELSE highest[h]]
        /\ latest' = [h \in NvHandle |-> [latest[h] EXCEPT !.age = Aged(@, type)]]
        /\ locks' = [h \in NvHandle |-> LocksLeft(h, type)]
        /\ keptLocks' = locks'
        /\ UNCHANGED <<savedRam, savedMax, flushed>>

\* What is in RAM is lost; it is not read before the next startup.
NvPowerLost ==
    /\ PowerLoss
    /\ ram' = savedRam
    /\ maxCounter' = savedMax
    /\ locks' = keptLocks
    /\ UNCHANGED <<index, savedRam, savedMax, highest, flushed, latest, keptLocks>>

NvNvSignal ==
    /\ NvSignal
    /\ UNCHANGED <<nvMemory, nvHistory>>

NvNext ==
    \/ \E h \in NvHandle :
          \/ \E template \in Templates[h] : DefineSpace(h, template)
          \/ UndefineSpace(h)
          \/ UndefineSpaceFails(h)
          \/ \E value \in NvData : Write(h, value)
          \/ Increment(h)
          \/ WriteLock(h)
          \/ ReadLock(h)
    \/ GlobalWriteLock
    \/ ClearOwnerIndices
    \/ OtherOrderlyNvCommand
    \/ NvPowerLost
    \/ NvNvSignal
    \/ \E type \in StartupArgument : NvShutdown(type) \/ NvStartup(type)

NvSpec == NvInit /\ [][NvNext]_nvVars

-----------------------------------------------------------------------------
(* Properties. *)

\* After every crash there is room in RAM for each orderly index and for no
\* other: a command that finds an index would read from address 0 otherwise.
OrderlyRamIsExact ==
    \A h \in NvHandle :
        /\ savedRam[h] # None <=> IsOrderly(h)
        /\ ram[h] # None <=> IsOrderly(h)

\* What was read from a counter is never taken back: not by losing power, nor
\* by deleting it and defining it again under the same handle.  The orderly
\* counters that TPM2_Clear deletes are left out.
CountersNeverGoBack ==
    started => \A h \in NvHandle \ flushed :
        IsCounter(h) /\ IsWritten(h) => Info(h).data >= highest[h]

\* The same without the exception, as the comment on the maximum counter has
\* it: "This ensures that it is not possible to roll back an index."
DeletedCountersNeverGoBack ==
    started => \A h \in NvHandle :
        IsCounter(h) /\ IsWritten(h) => Info(h).data >= highest[h]

\* An index that is not a counter reads what was written last, or can not be
\* read: a startup never brings back older data.  Data with CLEAR_STCLEAR ends
\* with the next Restart or Reset, that of an orderly index with the next Reset.
NoStaleData ==
    started => \A h \in NvHandle :
        IsDefined(h) /\ ~ IsCounter(h) /\ NvReadable(h) =>
            /\ Info(h).data = latest[h].data
            /\ "CLEAR_STCLEAR" \in index[h].attributes => latest[h].age = "PERIOD"
            /\ IsOrderly(h) => latest[h].age # "OLD"

\* A lock holds until the startup that lifts it.  Those set on an orderly index
\* since it was last saved are lost with the power.
LocksHold ==
    started => \A h \in NvHandle :
        /\ "WRITE" \in locks[h] => NvWriteLocked(h)
        /\ "READ" \in locks[h] => ~ NvReadable(h)
=============================================================================

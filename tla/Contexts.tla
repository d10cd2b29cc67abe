------------------------------ MODULE Contexts ------------------------------
(***************************************************************************)
(* The saved contexts of sessions.                                         *)
(*                                                                         *)
(* TPM2_ContextSave moves a session out of the TPM: the caller keeps it,   *)
(* and the TPM keeps one entry of gr.contextArray for it.  A saved context *)
(* may come back once: a second load would bring back a session with its   *)
(* old nonce, or one that was flushed.  So each context has a sequence     *)
(* number, but the entry has room for its low bits only, and says with the *)
(* values up to MAX_LOADED_SESSIONS that the session is in a slot of RAM.  *)
(* When the low bits of the next number are those of the oldest saved      *)
(* context the gap is at its maximum: no session can be saved then, and    *)
(* there must always be a way to load the oldest one.                      *)
(***************************************************************************)
EXTENDS Power, FiniteSets

CONSTANTS
    MaxActive,      \* MAX_ACTIVE_SESSIONS, 64 in the build
    MaxLoaded,      \* MAX_LOADED_SESSIONS, 3 in the build
    SlotRange,      \* values of a CONTEXT_SLOT, 65536 in the build
    CounterMax,     \* the largest value of gr.contextCounter, 2^64 - 1 in the build
    MaxTotalResets  \* bound: TPM Resets

ASSUME ContextsAssumption ==
    /\ {MaxActive, MaxLoaded, SlotRange, CounterMax, MaxTotalResets} \subseteq Nat
    /\ MaxActive > 0
    /\ MaxLoaded > 0
    /\ SlotRange > MaxLoaded + 2
    /\ \E turns \in 1 .. (CounterMax + 1) : CounterMax + 1 = turns * SlotRange

VARIABLES
    contextArray,       \* gr.contextArray
    contextCounter,     \* gr.contextCounter: the number of the next context
    oldestSavedSession, \* s_oldestSavedSession
    occupied,           \* the i for which s_sessions[i - 1].occupied
    freeSessionSlots,   \* s_freeSessionSlots
    savedReset,         \* NV_STATE_RESET_DATA while orderlyState says STATE: the array and
                        \* the counter at TPM2_Shutdown; it is not read otherwise
    totalResetCount,    \* gp.totalResetCount, part of the integrity of a context
    given,              \* history: the last number given out since the last Reset
    live,               \* history: the number of the context of each saved session
    forgotten           \* history: those whose flush a Resume or a Restart takes back

contextIdVars == <<contextArray, contextCounter, oldestSavedSession, occupied, freeSessionSlots>>
contextHistory == <<given, live, forgotten>>
contextVars == <<powerVars, contextIdVars, savedReset, totalResetCount, contextHistory>>

Handle == 0 .. (MaxActive - 1)
NoSavedSession == MaxActive + 1
Slot == 1 .. MaxLoaded
Entry == 0 .. (SlotRange - 1)
Low(counter) == counter % SlotRange

\* What an entry of the array says.
SessionIsLoaded(h) == contextArray[h] \in Slot
SessionIsSaved(h) == contextArray[h] > MaxLoaded

ContextsTypeOK ==
    /\ PowerTypeOK
    /\ contextArray \in [Handle -> Entry]
    /\ contextCounter \in Nat
    /\ oldestSavedSession \in Handle \cup {NoSavedSession}
    /\ occupied \subseteq Slot
    /\ freeSessionSlots \in 0 .. MaxLoaded
    /\ savedReset \in [array : [Handle -> Entry], counter : Nat]
    /\ totalResetCount \in Nat
    /\ given \in Nat
    /\ live \in [Handle -> Nat]
    /\ forgotten \in [Handle -> Nat]

-----------------------------------------------------------------------------
(* Session.c *)

\* The saved session whose entry comes first, counting from the low bits of
\* the counter: what ContextIdSetOldest looks for.
Oldest(array, counter) ==
    { h \in Handle : /\ array[h] > MaxLoaded
                     /\ \A k \in Handle : array[k] > MaxLoaded =>
                           Low(array[h] - Low(counter)) <= Low(array[k] - Low(counter)) }

ContextIdSetOldest(array, counter) ==
    IF \A h \in Handle : array[h] <= MaxLoaded
    THEN oldestSavedSession' = NoSavedSession
    ELSE oldestSavedSession' \in Oldest(array, counter)

\* The next number to be given out has the low bits of the oldest context.
GapIsMaximal ==
    /\ oldestSavedSession # NoSavedSession
    /\ contextArray[oldestSavedSession] = Low(contextCounter)

\* The counter after counter was given out: low bits that stand for a free
\* entry or for a slot are skipped.
AfterCounter(counter) ==
    IF Low(counter + 1) = 0 THEN counter + 1 + MaxLoaded + 1 ELSE counter + 1

\* Mutant of SequenceNumberIsValid: the gap is not checked.
SequenceNumberAnyGap(h, sequence) ==
    /\ SessionIsSaved(h)
    /\ contextArray[h] = Low(sequence)
    /\ sequence <= contextCounter

\* SequenceNumberForSavedContextIsValid
SequenceNumberIsValid(h, sequence) ==
    /\ SessionIsSaved(h)
    /\ contextArray[h] = Low(sequence)
    /\ sequence <= contextCounter
    /\ contextCounter - sequence <= SlotRange

\* SessionCreate: the first slot and the first entry that are free.  The last
\* slot is kept for the oldest context while the gap is maximal.
SessionCreate(h, slot) ==
    /\ freeSessionSlots # 0
    /\ slot \in Slot \ occupied /\ \A i \in Slot \ occupied : slot <= i
    /\ ~ (freeSessionSlots = 1 /\ GapIsMaximal)
    /\ contextArray[h] = 0 /\ \A k \in 0 .. (h - 1) : contextArray[k] # 0
    /\ contextArray' = [contextArray EXCEPT ![h] = slot]
    /\ occupied' = occupied \cup {slot}
    /\ freeSessionSlots' = freeSessionSlots - 1
    /\ UNCHANGED <<contextCounter, oldestSavedSession>>

\* Mutant of SessionContextSave: a context is saved although the gap is maximal.
SessionContextSaveAnyGap(h) ==
    /\ contextArray' = [contextArray EXCEPT ![h] = Low(contextCounter)]
    /\ contextCounter' = AfterCounter(contextCounter)
    /\ oldestSavedSession' = IF oldestSavedSession = NoSavedSession THEN h ELSE oldestSavedSession
    /\ occupied' = occupied \ {contextArray[h]}
    /\ freeSessionSlots' = freeSessionSlots + 1

\* SessionContextSave: the session leaves its slot.
SessionContextSave(h) ==
    /\ ~ GapIsMaximal
    /\ contextArray' = [contextArray EXCEPT ![h] = Low(contextCounter)]
    /\ contextCounter' = AfterCounter(contextCounter)
    /\ oldestSavedSession' = IF oldestSavedSession = NoSavedSession THEN h ELSE oldestSavedSession
    /\ occupied' = occupied \ {contextArray[h]}
    /\ freeSessionSlots' = freeSessionSlots + 1

\* Mutant of SessionContextLoad: the last slot is taken by any saved session.
SessionContextLoadAny(h, slot) ==
    /\ freeSessionSlots # 0
    /\ slot \in Slot \ occupied
    /\ contextArray' = [contextArray EXCEPT ![h] = slot]
    /\ IF h = oldestSavedSession THEN ContextIdSetOldest(contextArray', contextCounter)
                                 ELSE UNCHANGED oldestSavedSession
    /\ occupied' = occupied \cup {slot}
    /\ freeSessionSlots' = freeSessionSlots - 1
    /\ UNCHANGED contextCounter

\* SessionContextLoad: the session gets the first free slot.  While the gap is
\* maximal only the oldest one gets the last slot.
SessionContextLoad(h, slot) ==
    /\ freeSessionSlots # 0
    /\ slot \in Slot \ occupied /\ \A i \in Slot \ occupied : slot <= i
    /\ ~ (freeSessionSlots = 1 /\ GapIsMaximal /\ h # oldestSavedSession)
    /\ contextArray' = [contextArray EXCEPT ![h] = slot]
    /\ IF h = oldestSavedSession THEN ContextIdSetOldest(contextArray', contextCounter)
                                 ELSE UNCHANGED oldestSavedSession
    /\ occupied' = occupied \cup {slot}
    /\ freeSessionSlots' = freeSessionSlots - 1
    /\ UNCHANGED contextCounter

\* SessionFlush, of a loaded or of a saved session.
SessionFlush(h) ==
    /\ contextArray' = [contextArray EXCEPT ![h] = 0]
    /\ UNCHANGED contextCounter
    /\ IF SessionIsSaved(h)
       THEN /\ UNCHANGED <<occupied, freeSessionSlots>>
            /\ IF h = oldestSavedSession THEN ContextIdSetOldest(contextArray', contextCounter)
                                         ELSE UNCHANGED oldestSavedSession
       ELSE /\ occupied' = occupied \ {contextArray[h]}
            /\ freeSessionSlots' = freeSessionSlots + 1
            /\ UNCHANGED oldestSavedSession

\* SessionStartup: no session is in RAM; the saved ones are there unless this
\* is a Reset, and entries that stood for a slot are free.
SessionStartup(type) ==
    /\ occupied' = {}
    /\ freeSessionSlots' = MaxLoaded
    /\ IF type = "RESET"
       THEN /\ contextArray' = [h \in Handle |-> 0]
            /\ contextCounter' = MaxLoaded + 1
            /\ oldestSavedSession' = NoSavedSession
       ELSE /\ contextArray' = [h \in Handle |-> IF savedReset.array[h] \in Slot THEN 0
                                                 ELSE savedReset.array[h]]
            /\ contextCounter' = savedReset.counter
            /\ ContextIdSetOldest(contextArray', contextCounter')

-----------------------------------------------------------------------------
(* The commands. *)

NoContext == [h \in Handle |-> 0]
NothingSaved == [array |-> [h \in Handle |-> 0], counter |-> 0]

ContextsInit ==
    /\ PowerInit
    /\ contextArray = [h \in Handle |-> 0]
    /\ contextCounter = MaxLoaded + 1
    /\ oldestSavedSession = NoSavedSession
    /\ occupied = {}
    /\ freeSessionSlots = MaxLoaded
    /\ savedReset = NothingSaved
    /\ totalResetCount = 0
    /\ given = 0
    /\ live = NoContext
    /\ forgotten = NoContext

\* A command takes the note of the shutdown back, and what was saved with it.
SavedStateIsVoid ==
    /\ NvClearOrderly
    /\ savedReset' = IF orderlyState' = "STATE" THEN savedReset ELSE NothingSaved
    /\ forgotten' = IF orderlyState' = "STATE" THEN forgotten ELSE NoContext
    /\ UNCHANGED totalResetCount

\* TPM2_StartAuthSession
CreateSession ==
    /\ started
    /\ \E h \in Handle, slot \in Slot : SessionCreate(h, slot)
    /\ UNCHANGED <<powerVars, savedReset, totalResetCount, contextHistory>>

\* TPM2_ContextSave of a session.
ContextSave(h) ==
    /\ started
    /\ SessionIsLoaded(h)
    /\ contextCounter # CounterMax
    /\ SavedStateIsVoid
    /\ SessionContextSave(h)
    /\ given' = contextCounter
    /\ live' = [live EXCEPT ![h] = contextCounter]

\* TPM2_ContextSave with the last number: TPM_RC_TOO_MANY_CONTEXTS.  The entry
\* is overwritten all the same, and the slot stays taken.
ContextSaveTooMany(h) ==
    /\ started
    /\ SessionIsLoaded(h)
    /\ contextCounter = CounterMax
    /\ ~ GapIsMaximal
    /\ SavedStateIsVoid
    /\ contextArray' = [contextArray EXCEPT ![h] = Low(contextCounter)]
    /\ UNCHANGED <<contextCounter, oldestSavedSession, occupied, freeSessionSlots, given, live>>

\* A context that the TPM made: the caller can not make one.
Genuine(sequence, resetCount) == resetCount < totalResetCount \/ sequence <= given

\* The integrity of a context holds under the reset count it was saved with.
ContextIsValid(h, sequence, resetCount) ==
    /\ resetCount = totalResetCount
    /\ SequenceNumberIsValid(h, sequence)

\* TPM2_ContextLoad of a session, with a context that it accepts.
ContextLoad(h, sequence, resetCount) ==
    /\ started
    /\ Genuine(sequence, resetCount)
    /\ SavedStateIsVoid
    /\ ContextIsValid(h, sequence, resetCount)
    /\ \E slot \in Slot : SessionContextLoad(h, slot)
    /\ live' = [live EXCEPT ![h] = 0]
    /\ UNCHANGED given

\* A command of another part takes the note back, or a command of this part
\* that fails after RETURN_IF_ORDERLY.
OtherCommand ==
    /\ started
    /\ Orderly
    /\ SavedStateIsVoid
    /\ UNCHANGED <<contextIdVars, given, live>>

\* TPM2_FlushContext of a session: the note stays.
FlushContext(h) ==
    /\ started
    /\ contextArray[h] # 0
    /\ SessionFlush(h)
    /\ live' = [live EXCEPT ![h] = 0]
    /\ forgotten' = [forgotten EXCEPT ![h] =
                        IF orderlyState = "STATE" /\ live[h] # 0 THEN live[h] ELSE @]
    /\ UNCHANGED <<powerVars, savedReset, totalResetCount, given>>

Shutdown(shutdownType) ==
    /\ PowerShutdown(shutdownType)
    /\ savedReset' = IF shutdownType = "STATE"
                     THEN [array |-> contextArray, counter |-> contextCounter]
                     ELSE NothingSaved
    /\ forgotten' = NoContext
    /\ UNCHANGED <<contextIdVars, totalResetCount, given, live>>

Startup(startupType) ==
    /\ PowerStartup(startupType)
    /\ SessionStartup(StartupType(startupType))
    /\ savedReset' = NothingSaved
    /\ forgotten' = NoContext
    /\ IF StartupType(startupType) = "RESET"
       THEN /\ totalResetCount < MaxTotalResets
            /\ totalResetCount' = totalResetCount + 1
            /\ given' = 0
            /\ live' = NoContext
       ELSE /\ live' = [h \in Handle |-> IF forgotten[h] # 0 THEN forgotten[h] ELSE live[h]]
            /\ UNCHANGED <<totalResetCount, given>>

PowerLost == PowerLoss /\ UNCHANGED <<contextIdVars, savedReset, totalResetCount, contextHistory>>
NvSignalled == NvSignal /\ UNCHANGED <<contextIdVars, savedReset, totalResetCount, contextHistory>>

ContextsNext ==
    \/ CreateSession
    \/ OtherCommand
    \/ PowerLost
    \/ NvSignalled
    \/ \E h \in Handle :
          \/ ContextSave(h)
          \/ ContextSaveTooMany(h)
          \/ FlushContext(h)
          \/ \E sequence \in 1 .. CounterMax, resetCount \in 0 .. totalResetCount :
                ContextLoad(h, sequence, resetCount)
    \/ \E type \in StartupArgument : Shutdown(type) \/ Startup(type)

ContextsSpec == ContextsInit /\ [][ContextsNext]_contextVars

-----------------------------------------------------------------------------
(* Properties.  They speak of a TPM that is started and whose counter is not *)
(* at its last value, which no TPM reaches: ContextSaveTooMany has then      *)
(* already broken the array.                                                 *)

ContextsInUse == started /\ contextCounter # CounterMax

\* TPM2_ContextLoad accepts the latest context of a session that is saved, and
\* no other: none that was loaded before or whose session was flushed, however
\* often the entry's low bits wrapped since, and none of an earlier Reset.  A
\* flush after TPM2_Shutdown(STATE) is forgotten by the Resume that follows.
OnlyLiveContextsLoad ==
    ContextsInUse =>
        \A h \in Handle, sequence \in 1 .. CounterMax, resetCount \in 0 .. totalResetCount :
            Genuine(sequence, resetCount) /\ ContextIsValid(h, sequence, resetCount) =>
                /\ live[h] = sequence
                /\ resetCount = totalResetCount

\* A saved session stays loadable until it is loaded or flushed, through every
\* Resume and Restart: its number never falls out of what the entry can tell.
LiveContextsStayValid ==
    ContextsInUse => \A h \in Handle : live[h] # 0 => SequenceNumberIsValid(h, live[h])

OldestIsOldest ==
    IF \A h \in Handle : live[h] = 0
    THEN oldestSavedSession = NoSavedSession
    ELSE /\ oldestSavedSession \in Handle
         /\ live[oldestSavedSession] # 0
         /\ \A h \in Handle : live[h] # 0 => live[oldestSavedSession] <= live[h]

SlotsAreExact ==
    /\ \A slot \in Slot : slot \in occupied <=> \E h \in Handle : contextArray[h] = slot
    /\ \A h, k \in Handle : SessionIsLoaded(h) /\ contextArray[h] = contextArray[k] => h = k
    /\ freeSessionSlots = Cardinality(Slot \ occupied)

\* What the entries say is exact: a slot is taken by exactly one session, which
\* s_freeSessionSlots counts, so the handle of a session never leads to the slot
\* of another; and s_oldestSavedSession is the session that was saved first,
\* although only low bits that wrapped tell the order.
ContextArrayIsExact == ContextsInUse => OldestIsOldest /\ SlotsAreExact

\* While the gap is maximal a slot is free for the oldest context: the caller
\* can always load it and go on, whatever sessions were started and loaded.
GapCanBeRelieved ==
    ContextsInUse => (GapIsMaximal => freeSessionSlots >= 1)
=============================================================================

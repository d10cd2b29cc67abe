------------------------------ MODULE Objects ------------------------------
(***************************************************************************)
(* The objects in the slots of the TPM, in NV and in saved contexts, and   *)
(* the hierarchies they belong to (Object.c, Hierarchy.c, the commands on  *)
(* hierarchies, contexts and persistent objects).                          *)
(*                                                                         *)
(* A hierarchy may be disabled, or cleared with a new seed and proof: its  *)
(* objects must then be gone wherever they are.  A slot is emptied at      *)
(* once and NV is searched; a context in the hands of the caller can only  *)
(* be refused later, by its integrity value: the HMAC under the proof of   *)
(* its hierarchy, over the count of resets and, for an object with         *)
(* stClear, over the count of restarts (clearCount).                       *)
(*                                                                         *)
(* A command that names a persistent object gets a copy in a slot, which   *)
(* ObjectCleanupEvict takes away at the end of the command.                *)
(***************************************************************************)
EXTENDS Power, FiniteSets

CONSTANTS
    MaxObjects,     \* MAX_LOADED_OBJECTS, 3 in the build
    OwnerHandles,   \* persistent handles below PLATFORM_PERSISTENT
    PlatformHandles,    \* the others
    UsedHierarchies,    \* bound: the hierarchies in which objects are made
    MaxContexts,    \* bound: contexts in the hands of the caller
    MaxObjectResets,    \* bound: TPM Resets
    MaxPeriods,     \* bound: TPM Resets and Restarts
    MaxCleared      \* bound: how often hierarchies are cleared

Hierarchy == {"OWNER", "ENDORSEMENT", "PLATFORM", "NULL"}

ASSUME ObjectsAssumption ==
    /\ {MaxContexts, MaxObjectResets, MaxPeriods, MaxCleared} \subseteq Nat
    /\ MaxObjects \in Nat \ {0}
    /\ OwnerHandles \cap PlatformHandles = {}
    /\ UsedHierarchies \subseteq Hierarchy

VARIABLES
    slots,          \* s_objects
    persistent,     \* the evict objects in NV
    enable,         \* g_phEnable, gc.shEnable, gc.ehEnable
    savedEnable,    \* gc in NV_STATE_CLEAR_DATA while orderlyState says STATE
    proofs,         \* gp.phProof, gp.shProof, gp.ehProof, gr.nullProof: which one it is
    resetCount,     \* gp.totalResetCount
    clearCount,     \* gr.clearCount
    savedClearCount,    \* gr in NV_STATE_RESET_DATA while orderlyState says STATE
    contexts,       \* the saved contexts that the caller has
    cleared,        \* history: how often each hierarchy was cleared
    period          \* history: how many Resets and Restarts there were

objectVars == <<slots, persistent, contexts>>
hierarchyVars == <<enable, proofs, cleared>>
countVars == <<resetCount, clearCount, period>>
objectsVars == <<powerVars, objectVars, hierarchyVars, countVars, savedEnable, savedClearCount>>

ObjectSlot == 1 .. MaxObjects
PersistentHandle == OwnerHandles \cup PlatformHandles
Empty == [hierarchy |-> "none"]

\* An object is temporary if it is in the NULL hierarchy.  Those that may be
\* neither a parent nor persistent, a public key or a sequence, do less than
\* the others and are not told apart from them.
Object == [hierarchy : Hierarchy, stClear : BOOLEAN, evict : BOOLEAN,
           born : [cleared : Nat, reset : Nat, period : Nat]]
Context == [object : Object, proof : Nat, reset : Nat, clear : Nat]

ObjectsTypeOK ==
    /\ PowerTypeOK
    /\ slots \in [ObjectSlot -> Object \cup {Empty}]
    /\ persistent \in [PersistentHandle -> Object \cup {Empty}]
    /\ {enable, savedEnable} \subseteq [Hierarchy -> BOOLEAN]
    /\ {proofs, cleared} \subseteq [Hierarchy -> Nat]
    /\ contexts \subseteq Context
    /\ {resetCount, clearCount, savedClearCount, period} \subseteq Nat
    /\ \A i \in ObjectSlot : slots[i] # Empty => ~ slots[i].evict

-----------------------------------------------------------------------------
(* Object.c and NVDynamic.c *)

FreeSlots(s) == { i \in ObjectSlot : s[i] = Empty }

\* FindEmptyObjectSlot takes the first one.
InFreeSlot(s, object) == [s EXCEPT ![CHOOSE i \in FreeSlots(s) : \A j \in FreeSlots(s) : i <= j] = object]

\* ObjectCleanupEvict
ObjectCleanupEvict(s) == [i \in ObjectSlot |-> IF s[i] # Empty /\ s[i].evict THEN Empty ELSE s[i]]

\* ObjectFlushHierarchy
ObjectFlushHierarchy(flushed) ==
    [i \in ObjectSlot |-> IF slots[i].hierarchy \in flushed THEN Empty ELSE slots[i]]

\* Mutant of NvFlushHierarchy: the handle tells the hierarchy.
NvFlushHierarchyByRange(flushed) ==
    [p \in PersistentHandle |->
        IF (IF p \in PlatformHandles THEN "PLATFORM" ELSE "OWNER") \in flushed THEN Empty
        ELSE persistent[p]]

\* NvFlushHierarchy, as far as objects are concerned.
NvFlushHierarchy(flushed) ==
    [p \in PersistentHandle |-> IF persistent[p].hierarchy \in flushed THEN Empty ELSE persistent[p]]

\* Mutant of NvGetEvictObject: the copy is marked only if there is an object.
NvGetEvictObjectUnmarked(p, leftover) == IF persistent[p] = Empty THEN leftover ELSE persistent[p]

\* NvGetEvictObject: what is in the slot after it is marked as a copy, also if
\* there is no such object and the slot keeps what was in it.
NvGetEvictObject(p, leftover) == IF persistent[p] = Empty THEN [leftover EXCEPT !.evict = TRUE]
                                 ELSE persistent[p]

\* What ObjectLoadEvict asks for before it takes a slot.
EvictRangeIsEnabled(p) == IF p \in PlatformHandles THEN enable["PLATFORM"] ELSE enable["OWNER"]

\* The command found its persistent object, and may use it.
EvictIsUsable(p) ==
    /\ EvictRangeIsEnabled(p)
    /\ persistent[p] # Empty
    /\ persistent[p].hierarchy = "ENDORSEMENT" => enable["ENDORSEMENT"]
    /\ FreeSlots(slots) # {}

\* ObjectSetLoadedAttributes of a child of parent.
Child(parent, stClear) ==
    [parent EXCEPT !.stClear = stClear \/ parent.stClear, !.evict = FALSE,
                   !.born = [cleared |-> cleared[parent.hierarchy], reset |-> resetCount,
                             period |-> period]]

\* ObjectSetLoadedAttributes of an object that hangs from a hierarchy.
NewObject(h, stClear) ==
    [hierarchy |-> h, stClear |-> stClear, evict |-> FALSE,
     born |-> [cleared |-> cleared[h], reset |-> resetCount, period |-> period]]

-----------------------------------------------------------------------------
(* The commands on objects. *)

ObjectsInit ==
    /\ PowerInit
    /\ slots = [i \in ObjectSlot |-> Empty]
    /\ persistent = [p \in PersistentHandle |-> Empty]
    /\ enable = [h \in Hierarchy |-> TRUE]
    /\ savedEnable = enable
    /\ proofs = [h \in Hierarchy |-> 0]
    /\ resetCount = 0 /\ clearCount = 0 /\ savedClearCount = 0
    /\ contexts = {}
    /\ cleared = [h \in Hierarchy |-> 0]
    /\ period = 0

\* What was saved at a shutdown is not read once the note is taken back.
SavedIsVoid ==
    IF orderlyState' = "STATE" THEN UNCHANGED <<savedEnable, savedClearCount>>
    ELSE /\ savedEnable' = [h \in Hierarchy |-> TRUE]
         /\ savedClearCount' = 0

\* TPM2_CreatePrimary, TPM2_LoadExternal and the starts of sequences: all but
\* TPM2_LoadExternal name the hierarchy by a handle, which has to be enabled.
CreateObject(h, stClear) ==
    /\ started
    /\ enable[h]
    /\ FreeSlots(slots) # {}
    /\ slots' = InFreeSlot(slots, NewObject(h, stClear))
    /\ UNCHANGED <<powerVars, persistent, contexts, hierarchyVars, countVars, savedEnable,
                   savedClearCount>>

\* TPM2_Load and TPM2_CreateLoaded below a loaded object ...
LoadBelow(i, stClear) ==
    /\ started
    /\ slots[i] # Empty
    /\ FreeSlots(slots) # {}
    /\ slots' = InFreeSlot(slots, Child(slots[i], stClear))
    /\ UNCHANGED <<powerVars, persistent, contexts, hierarchyVars, countVars, savedEnable,
                   savedClearCount>>

\* ... and below a persistent one, whose copy needs a slot as well.
LoadBelowPersistent(p, stClear) ==
    /\ started
    /\ EvictIsUsable(p)
    /\ LET withCopy == InFreeSlot(slots, NvGetEvictObject(p, Empty))
       IN  /\ FreeSlots(withCopy) # {}
           /\ slots' = ObjectCleanupEvict(InFreeSlot(withCopy, Child(persistent[p], stClear)))
    /\ UNCHANGED <<powerVars, persistent, contexts, hierarchyVars, countVars, savedEnable,
                   savedClearCount>>

\* A command that names a persistent object and fails, or keeps nothing of it.
\* Any object may have been in the slot before.
UsePersistent(p, leftover) ==
    /\ started
    /\ EvictRangeIsEnabled(p)
    /\ FreeSlots(slots) # {}
    /\ slots' = ObjectCleanupEvict(InFreeSlot(slots, NvGetEvictObject(p, leftover)))
    /\ UNCHANGED <<powerVars, persistent, contexts, hierarchyVars, countVars, savedEnable,
                   savedClearCount>>

\* TPM2_FlushContext of an object, and the end of a sequence.
FlushObject(i) ==
    /\ started
    /\ slots[i] # Empty
    /\ slots' = [slots EXCEPT ![i] = Empty]
    /\ UNCHANGED <<powerVars, persistent, contexts, hierarchyVars, countVars, savedEnable,
                   savedClearCount>>

\* TPM2_EvictControl makes a loaded object persistent.
MakePersistent(auth, i, p) ==
    /\ started
    /\ enable[auth]
    /\ nvAvailable
    /\ slots[i] # Empty
    /\ ~ slots[i].stClear /\ slots[i].hierarchy # "NULL"
    /\ IF auth = "PLATFORM" THEN slots[i].hierarchy = "PLATFORM" /\ p \in PlatformHandles
                            ELSE slots[i].hierarchy # "PLATFORM" /\ p \in OwnerHandles
    /\ persistent[p] = Empty
    /\ persistent' = [persistent EXCEPT ![p] = [slots[i] EXCEPT !.evict = TRUE]]
    /\ UNCHANGED <<powerVars, slots, contexts, hierarchyVars, countVars, savedEnable,
                   savedClearCount>>

\* TPM2_EvictControl deletes a persistent object; the endorsement hierarchy
\* need not be enabled.
DeletePersistent(auth, p) ==
    /\ started
    /\ enable[auth]
    /\ nvAvailable
    /\ EvictRangeIsEnabled(p)
    /\ FreeSlots(slots) # {}
    /\ persistent[p] # Empty
    /\ auth = "PLATFORM" \/ persistent[p].hierarchy # "PLATFORM"
    /\ persistent' = [persistent EXCEPT ![p] = Empty]
    /\ slots' = ObjectCleanupEvict(InFreeSlot(slots, NvGetEvictObject(p, Empty)))
    /\ UNCHANGED <<powerVars, contexts, hierarchyVars, countVars, savedEnable, savedClearCount>>

\* TPM2_ContextSave of an object: the object stays where it is.
SaveObject(i) ==
    /\ started
    /\ slots[i] # Empty
    /\ Cardinality(contexts) < MaxContexts
    /\ NvClearOrderly
    /\ SavedIsVoid
    /\ contexts' = contexts \cup
           {[object |-> slots[i], proof |-> proofs[slots[i].hierarchy], reset |-> resetCount,
             clear |-> IF slots[i].stClear THEN clearCount ELSE 0]}
    /\ UNCHANGED <<slots, persistent, hierarchyVars, countVars>>

\* Mutant of ObjectContextIsValid: the count of resets is not part of it.
ObjectContextAnyReset(c) ==
    /\ c.proof = proofs[c.object.hierarchy]
    /\ c.object.stClear => c.clear = clearCount

\* ComputeContextIntegrity gives the value that the context was saved with.
ObjectContextIsValid(c) ==
    /\ c.proof = proofs[c.object.hierarchy]
    /\ c.reset = resetCount
    /\ c.object.stClear => c.clear = clearCount

\* TPM2_ContextLoad of an object, as often as the caller likes.
LoadObjectContext(c) ==
    /\ started
    /\ ObjectContextIsValid(c)
    /\ enable[c.object.hierarchy]
    /\ FreeSlots(slots) # {}
    /\ slots' = InFreeSlot(slots, c.object)
    /\ UNCHANGED <<powerVars, persistent, contexts, hierarchyVars, countVars, savedEnable,
                   savedClearCount>>

-----------------------------------------------------------------------------
(* The commands on hierarchies. *)

\* TPM2_HierarchyControl: only the platform enables a hierarchy, and disables
\* itself until the next startup.
HierarchyControl(auth, h, state) ==
    /\ started
    /\ enable[auth]
    /\ auth \in {"PLATFORM", h}
    /\ h # "NULL"
    /\ state => auth = "PLATFORM"
    /\ enable[h] # state
    /\ NvClearOrderly
    /\ SavedIsVoid
    /\ enable' = [enable EXCEPT ![h] = state]
    /\ slots' = IF state THEN slots ELSE ObjectFlushHierarchy({h})
    /\ UNCHANGED <<persistent, contexts, proofs, cleared, countVars>>

\* What TPM2_Clear, TPM2_ChangeEPS and TPM2_ChangePPS have in common: the
\* hierarchies flushed get new proofs, their objects go from RAM and NV.
Renew(flushed) ==
    /\ started
    /\ nvAvailable
    /\ \A h \in flushed : cleared[h] < MaxCleared
    /\ NvClearOrderly
    /\ SavedIsVoid
    /\ proofs' = [h \in Hierarchy |-> proofs[h] + IF h \in flushed THEN 1 ELSE 0]
    /\ cleared' = [h \in Hierarchy |-> cleared[h] + IF h \in flushed THEN 1 ELSE 0]
    /\ slots' = ObjectFlushHierarchy(flushed)
    /\ persistent' = NvFlushHierarchy(flushed)
    /\ UNCHANGED contexts

\* TPM2_Clear, with the authorization of the platform or of lockout.
ClearOwner ==
    /\ Renew({"OWNER", "ENDORSEMENT"})
    /\ enable' = [enable EXCEPT !["OWNER"] = TRUE, !["ENDORSEMENT"] = TRUE]
    /\ clearCount' = 0
    /\ UNCHANGED <<resetCount, period>>

\* TPM2_ChangeEPS
ChangeEPS ==
    /\ enable["PLATFORM"]
    /\ Renew({"ENDORSEMENT"})
    /\ enable' = [enable EXCEPT !["ENDORSEMENT"] = TRUE]
    /\ UNCHANGED countVars

\* TPM2_ChangePPS
ChangePPS ==
    /\ enable["PLATFORM"]
    /\ Renew({"PLATFORM"})
    /\ UNCHANGED <<enable, countVars>>

\* A command of another part takes the note of the shutdown back.
OtherOrderlyCommand ==
    /\ started
    /\ Orderly
    /\ NvClearOrderly
    /\ SavedIsVoid
    /\ UNCHANGED <<objectVars, hierarchyVars, countVars>>

-----------------------------------------------------------------------------
(* Shutdown and startup. *)

ObjectsShutdown(shutdownType) ==
    /\ PowerShutdown(shutdownType)
    /\ savedEnable' = IF shutdownType = "STATE" THEN enable ELSE [h \in Hierarchy |-> TRUE]
    /\ savedClearCount' = IF shutdownType = "STATE" THEN clearCount ELSE 0
    /\ UNCHANGED <<objectVars, hierarchyVars, countVars>>

\* HierarchyStartup, ObjectStartup and the counts.
ObjectsStartup(startupType) ==
    LET type == StartupType(startupType)
    IN  /\ PowerStartup(startupType)
        /\ enable' = IF type = "RESUME" THEN [savedEnable EXCEPT !["PLATFORM"] = TRUE]
                                        ELSE [h \in Hierarchy |-> TRUE]
        /\ IF type = "RESET"
           THEN /\ resetCount < MaxObjectResets
                /\ resetCount' = resetCount + 1
                /\ proofs' = [proofs EXCEPT !["NULL"] = @ + 1]
                /\ clearCount' = 0
           ELSE /\ clearCount' = savedClearCount + IF type = "RESTART" THEN 1 ELSE 0
                /\ UNCHANGED <<resetCount, proofs>>
        /\ period' = IF type = "RESUME" THEN period ELSE period + 1
        /\ period' <= MaxPeriods
        /\ slots' = [i \in ObjectSlot |-> Empty]
        /\ SavedIsVoid
        /\ UNCHANGED <<persistent, contexts, cleared>>

ObjectsPowerLost ==
    /\ PowerLoss
    /\ UNCHANGED <<objectVars, hierarchyVars, countVars, savedEnable, savedClearCount>>

ObjectsNvSignal ==
    /\ NvSignal
    /\ UNCHANGED <<objectVars, hierarchyVars, countVars, savedEnable, savedClearCount>>

ObjectsNext ==
    \/ \E h \in UsedHierarchies, stClear \in BOOLEAN : CreateObject(h, stClear)
    \/ \E i \in ObjectSlot :
          \/ FlushObject(i)
          \/ SaveObject(i)
          \/ \E stClear \in BOOLEAN : LoadBelow(i, stClear)
          \/ \E auth \in {"OWNER", "PLATFORM"}, p \in PersistentHandle : MakePersistent(auth, i, p)
    \/ \E p \in PersistentHandle :
          \/ \E stClear \in BOOLEAN : LoadBelowPersistent(p, stClear)
          \/ \E h \in UsedHierarchies : UsePersistent(p, NewObject(h, FALSE))
          \/ \E auth \in {"OWNER", "PLATFORM"} : DeletePersistent(auth, p)
    \/ \E c \in contexts : LoadObjectContext(c)
    \/ \E auth, h \in UsedHierarchies, state \in BOOLEAN : HierarchyControl(auth, h, state)
    \/ ClearOwner
    \/ ChangeEPS
    \/ ChangePPS
    \/ OtherOrderlyCommand
    \/ ObjectsPowerLost
    \/ ObjectsNvSignal
    \/ \E type \in StartupArgument : ObjectsShutdown(type) \/ ObjectsStartup(type)

ObjectsSpec == ObjectsInit /\ [][ObjectsNext]_objectsVars

-----------------------------------------------------------------------------
(* Properties. *)

LoadedObjects == { slots[i] : i \in ObjectSlot } \ {Empty}
PersistentObjects == { persistent[p] : p \in PersistentHandle } \ {Empty}

\* While a hierarchy is disabled no object of it is in a slot: none stays, and
\* none comes back from a context or from below a persistent parent.
DisabledHierarchyIsEmpty ==
    started => \A object \in LoadedObjects : enable[object.hierarchy]

\* No object outlives the clearing of its hierarchy, neither in a slot nor in
\* NV nor in a context that can still be loaded.
ClearedObjectsAreGone ==
    \A object \in LoadedObjects \cup PersistentObjects \cup
                  { c.object : c \in { d \in contexts : ObjectContextIsValid(d) } } :
        object.born.cleared = cleared[object.hierarchy]

\* An object that is not persistent does not outlive a TPM Reset, although its
\* context does; one with stClear, or below one, does not outlive a TPM Restart
\* either.  Those of the platform are left out: TPM2_Clear sets the count of
\* restarts, with which their contexts were saved, back to 0 and leaves their
\* proof.
ObjectsEndWithTheirPeriod ==
    started => \A object \in LoadedObjects :
        /\ object.born.reset = resetCount
        /\ object.stClear /\ object.hierarchy \in {"OWNER", "ENDORSEMENT"} =>
              object.born.period = period
=============================================================================

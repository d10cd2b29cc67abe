------------------------------- MODULE Parts -------------------------------
(***************************************************************************)
(* The parts of the TPM that have nothing in common but how it goes down   *)
(* and comes up again, for TLC: each behaviour is one of one part, and the *)
(* variables of the others stay as they are at first.                      *)
(***************************************************************************)
EXTENDS Contexts, Lockout, Objects, Nv, Pcrs

CONSTANTS
    UsedParts,      \* the parts that are checked
    n1, n2          \* handles of NV indices

VARIABLE part

contextOwn == <<contextIdVars, savedReset, totalResetCount, contextHistory>>
lockoutOwn == <<timer, time, go, nvGo, da, nvDa, pendingOnNV, lockoutHistory>>
objectsOwn == <<objectVars, hierarchyVars, countVars, savedEnable, savedClearCount>>
nvOwn == <<nvMemory, nvHistory>>

partsVars == <<part, powerVars, contextOwn, lockoutOwn, objectsOwn, nvOwn, pcrOwn>>

\* All kinds of indices at one handle, a counter at the other.
NvTemplates ==
    [h \in {n1, n2} |->
        IF h = n1 THEN {{"COUNTER", "ORDERLY", "WRITEDEFINE"},
                        {"ORDERLY", "READ_STCLEAR", "WRITE_STCLEAR"},
                        {"CLEAR_STCLEAR", "GLOBALLOCK", "PLATFORMCREATE"}}
                  ELSE {{"COUNTER"}}]

PartsInit ==
    /\ part \in UsedParts
    /\ ContextsInit
    /\ LockoutInit
    /\ ObjectsInit
    /\ NvInit
    /\ PcrsInit

PartsNext ==
    /\ UNCHANGED part
    /\ \/ /\ part = "Contexts"
          /\ UNCHANGED <<lockoutOwn, objectsOwn, nvOwn, pcrOwn>>
          /\ ContextsNext
       \/ /\ part = "Lockout"
          /\ UNCHANGED <<contextOwn, objectsOwn, nvOwn, pcrOwn>>
          /\ LockoutNext
       \/ /\ part = "Objects"
          /\ UNCHANGED <<contextOwn, lockoutOwn, nvOwn, pcrOwn>>
          /\ ObjectsNext
       \/ /\ part = "Nv"
          /\ UNCHANGED <<contextOwn, lockoutOwn, objectsOwn, pcrOwn>>
          /\ NvNext
       \/ /\ part = "Pcrs"
          /\ UNCHANGED <<contextOwn, lockoutOwn, objectsOwn, nvOwn>>
          /\ PcrsNext

PartsSpec == PartsInit /\ [][PartsNext]_partsVars

-----------------------------------------------------------------------------
\* Every variable of the part that runs holds what the code can store in it; those
\* of the others do not change.
PartsTypeOK ==
    /\ part = "Contexts" => ContextsTypeOK
    /\ part = "Lockout" => LockoutTypeOK
    /\ part = "Objects" => ObjectsTypeOK
    /\ part = "Nv" => NvTypeOK
    /\ part = "Pcrs" => PcrsTypeOK
=============================================================================

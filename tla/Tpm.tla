-------------------------------- MODULE Tpm --------------------------------
(***************************************************************************)
(* The TPM as the bridge sees it: the sessions, the commitments and the    *)
(* key slots behind one command interface.                                 *)
(*                                                                         *)
(* The TPM serves one command at a time, so a command is one action.  It   *)
(* either succeeds or returns an error and changes nothing; the operators  *)
(* that answer with a handle take NoHandle for the error.                  *)
(***************************************************************************)
EXTENDS CommitCounter, Sessions

CONSTANT
    MaxObjects      \* MAX_LOADED_OBJECTS, 3 in the build

ASSUME TpmAssumption == MaxObjects \in Nat

VARIABLES
    objects,        \* s_objects: the key in each slot
    persistent      \* the key at EK_PERSISTENT_HANDLE in NV

objectVars == <<objects, persistent>>
tpmVars == <<commitVars, sessionVars, objectVars>>

ObjectHandle == 0 .. (MaxObjects - 1)
NoHandle == -1

PrimaryKey == {"ek", "daa"}         \* made by TPM2_CreatePrimary
PublicKey == {"wallet", "issuer"}   \* brought by TPM2_LoadExternal
Slot == PrimaryKey \cup PublicKey \cup {"none"}

KeyAt(k) == IF k \in ObjectHandle THEN objects[k] ELSE "none"

FreeSlots == { k \in ObjectHandle : objects[k] = "none" }

-----------------------------------------------------------------------------
(* Answers: a command that may fail, and what it leaves alone. *)

ObjectCommand(can, command) ==
    \/ command /\ UNCHANGED <<commitVars, sessionVars>>
    \/ ~ can /\ UNCHANGED tpmVars

SessionCommand(can, command) ==
    \/ command /\ UNCHANGED <<commitVars, objectVars>>
    \/ ~ can /\ UNCHANGED tpmVars

-----------------------------------------------------------------------------
(* Key slots. *)

\* TPM2_CreatePrimary and TPM2_LoadExternal: the key takes the lowest free slot.
LoadKey(k, key) ==
    /\ \/ /\ k \in FreeSlots /\ \A j \in FreeSlots : k <= j
          /\ objects' = [objects EXCEPT ![k] = key]
       \/ /\ k = NoHandle
          /\ FreeSlots = {}
          /\ UNCHANGED objects
    /\ UNCHANGED <<persistent, commitVars, sessionVars>>

FlushKey(k) ==
    ObjectCommand(KeyAt(k) # "none",
        /\ KeyAt(k) # "none"
        /\ objects' = [objects EXCEPT ![k] = "none"]
        /\ UNCHANGED persistent)

\* A public-only object has nothing to persist, and the handle may be taken.
CanMakePersistent(k) == KeyAt(k) \in PrimaryKey /\ persistent = "none"

MakePersistent(k) ==
    ObjectCommand(CanMakePersistent(k),
        /\ CanMakePersistent(k)
        /\ persistent' = objects[k]
        /\ UNCHANGED objects)

\* A persistent key that a command names is first copied to a free slot, which
\* is free again at the end of the command.
CanUsePersistent == persistent # "none" /\ FreeSlots # {}

DeletePersistent ==
    ObjectCommand(CanUsePersistent,
        /\ CanUsePersistent
        /\ persistent' = "none"
        /\ UNCHANGED objects)

\* The credential was made for the name of the attestation key under the EK.
CanActivateCredential(k) ==
    KeyAt(k) = "daa" /\ CanUsePersistent /\ persistent = "ek"

-----------------------------------------------------------------------------
(* Sessions, as the bridge opens and uses them. *)

OpenSession(h) ==
    \/ StartAuthSession(h) /\ UNCHANGED <<commitVars, objectVars>>
    \/ h = NoHandle /\ FreeSessions = {} /\ UNCHANGED tpmVars

\* The wallet's key, in slot k, is the one the policy names.
SignedByWallet(k, h, nonce, sig) ==
    LET can == KeyAt(k) = "wallet" /\ CanPolicySigned(h, nonce, sig)
    IN  SessionCommand(can, can /\ PolicySigned(h, nonce, sig))

\* TPM2_Commit with a point on the curve, or with none.
CanCommit(k, h) == KeyAt(k) = "daa" /\ CheckPolicyAuthSession(h, "Commit")

Commit(k, h) ==
    /\ KeyAt(k) = "daa"
    /\ UseSession(h, "Commit", FALSE)
    /\ CryptCommit
    /\ UNCHANGED objectVars

\* The caller's count chooses the commitment.
CanSign(k, h, c) ==
    KeyAt(k) = "daa" /\ CheckPolicyAuthSession(h, "Sign") /\ AcceptsCount(c)

Sign(k, h, c) ==
    /\ KeyAt(k) = "daa"
    /\ UseSession(h, "Sign", FALSE)
    /\ SignEcdaa(c)
    /\ UNCHANGED objectVars

-----------------------------------------------------------------------------

\* Mutant of TpmReset: the sessions survive.
TpmResetKeepsSessions ==
    /\ CommitReset
    /\ pcrs' = "approved"
    /\ pcrCounter' = 1
    /\ UNCHANGED <<sessions, nonceCount, walletSigned, consumed>>
    /\ objects' = [k \in ObjectHandle |-> "none"]
    /\ UNCHANGED persistent

\* Mutant of TpmReset: the counter starts again under the old commitNonce.
TpmResetKeepsCommitNonce ==
    /\ SessionReset
    /\ commitNonce < MaxResets
    /\ commitCounter' = 0
    /\ commitArray' = {}
    /\ UNCHANGED <<commitNonce, commitNvVars, signedWith, undone>>
    /\ objects' = [k \in ObjectHandle |-> "none"]
    /\ UNCHANGED persistent

\* Power off and on, then TPM2_Startup(CLEAR) without an orderly shutdown.
TpmReset ==
    /\ SessionReset
    /\ CommitReset
    /\ objects' = [k \in ObjectHandle |-> "none"]
    /\ UNCHANGED persistent

TpmInit ==
    /\ SessionsInit
    /\ CommitInit
    /\ objects = [k \in ObjectHandle |-> "none"]
    /\ persistent = "none"
=============================================================================

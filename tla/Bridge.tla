------------------------------- MODULE Bridge -------------------------------
(***************************************************************************)
(* The DAA bridge: the library between the application and the TPM.        *)
(*                                                                         *)
(* The application calls the bridge through JNI, one call at a time.  Each *)
(* call is a fixed sequence of TPM commands whose return codes nobody      *)
(* looks at (setup alone asks whether the EK was stored): after an error   *)
(* the next command runs all the same, on handles, tickets and counts that *)
(* may be left over or never written.  Here pc names the next TPM command, *)
(* and what a failed command leaves unwritten is any value.                *)
(*                                                                         *)
(* The keys, the sessions and the nonces of the TPM outlive a call; only   *)
(* the globals of daa_bridge.c say which of them are whose.                *)
(***************************************************************************)
EXTENDS Tpm, FiniteSets

CONSTANT
    Leftovers       \* bound: memory that no one wrote may hold what was there
                    \* before (TRUE), or only what is of no use (FALSE)

\* The TPM has a slot for a key and for a session.
ASSUME BridgeAssumption == Leftovers \in BOOLEAN /\ MaxObjects > 0 /\ MaxSessions > 0

VARIABLES
    pc,             \* "off", "idle", "hung", or the next TPM command of the call
    op,             \* the call that runs, or that ran last, where it matters
    daaKey,         \* daa_key_p.objectHandle
    joined,         \* how far the join ever came: daaTemplate is built from "key" on
    signSession,    \* signSession
    signNonce,      \* signNonce
    nonceSig,       \* nonce_sig: the nonce that was signed
    tickets,        \* auth_ticket, commit_ticket: the policies they are good for
    credential,     \* credential holds what the issuer sent
    loaded,         \* the key that the call loaded for its own use
    session,        \* the session that the call opened for TPM2_Commit
    count,          \* the count that TPM2_Commit answered with
    activated,      \* TPM2_ActivateCredential gave the credential key
    result,         \* history: whether the call made a signature ("signedBlind":
                    \* with a count that TPM2_Commit did not answer with)
    proper,         \* history: the caller did all that the call asks of it
    roomy           \* history: and the TPM had room for what the call loads

globalVars == <<daaKey, joined, signSession, signNonce, nonceSig, tickets, credential>>
localVars == <<loaded, session, count, activated>>
historyVars == <<result, proper, roomy>>
vars == <<tpmVars, pc, op, globalVars, localVars, historyVars>>

Unset == -1         \* no count yet
NoSignature == -1   \* bytes that are no signature of the wallet
NoNonce == -1       \* bytes that are the nonce of no session

Stage == {"nothing", "key", "challenged", "full"}
Call == {"none", "Initialize", "Enable", "Challenge", "Sign"}
EnableStep == {"createEk", "persist", "unpersist", "persistAgain", "flushEk", "requestNonce"}
ChallengeStep == {"loadIssuer", "verify", "flushIssuer", "activate"}
SignStep == {"startCommit", "commitCode", "authorizeCommit", "commit", "loadWallet",
             "policySigned", "policyPCR", "flushWallet", "authorizeSign", "sign"}
Step == EnableStep \cup ChallengeStep \cup {"activateFull", "flushDaa"} \cup SignStep

\* A session handle in a place that was meant for the handle of a key.
Misplaced(h) == MaxObjects + h
AnyHandle == ObjectHandle \cup { Misplaced(h) : h \in SessionHandle }

-----------------------------------------------------------------------------
(* Memory that a failed command does not write. *)

\* What an unwritten place may hold: any of the useful values, or the useless one.
Unwritten(useful, useless) == (IF Leftovers THEN useful ELSE {}) \cup {useless}

\* A local of the caller that is to receive a handle.
Received(h, handles) == IF h = NoHandle THEN Unwritten(handles, NoHandle) ELSE {h}

\* A global keeps what it was.
Kept(h, old) == IF h = NoHandle THEN old ELSE h

\* TPM2_FlushContext takes the handle of a key and that of a session.
FlushLoaded ==
    \/ loaded \in ObjectHandle \cup {NoHandle} /\ FlushKey(loaded)
    \/ \E h \in SessionHandle :
          loaded = Misplaced(h) /\ SessionCommand(Loaded(h), FlushSession(h))

-----------------------------------------------------------------------------
(* What a call needs. *)

\* The bounds leave the TPM a nonce and a commitment for one more call.
Budget == nonceCount < MaxNonces /\ commitCounter < MaxCommits

\* The session is new, the wallet signed its nonce, the machine is as approved.
SessionReady(sig) ==
    /\ Loaded(signSession)
    /\ sessions[signSession] = FreshSession(signNonce)
    /\ sig = signNonce
    /\ sig \in walletSigned
    /\ pcrs = "approved"

Begin(call, isProper, slots) ==
    /\ op' = call
    /\ result' = "none"
    /\ proper' = isProper
    /\ roomy' = (isProper /\ Cardinality(FreeSlots) >= slots /\ FreeSessions # {})

Goto(step) == pc' = step /\ UNCHANGED <<op, historyVars>>

\* The locals are gone when the call returns, but for the credential key, which
\* goes to the issuer.
LocalsGone ==
    /\ loaded' = NoHandle
    /\ session' = NoHandle
    /\ count' = Unset

NoLocals == LocalsGone /\ activated' = FALSE

-----------------------------------------------------------------------------
(* setup and requestNonce: initializeTPM, which is setup alone, and DAAEnable. *)

Enable ==
    /\ pc = "off"
    /\ nonceCount < MaxNonces
    /\ TpmReset
    /\ pc' = "createEk"
    /\ \E call \in {"Initialize", "Enable"} : Begin(call, FALSE, 0)
    /\ NoLocals
    /\ UNCHANGED globalVars

\* A second setup loses the connection of the first one without closing it, and
\* the TPM serves one connection at a time: TPM2_Startup is sent, and no answer
\* ever comes (module Simulator).
EnableAgain ==
    /\ pc = "idle"
    /\ pc' = "hung"
    /\ Begin("none", FALSE, 0)
    /\ NoLocals
    /\ UNCHANGED <<tpmVars, globalVars>>

CreateEk ==
    /\ pc = "createEk"
    /\ \E k \in ObjectHandle \cup {NoHandle} : LoadKey(k, "ek") /\ loaded' = Kept(k, loaded)
    /\ Goto("persist")
    /\ UNCHANGED <<globalVars, session, count, activated>>

\* The EK of an earlier run may be there: it is deleted and stored again.
Persist ==
    /\ pc = "persist"
    /\ MakePersistent(loaded)
    /\ Goto(IF CanMakePersistent(loaded) THEN "flushEk" ELSE "unpersist")
    /\ UNCHANGED <<globalVars, localVars>>

Unpersist ==
    /\ pc = "unpersist"
    /\ DeletePersistent
    /\ Goto("persistAgain")
    /\ UNCHANGED <<globalVars, localVars>>

\* Mutant of PersistAgain: the new EK is not stored.
PersistAgainForgets ==
    /\ pc = "persistAgain"
    /\ Goto("flushEk")
    /\ UNCHANGED <<tpmVars, globalVars, localVars>>

PersistAgain ==
    /\ pc = "persistAgain"
    /\ MakePersistent(loaded)
    /\ Goto("flushEk")
    /\ UNCHANGED <<globalVars, localVars>>

FlushEk ==
    /\ pc = "flushEk"
    /\ FlushKey(loaded)
    /\ Goto(IF op = "Enable" THEN "requestNonce" ELSE "idle")
    /\ NoLocals
    /\ UNCHANGED globalVars

\* The new session takes the place of the old one, which nobody flushes.  After
\* an error the caller's nonce is not written: it may be what an earlier call
\* left there, it may be empty, and anything else is the nonce of no session.
RequestNonce ==
    /\ pc = "requestNonce"
    /\ \E h \in SessionHandle \cup {NoHandle} :
          /\ OpenSession(h)
          /\ signSession' = Kept(h, signSession)
          /\ signNonce' \in IF h = NoHandle THEN Unwritten({signNonce, EmptyNonce}, NoNonce)
                                          ELSE {nonceCount'}
    /\ Goto("idle")
    /\ UNCHANGED <<daaKey, joined, nonceSig, tickets, credential, localVars>>

\* startDAASession.
StartSession ==
    /\ pc = "idle"
    /\ nonceCount < MaxNonces
    /\ pc' = "requestNonce"
    /\ Begin("none", FALSE, 0)
    /\ NoLocals
    /\ UNCHANGED <<tpmVars, globalVars>>

-----------------------------------------------------------------------------
(* onCreateAttestationKeyCommand: CreateEnableResponse. *)

CreateKey(sig) ==
    /\ pc = "idle"
    /\ pc' = "idle"
    /\ Begin("none", FALSE, 0)
    /\ NoLocals
    /\ nonceSig' = sig
    /\ joined' = IF joined = "nothing" THEN "key" ELSE joined
    /\ \E k \in ObjectHandle \cup {NoHandle} : LoadKey(k, "daa") /\ daaKey' = Kept(k, daaKey)
    /\ UNCHANGED <<signSession, signNonce, tickets, credential>>

-----------------------------------------------------------------------------
(* onIssuerChallenge: HandleIssuerChallenge. *)

Challenge ==
    /\ pc = "idle"
    /\ Budget
    /\ joined # "nothing"
    /\ joined' = IF joined = "key" THEN "challenged" ELSE joined
    /\ pc' = "loadIssuer"
    /\ Begin("Challenge", KeyAt(daaKey) = "daa" /\ SessionReady(nonceSig), 1)
    /\ NoLocals
    /\ UNCHANGED <<tpmVars, daaKey, signSession, signNonce, nonceSig, tickets, credential>>

LoadIssuer ==
    /\ pc = "loadIssuer"
    /\ \E k \in ObjectHandle \cup {NoHandle} :
          LoadKey(k, "issuer") /\ loaded' \in Received(k, AnyHandle)
    /\ Goto("verify")
    /\ UNCHANGED <<globalVars, session, count, activated>>

\* Both authorizations.  A ticket that is not written may be one of before.
Verify ==
    /\ pc = "verify"
    /\ tickets' \in IF KeyAt(loaded) = "issuer" THEN {Approved} ELSE Unwritten(SUBSET tickets, {})
    /\ Goto("flushIssuer")
    /\ UNCHANGED <<tpmVars, daaKey, joined, signSession, signNonce, nonceSig, credential, localVars>>

FlushIssuer ==
    /\ pc = "flushIssuer"
    /\ FlushLoaded
    /\ Goto("activate")
    /\ NoLocals
    /\ UNCHANGED globalVars

Activate ==
    /\ pc = "activate"
    /\ activated' = CanActivateCredential(daaKey)
    /\ Goto("startCommit")
    /\ UNCHANGED <<tpmVars, globalVars, loaded, session, count>>

-----------------------------------------------------------------------------
(* onIssuerFCRE: EnableDAACredential. *)

Fcre ==
    /\ pc = "idle"
    /\ joined \in {"challenged", "full"}
    /\ joined' = "full"
    /\ pc' = "activateFull"
    /\ Begin("none", FALSE, 0)
    /\ NoLocals
    /\ UNCHANGED <<tpmVars, daaKey, signSession, signNonce, nonceSig, tickets, credential>>

\* Without the credential key the credential is decrypted all the same, and is
\* no point of the curve.
ActivateFull ==
    /\ pc = "activateFull"
    /\ credential' = CanActivateCredential(daaKey)
    /\ Goto("flushDaa")
    /\ UNCHANGED <<tpmVars, daaKey, joined, signSession, signNonce, nonceSig, tickets, localVars>>

FlushDaa ==
    /\ pc = "flushDaa"
    /\ FlushKey(daaKey)
    /\ Goto("idle")
    /\ UNCHANGED <<globalVars, localVars>>

-----------------------------------------------------------------------------
(* execute_daa_sign: DAASign.  The key it creates is not flushed. *)

DaaSign(sig) ==
    /\ pc = "idle"
    /\ Budget
    /\ joined = "full"
    /\ pc' = "startCommit"
    /\ Begin("Sign", credential /\ tickets = Approved /\ SessionReady(sig), 2)
    /\ NoLocals
    /\ nonceSig' = sig
    /\ \E k \in ObjectHandle \cup {NoHandle} : LoadKey(k, "daa") /\ daaKey' = Kept(k, daaKey)
    /\ UNCHANGED <<joined, signSession, signNonce, tickets, credential>>

-----------------------------------------------------------------------------
(* The commit and the signature, in onIssuerChallenge and execute_daa_sign. *)

StartCommit ==
    /\ pc = "startCommit"
    /\ \E h \in SessionHandle \cup {NoHandle} :
          OpenSession(h) /\ session' \in Received(h, SessionHandle)
    /\ Goto("commitCode")
    /\ UNCHANGED <<globalVars, loaded, count, activated>>

CommitCode ==
    /\ pc = "commitCode"
    /\ SessionCommand(CanPolicyCommandCode(session, "Commit"), PolicyCommandCode(session, "Commit"))
    /\ Goto("authorizeCommit")
    /\ UNCHANGED <<globalVars, localVars>>

\* policyAuthorize with the ticket for the approved policy, if there is one.
Authorize(h, policy) ==
    LET can == policy \in tickets /\ CanPolicyAuthorize(h, policy, policy)
    IN  SessionCommand(can, can /\ PolicyAuthorize(h, policy, policy))

AuthorizeCommit ==
    /\ pc = "authorizeCommit"
    /\ Authorize(session, "commitCode")
    /\ Goto("commit")
    /\ UNCHANGED <<globalVars, localVars>>

\* Mutant of BridgeCommit: the count is one behind.
BridgeCommitCountsBack ==
    LET can == CanCommit(daaKey, session) /\ (op = "Sign" => credential) IN
    /\ pc = "commit"
    /\ \/ can /\ Commit(daaKey, session) /\ count' = (commitCounter - 1) % CountRange
       \/ ~ can /\ UNCHANGED <<tpmVars, count>>
    /\ Goto("loadWallet")
    /\ UNCHANGED <<globalVars, loaded, session, activated>>

\* The point is the randomized credential, or none in the challenge.
BridgeCommit ==
    LET can == CanCommit(daaKey, session) /\ (op = "Sign" => credential) IN
    /\ pc = "commit"
    /\ \/ can /\ Commit(daaKey, session) /\ count' = commitCounter % CountRange
       \/ ~ can /\ UNCHANGED <<tpmVars, count>>
    /\ Goto("loadWallet")
    /\ UNCHANGED <<globalVars, loaded, session, activated>>

LoadWallet ==
    /\ pc = "loadWallet"
    /\ \E k \in ObjectHandle \cup {NoHandle} :
          LoadKey(k, "wallet") /\ loaded' \in Received(k, AnyHandle)
    /\ Goto("policySigned")
    /\ UNCHANGED <<globalVars, session, count, activated>>

\* Mutant of BridgePolicySigned: the wallet's signature goes to the other session.
BridgePolicySignedElsewhere ==
    /\ pc = "policySigned"
    /\ SignedByWallet(loaded, session, signNonce, nonceSig)
    /\ Goto("policyPCR")
    /\ UNCHANGED <<globalVars, localVars>>

\* Mutant of BridgePolicySigned: after an error the other policy command is left out.
BridgePolicySignedGivesUp ==
    /\ pc = "policySigned"
    /\ SignedByWallet(loaded, signSession, signNonce, nonceSig)
    /\ Goto(IF KeyAt(loaded) = "wallet" /\ CanPolicySigned(signSession, signNonce, nonceSig)
            THEN "policyPCR" ELSE "flushWallet")
    /\ UNCHANGED <<globalVars, localVars>>

BridgePolicySigned ==
    /\ pc = "policySigned"
    /\ SignedByWallet(loaded, signSession, signNonce, nonceSig)
    /\ Goto("policyPCR")
    /\ UNCHANGED <<globalVars, localVars>>

BridgePolicyPCR ==
    /\ pc = "policyPCR"
    /\ SessionCommand(CanPolicyPCR(signSession), PolicyPCR(signSession))
    /\ Goto("flushWallet")
    /\ UNCHANGED <<globalVars, localVars>>

\* Mutant of FlushWallet: the wallet's key stays.
FlushWalletForgets ==
    /\ pc = "flushWallet"
    /\ Goto("authorizeSign")
    /\ loaded' = NoHandle
    /\ UNCHANGED <<tpmVars, globalVars, session, count, activated>>

FlushWallet ==
    /\ pc = "flushWallet"
    /\ FlushLoaded
    /\ Goto("authorizeSign")
    /\ loaded' = NoHandle
    /\ UNCHANGED <<globalVars, session, count, activated>>

AuthorizeSign ==
    /\ pc = "authorizeSign"
    /\ Authorize(signSession, "signedPcr")
    /\ Goto("sign")
    /\ UNCHANGED <<globalVars, localVars>>

\* A count that TPM2_Commit did not write is any count.
BridgeSign ==
    /\ pc = "sign"
    /\ \E c \in IF count = Unset THEN Unwritten(Count, Unset) ELSE {count} :
          \/ /\ Sign(daaKey, signSession, c)
             /\ result' = IF count = Unset THEN "signedBlind" ELSE "signed"
          \/ ~ CanSign(daaKey, signSession, c) /\ UNCHANGED tpmVars /\ result' = "failed"
    /\ pc' = "idle"
    /\ LocalsGone
    /\ UNCHANGED <<op, proper, roomy, globalVars, activated>>

-----------------------------------------------------------------------------
(* The world of the bridge. *)

\* The wallet signs the nonce that the application took from the bridge.
Wallet ==
    /\ pc = "idle"
    /\ signNonce \notin walletSigned \cup {NoNonce}
    /\ WalletSign(signNonce)
    /\ UNCHANGED <<pc, op, globalVars, localVars, historyVars, commitVars, objectVars>>

\* Other software on the machine extends a PCR, whenever the TPM answers.
Extends(selected) ==
    /\ pc \notin {"off", "hung"}
    /\ PCRExtend(selected)
    /\ proper' = FALSE
    /\ roomy' = FALSE
    /\ UNCHANGED <<pc, op, globalVars, localVars, result, commitVars, objectVars>>

\* The globals as the loader leaves them.
Forgotten ==
    /\ pc' = "off" /\ op' = "none"
    /\ daaKey' = NoHandle /\ signSession' = NoHandle
    /\ signNonce' = EmptyNonce /\ nonceSig' = NoSignature
    /\ tickets' = {} /\ joined' = "nothing" /\ credential' = FALSE
    /\ NoLocals
    /\ result' = "none" /\ proper' = FALSE /\ roomy' = FALSE

\* The application dies between two commands, and the TPM, which is a thread of
\* it, dies too; NV keeps what it has.  What the TPM had in memory is left as it
\* is here, for nothing reads it before the TPM2_Startup of the next DAAEnable.
Crash ==
    /\ pc # "off"
    /\ Forgotten
    /\ UNCHANGED tpmVars

Init ==
    /\ TpmInit
    /\ pc = "off" /\ op = "none"
    /\ daaKey = NoHandle /\ loaded = NoHandle
    /\ signSession = NoHandle /\ session = NoHandle
    /\ signNonce = EmptyNonce /\ nonceSig = NoSignature
    /\ tickets = {} /\ count = Unset
    /\ joined = "nothing" /\ credential = FALSE /\ activated = FALSE
    /\ result = "none" /\ proper = FALSE /\ roomy = FALSE

CallNext ==
    \/ Enable
    \/ EnableAgain
    \/ StartSession
    \/ \E sig \in (walletSigned \cap {signNonce}) \cup {nonceSig, NoSignature} : CreateKey(sig) \/ DaaSign(sig)
    \/ Challenge
    \/ Fcre

StepNext ==
    \/ CreateEk \/ Persist \/ Unpersist \/ PersistAgain \/ FlushEk \/ RequestNonce
    \/ LoadIssuer \/ Verify \/ FlushIssuer \/ Activate
    \/ ActivateFull \/ FlushDaa
    \/ StartCommit \/ CommitCode \/ AuthorizeCommit \/ BridgeCommit
    \/ LoadWallet \/ BridgePolicySigned \/ BridgePolicyPCR \/ FlushWallet
    \/ AuthorizeSign \/ BridgeSign

Next ==
    \/ CallNext
    \/ StepNext
    \/ Wallet
    \/ \E b \in BOOLEAN : Extends(b)
    \/ Crash

Spec == Init /\ [][Next]_vars

-----------------------------------------------------------------------------
(* Properties. *)

AtReturn == pc = "idle"
MadeSignature == AtReturn /\ result \in {"signed", "signedBlind"}

\* A challenge or a signature that was asked for as the API wants it (a key or a
\* credential, the issuer's tickets, a new session, the wallet's signature on
\* its nonce, the approved PCRs all along) succeeds if the TPM has the room, no
\* matter what the calls before left in the TPM and in the globals.
ProperCallSigns ==
    AtReturn /\ proper /\ roomy =>
        /\ result = "signed"
        /\ op = "Challenge" => activated

\* The signature of a call answers the commitment of that call, and none that was
\* answered before.  A call whose TPM2_Commit failed signs with what it finds on
\* the stack for the count (daa_bridge.c:495, :555): no count that is of use
\* without Leftovers, and with them any, so that the signature may answer a
\* commitment that an earlier call left open, but still none answered before.
SignUsesItsOwnCommitment ==
    MadeSignature =>
        LET last == signedWith[Len(signedWith)]
        IN  /\ \A i \in 1 .. Len(signedWith) - 1 : signedWith[i] # last
            /\ \/ result = "signed" /\ last = <<commitNonce, commitCounter - 1>>
               \/ result = "signedBlind" /\ Leftovers

\* What a failed call proved to its session is of no use to a later call: a call
\* that signs was itself given the wallet's signature on the session's nonce.
SignatureUsesCallersConsent ==
    MadeSignature =>
        /\ consumed[Len(consumed)].command = "Sign"
        /\ nonceSig \in {consumed[Len(consumed)].nonce, EmptyNonce}

\* The public keys a call loads for its own use are gone when it returns, also
\* when it fails halfway.
ExternalKeysDoNotLeak == AtReturn => \A k \in ObjectHandle : objects[k] \notin PublicKey

\* Setup heals whatever the death of the application left behind: the EK is in
\* NV, even when the application died after the old one was deleted, no key is
\* loaded, and after DAAEnable the new session is the only one.
EnableHeals ==
    AtReturn /\ op \in {"Initialize", "Enable"} =>
        /\ persistent = "ek"
        /\ \A k \in ObjectHandle : objects[k] = "none"
        /\ \A h \in SessionHandle :
              sessions[h] = IF h = signSession THEN FreshSession(signNonce) ELSE NoSession
        /\ op = "Enable" => Loaded(signSession) /\ signNonce = nonceCount
=============================================================================

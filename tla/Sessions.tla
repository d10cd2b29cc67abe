------------------------------ MODULE Sessions ------------------------------
(***************************************************************************)
(* The policy sessions of the TPM, as far as the attestation key needs     *)
(* them.                                                                   *)
(*                                                                         *)
(* The attestation key can only be used through a session whose digest is  *)
(* "PolicyAuthorize(issuer)".  The issuer approves two policies: one that  *)
(* lets TPM2_Commit run (PolicyCommandCode), and one for TPM2_Sign, which  *)
(* wants the wallet's signature on the nonce of this very session and the  *)
(* approved PCR values (PolicySigned, then PolicyPCR).                     *)
(*                                                                         *)
(* A digest is named by the policy it stands for.  Hashes do not collide,  *)
(* so every digest that no approved policy passes through is one value,    *)
(* "other", which only a reset of the policy data leaves.                  *)
(***************************************************************************)
EXTENDS Integers, Sequences

CONSTANTS
    MaxSessions,    \* MAX_LOADED_SESSIONS, 3 in the build
    MaxNonces,      \* bound: nonces drawn by the TPM
    MaxExtends      \* bound: PCR extends between two resets

ASSUME SessionsAssumption ==
    /\ MaxSessions \in Nat
    /\ MaxNonces \in Nat
    /\ MaxExtends \in Nat

VARIABLES
    sessions,       \* s_sessions behind gr.contextArray: the session of a handle
    nonceCount,     \* nonces drawn so far: a nonce is its number
    walletSigned,   \* the nonces the wallet has signed
    pcrs,           \* the PCRs the issuer selects: "approved" or "changed"
    pcrCounter,     \* gr.pcrCounter
    consumed        \* history: what each session that authorized a command was

sessionVars == <<sessions, nonceCount, walletSigned, pcrs, pcrCounter, consumed>>

SessionHandle == 0 .. (MaxSessions - 1)
Command == {"Commit", "Sign"}
Digest == {"zero", "signed", "signedPcr", "commitCode", "authorized", "other"}

\* A caller may leave the nonce out of TPM2_PolicySigned, and the signature is
\* then not about any session.
EmptyNonce == 0

Session == [ nonce       : Nat,             \* nonceTPM
             digest      : Digest,          \* u2.policyDigest
             commandCode : Command \cup {"none"},
             pcrCounter  : Nat ]            \* 0: no PCR was checked

\* An entry of gr.contextArray that is free.
NoSession == [ nonce |-> EmptyNonce, digest |-> "none", commandCode |-> "none", pcrCounter |-> 0 ]

\* A session whose policy data was just reset.
FreshSession(n) == [ nonce |-> n, digest |-> "zero", commandCode |-> "none", pcrCounter |-> 0 ]

Loaded(h) == h \in SessionHandle /\ sessions[h] # NoSession

\* A command names a session that is loaded; with another handle it fails.
LoadedSessions == { h \in SessionHandle : Loaded(h) }

FreeSessions == { h \in SessionHandle : ~ Loaded(h) }

SessionsTypeOK ==
    /\ sessions \in [SessionHandle -> Session \cup {NoSession}]
    /\ nonceCount \in Nat
    /\ walletSigned \subseteq Nat
    /\ pcrs \in {"approved", "changed"}
    /\ pcrCounter \in Nat
    /\ consumed \in Seq([nonce : Nat, command : Command, pcrs : {"approved", "changed"}])

-----------------------------------------------------------------------------
(* Policy digests. *)

\* The new digest of a policy command: the hash of the old one and the command.
Extend(d, step) ==
    CASE d = "zero"   /\ step = "PolicySigned"      -> "signed"
      [] d = "signed" /\ step = "PolicyPCR"         -> "signedPcr"
      [] d = "zero"   /\ step = "PolicyCommandCode" -> "commitCode"
      [] OTHER                                      -> "other"

\* The digests the issuer signs: aHash of TPM2_PolicyAuthorize.
Approved == {"signedPcr", "commitCode"}

\* No PCR changed since this session checked the PCRs.
PCRValueIsCurrent(s) == s.pcrCounter = 0 \/ s.pcrCounter = pcrCounter

-----------------------------------------------------------------------------
(* The guards of the commands: a command that fails one of them returns an   *)
(* error and changes nothing.                                                *)

CanStartAuthSession == FreeSessions # {} /\ nonceCount < MaxNonces

\* Mutant of CanPolicySigned: nonceTPM is not compared with that of the session.
CanPolicySignedAnyNonce(h, nonce, sig) ==
    Loaded(h) /\ sig = nonce /\ sig \in walletSigned

\* sig is the nonce that the signature was made for.
CanPolicySigned(h, nonce, sig) ==
    /\ Loaded(h)
    /\ nonce # EmptyNonce => nonce = sessions[h].nonce
    /\ sig = nonce
    /\ sig \in walletSigned

CanPolicyPCR(h) == Loaded(h) /\ PCRValueIsCurrent(sessions[h])

CanPolicyCommandCode(h, command) ==
    Loaded(h) /\ sessions[h].commandCode \in {"none", command}

\* ticket is the digest for which the TPM has verified the issuer's signature.
CanPolicyAuthorize(h, approvedPolicy, ticket) ==
    /\ Loaded(h)
    /\ sessions[h].digest = approvedPolicy
    /\ ticket = approvedPolicy
    /\ ticket \in Approved

\* Mutant of CheckPolicyAuthSession: policyDigest is not compared.
CheckPolicyAuthSessionAnyDigest(h, command) ==
    /\ Loaded(h)
    /\ PCRValueIsCurrent(sessions[h])
    /\ sessions[h].commandCode \in {"none", command}

\* What a policy session must show to authorize a command of the key.
CheckPolicyAuthSession(h, command) ==
    /\ Loaded(h)
    /\ PCRValueIsCurrent(sessions[h])
    /\ sessions[h].digest = "authorized"
    /\ sessions[h].commandCode \in {"none", command}

-----------------------------------------------------------------------------
(* The commands. *)

\* The lowest free handle is handed out, with a nonce nobody has seen.
StartAuthSession(h) ==
    /\ CanStartAuthSession
    /\ h \in FreeSessions /\ \A g \in FreeSessions : h <= g
    /\ nonceCount' = nonceCount + 1
    /\ sessions' = [sessions EXCEPT ![h] = FreshSession(nonceCount + 1)]
    /\ UNCHANGED <<walletSigned, pcrs, pcrCounter, consumed>>

PolicySigned(h, nonce, sig) ==
    /\ CanPolicySigned(h, nonce, sig)
    /\ sessions' = [sessions EXCEPT ![h].digest = Extend(@, "PolicySigned")]
    /\ UNCHANGED <<nonceCount, walletSigned, pcrs, pcrCounter, consumed>>

PolicyPCR(h) ==
    /\ CanPolicyPCR(h)
    /\ sessions' =
         [sessions EXCEPT
            ![h].digest = Extend(@, IF pcrs = "approved" THEN "PolicyPCR" ELSE "PolicyPCR of other values"),
            ![h].pcrCounter = pcrCounter]
    /\ UNCHANGED <<nonceCount, walletSigned, pcrs, pcrCounter, consumed>>

PolicyCommandCode(h, command) ==
    /\ CanPolicyCommandCode(h, command)
    /\ sessions' =
         [sessions EXCEPT
            ![h].digest = Extend(@, IF command = "Commit" THEN "PolicyCommandCode" ELSE "another code"),
            ![h].commandCode = command]
    /\ UNCHANGED <<nonceCount, walletSigned, pcrs, pcrCounter, consumed>>

\* The digest starts again from zero, and becomes the policy of the key.  The
\* command code and the PCR counter of the session stay.
PolicyAuthorize(h, approvedPolicy, ticket) ==
    /\ CanPolicyAuthorize(h, approvedPolicy, ticket)
    /\ sessions' = [sessions EXCEPT ![h].digest = "authorized"]
    /\ UNCHANGED <<nonceCount, walletSigned, pcrs, pcrCounter, consumed>>

\* Mutant of UseSession: a session that continues keeps its nonce.
UseSessionSameNonce(h, command, continueSession) ==
    /\ CheckPolicyAuthSession(h, command)
    /\ consumed' = Append(consumed, [nonce   |-> sessions[h].nonce,
                                     command |-> command,
                                     pcrs    |-> pcrs])
    /\ sessions' = [sessions EXCEPT ![h] =
                      IF continueSession THEN FreshSession(@.nonce) ELSE NoSession]
    /\ UNCHANGED <<nonceCount, walletSigned, pcrs, pcrCounter>>

\* A command that the session authorizes succeeds.  Its response flushes the
\* session, or rolls the nonce and resets the policy data when the caller set
\* continueSession.
UseSession(h, command, continueSession) ==
    /\ CheckPolicyAuthSession(h, command)
    /\ consumed' = Append(consumed, [nonce   |-> sessions[h].nonce,
                                     command |-> command,
                                     pcrs    |-> pcrs])
    /\ \/ /\ continueSession
          /\ nonceCount < MaxNonces
          /\ nonceCount' = nonceCount + 1
          /\ sessions' = [sessions EXCEPT ![h] = FreshSession(nonceCount + 1)]
       \/ /\ ~ continueSession
          /\ sessions' = [sessions EXCEPT ![h] = NoSession]
          /\ UNCHANGED nonceCount
    /\ UNCHANGED <<walletSigned, pcrs, pcrCounter>>

FlushSession(h) ==
    /\ Loaded(h)
    /\ sessions' = [sessions EXCEPT ![h] = NoSession]
    /\ UNCHANGED <<nonceCount, walletSigned, pcrs, pcrCounter, consumed>>

-----------------------------------------------------------------------------
(* What happens around the commands. *)

\* TPM2_PCR_Extend of a PCR outside the TCB group, one of the selected or not.
PCRExtend(selected) ==
    /\ pcrCounter <= MaxExtends
    /\ pcrCounter' = pcrCounter + 1
    /\ pcrs' = IF selected THEN "changed" ELSE pcrs
    /\ UNCHANGED <<sessions, nonceCount, walletSigned, consumed>>

\* The wallet signs what it is given: a nonce of the TPM, or an empty one.
WalletSign(n) ==
    /\ n \in 0 .. nonceCount
    /\ walletSigned' = walletSigned \cup {n}
    /\ UNCHANGED <<sessions, nonceCount, pcrs, pcrCounter, consumed>>

\* Mutant of SessionReset: writing the initial values does not count.
SessionResetUncounted ==
    /\ sessions' = [h \in SessionHandle |-> NoSession]
    /\ pcrs' = "approved"
    /\ pcrCounter' = 0
    /\ UNCHANGED <<nonceCount, walletSigned, consumed>>

\* TPM2_Startup(CLEAR): no session stays, and writing the initial values of the
\* PCRs counts as a change, so that the counter is never 0.
SessionReset ==
    /\ sessions' = [h \in SessionHandle |-> NoSession]
    /\ pcrs' = "approved"
    /\ pcrCounter' = 1
    /\ UNCHANGED <<nonceCount, walletSigned, consumed>>

SessionsInit ==
    /\ sessions = [h \in SessionHandle |-> NoSession]
    /\ nonceCount = 0
    /\ walletSigned = {}
    /\ pcrs = "approved"
    /\ pcrCounter = 1
    /\ consumed = <<>>

SessionsNext ==
    \/ \E h \in FreeSessions : StartAuthSession(h)
    \/ \E h \in LoadedSessions :
          \/ \E n \in 0 .. nonceCount, s \in 0 .. nonceCount : PolicySigned(h, n, s)
          \/ PolicyPCR(h)
          \/ \E c \in Command : PolicyCommandCode(h, c)
          \/ \E d \in Digest, t \in Approved : PolicyAuthorize(h, d, t)
          \/ \E c \in Command, b \in BOOLEAN : UseSession(h, c, b)
          \/ FlushSession(h)
    \/ \E b \in BOOLEAN : PCRExtend(b)
    \/ \E n \in 0 .. nonceCount : WalletSign(n)
    \/ SessionReset

SessionsSpec == SessionsInit /\ [][SessionsNext]_sessionVars

-----------------------------------------------------------------------------
(* Properties. *)

\* The wallet agreed to what the session with nonce n is used for.  A wallet
\* that ever signed the empty nonce has agreed to every session.
Consent(n) == n \in walletSigned \/ EmptyNonce \in walletSigned

\* No signature of the attestation key without the consent of the wallet.
SignNeedsConsent ==
    \A i \in 1 .. Len(consumed) :
        consumed[i].command = "Sign" => Consent(consumed[i].nonce)

\* No signature while the selected PCRs differ from what the issuer approved,
\* even when they change between TPM2_PolicyPCR and TPM2_Sign.
SignNeedsApprovedPcrs ==
    \A i \in 1 .. Len(consumed) :
        consumed[i].command = "Sign" => consumed[i].pcrs = "approved"

\* A nonce authorizes at most one command: the wallet's signature on it is
\* good for one signature of the attestation key.
NonceAuthorizesOnce ==
    \A i, j \in 1 .. Len(consumed) : consumed[i].nonce = consumed[j].nonce => i = j

\* The session has checked the approved PCRs, and would notice a change.
PcrsChecked(s) ==
    /\ s.pcrCounter # 0
    /\ s.pcrCounter = pcrCounter => pcrs = "approved"

\* What the digest of a session that has not been used yet proves about it.
DigestProves(s) ==
    /\ s.nonce \in 1 .. nonceCount
    /\ \A i \in 1 .. Len(consumed) : consumed[i].nonce # s.nonce
    /\ s.pcrCounter <= pcrCounter
    /\ s.digest \in {"signed", "signedPcr"} => Consent(s.nonce)
    /\ s.digest = "signedPcr" => PcrsChecked(s)
    /\ s.digest = "commitCode" => s.commandCode = "Commit"
    /\ s.digest = "authorized" /\ s.commandCode # "Commit" =>
          Consent(s.nonce) /\ PcrsChecked(s)

NoncesDiffer ==
    \A g, h \in SessionHandle :
        Loaded(g) /\ Loaded(h) /\ sessions[g].nonce = sessions[h].nonce => g = h

\* The digest of a loaded session is proof of what was shown to the session,
\* of its own nonce and of the PCRs as they are now or as it would notice.
\* What the properties above follow from by induction.
DigestIsProof ==
    /\ NoncesDiffer
    /\ \A h \in SessionHandle : Loaded(h) => DigestProves(sessions[h])

\* A session that has checked no PCR has the counter 0, which the TPM's own
\* counter therefore must never be.
PcrCounterPositive == pcrCounter > 0

\* Nonces are never drawn again.
ConsumedNoncesAreOld == \A i \in 1 .. Len(consumed) : consumed[i].nonce \in 1 .. nonceCount

SessionsInv ==
    /\ SessionsTypeOK
    /\ SignNeedsConsent
    /\ SignNeedsApprovedPcrs
    /\ NonceAuthorizesOnce
    /\ DigestIsProof
    /\ PcrCounterPositive
    /\ ConsumedNoncesAreOld

-----------------------------------------------------------------------------
(* The promise of the attestation key. *)

\* The nonces of the sessions through which TPM2_Sign went.
Issued ==
    { consumed[i].nonce : i \in { j \in 1 .. Len(consumed) : consumed[j].command = "Sign" } }

Promise == INSTANCE Attestation
    WITH Nonce <- 0 .. MaxNonces, Blank <- EmptyNonce,
         agreed <- walletSigned, machine <- pcrs, issued <- Issued

\* The TPM keeps the promise: each TPM2_Sign is one granted use, which the wallet
\* agreed to and which no other session can be granted, and the machine is as
\* approved when it is granted.
AttestationSpec == Promise!Spec
=============================================================================

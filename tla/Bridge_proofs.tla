---------------------------- MODULE Bridge_proofs ----------------------------
(***************************************************************************)
(* The bridge keeps to what its TPM was proved to promise, and what its own *)
(* calls promise holds whichever commands fail, for any number of slots,    *)
(* sessions, nonces and calls.                                              *)
(***************************************************************************)
EXTENDS Bridge, Tpm_proofs, FiniteSetTheorems

-----------------------------------------------------------------------------
(* The inductive invariant.                                                *)

MemoryFits ==
    /\ objects \in [ObjectHandle -> Slot]
    /\ persistent \in {"none", "ek"}
    /\ count \in Count \cup {Unset}

\* The steps to the commitment, and those from the wallet's key to the signature.
CommittingStep == {"startCommit", "commitCode", "authorizeCommit", "commit"}
SigningStep == {"policySigned", "policyPCR", "flushWallet", "authorizeSign", "sign"}

NoSessions == \A h \in SessionHandle : sessions[h] = NoSession
NoKeys == \A k \in ObjectHandle : objects[k] = "none"
OnlyEk == /\ loaded \in ObjectHandle
          /\ \A k \in ObjectHandle : objects[k] = IF k = loaded THEN "ek" ELSE "none"

\* A setup finds the TPM empty and has one key in it.
SetupFits ==
    /\ pc = "off" => op = "none" /\ signSession = NoHandle
    /\ pc \in {"createEk", "persist", "unpersist", "persistAgain", "flushEk"} =>
          op \in {"Initialize", "Enable"} /\ NoSessions /\ signSession = NoHandle
    /\ pc = "createEk" => NoKeys
    /\ pc \in {"persist", "unpersist", "persistAgain", "flushEk"} => OnlyEk
    /\ pc \notin {"off", "createEk", "persist", "unpersist", "persistAgain"} => persistent = "ek"
    /\ pc = "requestNonce" /\ op # "none" => op = "Enable" /\ NoSessions /\ NoKeys
    /\ op \in {"Initialize", "Enable"} => pc \in EnableStep \cup {"idle"}
    /\ EnableHeals

\* The key that a call loads for its own use is the only public one.
PublicKeysFit ==
    pc # "off" =>
        \A k \in ObjectHandle : objects[k] \in PublicKey =>
            /\ pc \in {"verify", "flushIssuer", "policySigned", "policyPCR", "flushWallet"}
            /\ loaded = k

\* The wallet's signature of this call is on the nonce of the session, or empty.
OwnConsent(s) == nonceSig \in {s.nonce, EmptyNonce}

\* What the sessions have met: what a call left there is of no use to the next.
NoPcrsYet ==
    \A h \in SessionHandle :
        Loaded(h) /\ sessions[h].digest \in {"zero", "signed", "commitCode"} =>
            sessions[h].pcrCounter = 0

SignedFits ==
    pc # "off" =>
        \A h \in SessionHandle : Loaded(h) /\ sessions[h].digest = "signed" =>
            pc = "policyPCR" /\ h = signSession /\ OwnConsent(sessions[h])

\* A session that TPM2_Sign takes, now or after TPM2_PolicyAuthorize.
GoodForSign(s) ==
    /\ \/ s.digest = "signedPcr"
       \/ s.digest = "authorized" /\ s.commandCode # "Commit"
    /\ PCRValueIsCurrent(s)

ProofFits ==
    /\ pc \in {"flushWallet", "authorizeSign", "sign"}
    /\ Loaded(signSession) /\ GoodForSign(sessions[signSession])
    => OwnConsent(sessions[signSession])

ResultFits == pc # "idle" => result = "none"

ConsentFits ==
    NoPcrsYet /\ SignedFits /\ ProofFits /\ ResultFits /\ SignatureUsesCallersConsent

\* A signature answers the commitment of its call, if it was not made with what
\* the stack held.
AnswersOwn ==
    MadeSignature =>
        \/ result = "signed" /\ signedWith[Len(signedWith)] = <<commitNonce, commitCounter - 1>>
        \/ result = "signedBlind" /\ Leftovers

\* The count that a call has is that of the commitment it made, and no one has
\* used it.
CommitmentFits ==
    /\ count # Unset =>
          /\ pc \in {"loadWallet"} \cup SigningStep
          /\ commitCounter > 0 /\ count = (commitCounter - 1) % CountRange
          /\ ~ Signed(commitCounter - 1)
    /\ AnswersOwn

\* The policy session of a proper call before each of its steps ...
SignDigest ==
    CASE pc \in {"flushWallet", "authorizeSign"} -> "signedPcr"
      [] pc = "sign"      -> "authorized"
      [] pc = "policyPCR" -> "signed"
      [] OTHER            -> "zero"

ReadyToSign ==
    /\ signSession \in SessionHandle
    /\ sessions[signSession] =
          [nonce |-> signNonce, digest |-> SignDigest, commandCode |-> "none",
           pcrCounter |-> IF pc \in {"flushWallet", "authorizeSign", "sign"} THEN pcrCounter ELSE 0]

\* ... and the session that it opens for the commitment.
ReadyToCommit ==
    /\ session \in SessionHandle \ {signSession} /\ Loaded(session)
    /\ sessions[session].pcrCounter = 0
    /\ sessions[session].digest = CASE pc = "commitCode"      -> "zero"
                                    [] pc = "authorizeCommit" -> "commitCode"
                                    [] OTHER                  -> "authorized"
    /\ sessions[session].commandCode = IF pc = "commitCode" THEN "none" ELSE "Commit"

\* A proper call with room has what each of its steps needs: what it was called
\* with, the room, and the answers of the steps before.
ReadyCall ==
    /\ KeyAt(daaKey) = "daa" /\ pcrs = "approved"
    /\ nonceSig = signNonce /\ nonceSig \in walletSigned
    /\ op = "Sign" => credential
    /\ ReadyToSign

RoomFits ==
    /\ pc \in {"loadIssuer", "activate"} \cup CommittingStep \cup {"loadWallet"} => FreeSlots # {}
    /\ pc \in ChallengeStep \cup {"startCommit"} => FreeSessions # {}

AnswersFit ==
    /\ pc \in {"verify", "flushIssuer"} => KeyAt(loaded) = "issuer"
    /\ pc \in {"policySigned", "policyPCR", "flushWallet"} => KeyAt(loaded) = "wallet"
    /\ pc \in {"flushIssuer", "activate"} \cup SignStep => tickets = Approved
    /\ pc \in SignStep /\ op = "Challenge" => activated
    /\ pc \in CommittingStep \ {"startCommit"} => ReadyToCommit
    /\ pc \in {"loadWallet"} \cup SigningStep => count # Unset

ProperFits ==
    proper /\ roomy =>
        /\ op \in {"Challenge", "Sign"}
        /\ pc \in ChallengeStep \cup SignStep \cup {"idle"}
        /\ pc # "idle" => ReadyCall
        /\ RoomFits
        /\ AnswersFit
        /\ ProperCallSigns

BridgeInv ==
    MemoryFits /\ SetupFits /\ PublicKeysFit /\ ConsentFits /\ CommitmentFits /\ ProperFits

-----------------------------------------------------------------------------
(* Every step of the bridge is one of its TPM.                             *)

\* The commands about keys leave sessions and commitments alone.
LEMMA KeyCommand ==
    /\ \A k, key : LoadKey(k, key) => UNCHANGED <<commitVars, sessionVars>>
    /\ \A k : FlushKey(k) => UNCHANGED <<commitVars, sessionVars>>
    /\ \A k : MakePersistent(k) => UNCHANGED <<commitVars, sessionVars>>
    /\ DeletePersistent => UNCHANGED <<commitVars, sessionVars>>
  BY DEF LoadKey, FlushKey, MakePersistent, DeletePersistent, ObjectCommand, tpmVars

\* A session that is opened, or was not.
LEMMA OpenSessionStep ==
    ASSUME NEW h, OpenSession(h)
    PROVE  /\ UNCHANGED <<commitVars, objectVars>>
           /\ UNCHANGED sessionVars \/ (h \in SessionHandle /\ StartAuthSession(h))
  BY DEF OpenSession, StartAuthSession, FreeSessions, tpmVars

\* The key or the session that goes when a call flushes what it loaded.
LEMMA FlushLoadedStep ==
    ASSUME FlushLoaded
    PROVE  /\ UNCHANGED commitVars
           /\ UNCHANGED sessionVars \/ \E h \in SessionHandle : FlushSession(h)
  BY KeyCommand DEF FlushLoaded, SessionCommand, tpmVars

\* A nonce that TPM2_PolicySigned accepts was drawn.
LEMMA SignedNonce ==
    ASSUME SessionsInv, NEW h, NEW nonce, NEW sig, CanPolicySigned(h, nonce, sig)
    PROVE  h \in SessionHandle /\ nonce \in 0 .. nonceCount /\ sig = nonce
  BY DEF CanPolicySigned, Loaded, EmptyNonce, SessionsInv, SessionsTypeOK, DigestIsProof, DigestProves

\* A count that was never written is not accepted.
LEMMA UnsetIsRefused ==
    ASSUME CommitInv
    PROVE  ~ AcceptsCount(Unset)
  <1>1. /\ IndexSize \in Nat /\ IndexSize > 0 /\ CountRange \in Nat /\ CountRange > 0
        /\ commitCounter \in Int
    BY CommitAssumption DEF CommitInv, CommitTypeOK
  <1>2. TurnOf(Unset) \in Int
    BY <1>1 DEF TurnOf
  <1>3. TurnOf(Unset) % CountRange \in 0 .. (CountRange - 1)
    BY <1>1, <1>2, DivMod
  <1>4. (TurnOf(Unset) % CountRange) \div IndexSize >= 0
    <2> DEFINE x == TurnOf(Unset) % CountRange
    <2>1. x \in Int /\ x >= 0
      BY <1>3
    <2>2. x \div IndexSize \in Int /\ x % IndexSize \in 0 .. (IndexSize - 1)
          /\ x = (x \div IndexSize) * IndexSize + (x % IndexSize)
      BY <1>1, <2>1, DivMod
    <2> HIDE DEF x
    <2>3. ~ (x \div IndexSize <= -1)
      <3>1. ASSUME x \div IndexSize < 0
            PROVE  (x \div IndexSize) * IndexSize + IndexSize <= 0 * IndexSize
        BY <1>1, <2>2, <3>1, MultiplesApart
      <3> QED
        BY <1>1, <2>1, <2>2, <3>1
    <2> QED
      BY <2>2, <2>3 DEF x
  <1>5. Unset \div IndexSize = -1
    <2>1. Unset = (-1) * IndexSize + (IndexSize - 1)
      BY <1>1 DEF Unset
    <2> QED
      BY <1>1, <2>1, DivModOf DEF Unset
  <1> QED
    BY <1>4, <1>5 DEF AcceptsCount

\* A command that a session allows is a step of the sessions.
LEMMA SessionSteps ==
    ASSUME NEW h
    PROVE  /\ StartAuthSession(h) => SessionsNext
           /\ \A n \in 0 .. nonceCount, s \in 0 .. nonceCount : PolicySigned(h, n, s) => SessionsNext
           /\ PolicyPCR(h) => SessionsNext
           /\ \A c \in Command : PolicyCommandCode(h, c) => SessionsNext
           /\ \A d \in Digest, t \in Approved : PolicyAuthorize(h, d, t) => SessionsNext
           /\ \A c \in Command, b \in BOOLEAN : UseSession(h, c, b) => SessionsNext
           /\ FlushSession(h) => SessionsNext
  <1>1. Loaded(h) => h \in LoadedSessions
    BY DEF LoadedSessions, Loaded
  <1>2. StartAuthSession(h) => SessionsNext
    BY DEF StartAuthSession, SessionsNext
  <1>3. /\ \A n \in 0 .. nonceCount, s \in 0 .. nonceCount : PolicySigned(h, n, s) => SessionsNext
        /\ PolicyPCR(h) => SessionsNext
        /\ FlushSession(h) => SessionsNext
    BY <1>1 DEF PolicySigned, CanPolicySigned, PolicyPCR, CanPolicyPCR, FlushSession, SessionsNext
  <1>4. ASSUME NEW c \in Command, PolicyCommandCode(h, c) PROVE SessionsNext
    <2>1. Loaded(h)
      BY <1>4 DEF PolicyCommandCode, CanPolicyCommandCode
    <2> QED
      BY <1>1, <1>4, <2>1 DEF SessionsNext
  <1>5. ASSUME NEW d \in Digest, NEW t \in Approved, PolicyAuthorize(h, d, t) PROVE SessionsNext
    <2>1. Loaded(h)
      BY <1>5 DEF PolicyAuthorize, CanPolicyAuthorize
    <2> QED
      BY <1>1, <1>5, <2>1 DEF SessionsNext
  <1>6. ASSUME NEW c \in Command, NEW b \in BOOLEAN, UseSession(h, c, b) PROVE SessionsNext
    <2>1. Loaded(h)
      BY <1>6 DEF UseSession, CheckPolicyAuthSession
    <2> QED
      BY <1>1, <1>6, <2>1 DEF SessionsNext
  <1> QED
    BY <1>2, <1>3, <1>4, <1>5, <1>6

LEMMA TpmStep ==
    ASSUME SessionsInv, CommitInv, count \in Count \cup {Unset}, [Next]_vars
    PROVE  [SessionsNext]_sessionVars /\ [CommitNext]_commitVars
  <1>1. CASE CallNext
    <2>1. CASE Enable
      BY <2>1 DEF Enable, TpmReset, SessionsNext, CommitNext
    <2>2. CASE EnableAgain \/ StartSession \/ Challenge \/ Fcre
      BY <2>2 DEF EnableAgain, StartSession, Challenge, Fcre, tpmVars
    <2>3. ASSUME NEW sig, CreateKey(sig) \/ DaaSign(sig)
          PROVE  UNCHANGED <<commitVars, sessionVars>>
      BY <2>3, KeyCommand DEF CreateKey, DaaSign
    <2> QED
      BY <1>1, <2>1, <2>2, <2>3 DEF CallNext
  <1>2. CASE StepNext
    <2>1. CASE \/ CreateEk \/ Persist \/ Unpersist \/ PersistAgain \/ FlushEk \/ LoadIssuer
               \/ LoadWallet \/ FlushDaa
      BY <2>1, KeyCommand
      DEF CreateEk, Persist, Unpersist, PersistAgain, FlushEk, LoadIssuer, LoadWallet, FlushDaa
    <2>2. CASE Verify \/ Activate \/ ActivateFull
      BY <2>2 DEF Verify, Activate, ActivateFull, tpmVars
    <2>3. CASE RequestNonce \/ StartCommit
      BY <2>3, OpenSessionStep, SessionSteps DEF RequestNonce, StartCommit
    <2>4. CASE FlushIssuer \/ FlushWallet
      BY <2>4, FlushLoadedStep, SessionSteps DEF FlushIssuer, FlushWallet
    <2>5. CASE CommitCode
      BY <2>5, SessionSteps
      DEF CommitCode, SessionCommand, CanPolicyCommandCode, PolicyCommandCode, Loaded, Command, tpmVars
    <2>6. CASE AuthorizeCommit \/ AuthorizeSign
      <3>1. ASSUME NEW h, NEW policy, Authorize(h, policy)
            PROVE  /\ UNCHANGED commitVars
                   /\ \/ UNCHANGED sessionVars
                      \/ policy \in Digest \cap Approved /\ PolicyAuthorize(h, policy, policy)
        BY <3>1 DEF Authorize, SessionCommand, PolicyAuthorize, CanPolicyAuthorize, Loaded, Approved,
                    Digest, tpmVars
      <3> QED
        BY <2>6, <3>1, SessionSteps DEF AuthorizeCommit, AuthorizeSign
    <2>7. CASE BridgeCommit
      <3>1. \/ UNCHANGED tpmVars
            \/ session \in SessionHandle /\ UseSession(session, "Commit", FALSE) /\ CryptCommit
        BY <2>7 DEF BridgeCommit, Commit, UseSession, CheckPolicyAuthSession, Loaded
      <3> QED
        BY <3>1, SessionSteps DEF CommitNext, Command, tpmVars
    <2>8. CASE BridgePolicySigned
      <3>1. /\ UNCHANGED commitVars
            /\ \/ UNCHANGED sessionVars
               \/ /\ CanPolicySigned(signSession, signNonce, nonceSig)
                  /\ PolicySigned(signSession, signNonce, nonceSig)
        BY <2>8 DEF BridgePolicySigned, SignedByWallet, SessionCommand, tpmVars
      <3> QED
        BY <3>1, SignedNonce, SessionSteps
    <2>9. CASE BridgePolicyPCR
      BY <2>9, SessionSteps DEF BridgePolicyPCR, SessionCommand, tpmVars
    <2>10. CASE BridgeSign
      <3>1. PICK c \in Count \cup {Unset} :
                \/ UNCHANGED tpmVars
                \/ signSession \in SessionHandle /\ UseSession(signSession, "Sign", FALSE) /\ SignEcdaa(c)
        BY <2>10 DEF BridgeSign, Unwritten, Sign, UseSession, CheckPolicyAuthSession, Loaded
      <3>2. SignEcdaa(c) => c \in Count
        BY UnsetIsRefused DEF SignEcdaa
      <3> QED
        BY <3>1, <3>2, SessionSteps DEF CommitNext, Command, tpmVars
    <2> QED
      BY <1>2, <2>1, <2>2, <2>3, <2>4, <2>5, <2>6, <2>7, <2>8, <2>9, <2>10 DEF StepNext
  <1>3. CASE Wallet
    BY <1>3 DEF Wallet, WalletSign, SessionsNext
  <1>4. CASE \E b \in BOOLEAN : Extends(b)
    BY <1>4 DEF Extends, SessionsNext
  <1>5. CASE Crash \/ UNCHANGED vars
    BY <1>5 DEF Crash, vars, tpmVars
  <1> QED
    BY <1>1, <1>2, <1>3, <1>4, <1>5 DEF Next

-----------------------------------------------------------------------------
(* Keys: what is in the slots and in NV.                                   *)

LEMMA Handles ==
    /\ MaxObjects \in Nat /\ MaxObjects > 0 /\ MaxSessions \in Nat /\ MaxSessions > 0
    /\ 0 \in ObjectHandle /\ 0 \in SessionHandle
    /\ NoHandle \notin ObjectHandle /\ NoHandle \notin SessionHandle
    /\ \A h \in SessionHandle : Misplaced(h) \notin ObjectHandle /\ Misplaced(h) # NoHandle
  BY BridgeAssumption, TpmAssumption, SessionsAssumption
  DEF ObjectHandle, SessionHandle, NoHandle, Misplaced

\* A key that is loaded takes a free slot, or there was none.
LEMMA LoadKeyStep ==
    ASSUME NEW k \in ObjectHandle \cup {NoHandle}, NEW key, LoadKey(k, key)
    PROVE  /\ persistent' = persistent
           /\ \/ /\ k \in ObjectHandle /\ objects[k] = "none"
                 /\ objects' = [objects EXCEPT ![k] = key]
              \/ k = NoHandle /\ FreeSlots = {} /\ objects' = objects
  BY DEF LoadKey, FreeSlots

\* A key that is flushed leaves its slot empty.
LEMMA FlushKeyStep ==
    ASSUME NEW k, FlushKey(k)
    PROVE  /\ persistent' = persistent
           /\ \/ k \in ObjectHandle /\ objects' = [objects EXCEPT ![k] = "none"]
              \/ objects' = objects /\ KeyAt(k) = "none"
  BY DEF FlushKey, ObjectCommand, KeyAt, tpmVars, objectVars

LEMMA FlushLoadedKey ==
    ASSUME FlushLoaded
    PROVE  /\ persistent' = persistent
           /\ \/ loaded \in ObjectHandle /\ objects' = [objects EXCEPT ![loaded] = "none"]
              \/ objects' = objects /\ KeyAt(loaded) = "none"
  <1>1. CASE FlushKey(loaded)
    BY <1>1, FlushKeyStep
  <1>2. CASE \E h \in SessionHandle : loaded = Misplaced(h) /\ SessionCommand(Loaded(h), FlushSession(h))
    BY <1>2, Handles DEF SessionCommand, KeyAt, tpmVars, objectVars
  <1> QED
    BY <1>1, <1>2 DEF FlushLoaded

\* The keys that a step may change, and how.
LEMMA KeysStep ==
    ASSUME objects \in [ObjectHandle -> Slot], [Next]_vars
    PROVE  \/ objects' = objects
           \/ \E k \in ObjectHandle, key \in Slot : objects' = [objects EXCEPT ![k] = key]
           \/ objects' = [k \in ObjectHandle |-> "none"]
  <1> USE DEF Slot, PrimaryKey, PublicKey
  <1>1. CASE CallNext
    <2>1. CASE Enable
      BY <2>1 DEF Enable, TpmReset
    <2>2. CASE EnableAgain \/ StartSession \/ Challenge \/ Fcre
      BY <2>2 DEF EnableAgain, StartSession, Challenge, Fcre, tpmVars, objectVars
    <2>3. ASSUME NEW sig, CreateKey(sig) \/ DaaSign(sig)
          PROVE  \/ objects' = objects
                 \/ \E k \in ObjectHandle, key \in Slot : objects' = [objects EXCEPT ![k] = key]
      BY <2>3, LoadKeyStep DEF CreateKey, DaaSign
    <2> QED
      BY <1>1, <2>1, <2>2, <2>3 DEF CallNext
  <1>2. CASE StepNext
    <2>1. CASE CreateEk \/ LoadIssuer \/ LoadWallet
      BY <2>1, LoadKeyStep DEF CreateEk, LoadIssuer, LoadWallet
    <2>2. CASE Persist \/ Unpersist \/ PersistAgain
      BY <2>2 DEF Persist, Unpersist, PersistAgain, MakePersistent, DeletePersistent, ObjectCommand,
                  tpmVars, objectVars
    <2>3. CASE FlushEk \/ FlushDaa \/ FlushIssuer \/ FlushWallet
      BY <2>3, FlushKeyStep, FlushLoadedKey DEF FlushEk, FlushDaa, FlushIssuer, FlushWallet
    <2>4. CASE RequestNonce \/ StartCommit
      BY <2>4, OpenSessionStep DEF RequestNonce, StartCommit, objectVars
    <2>5. CASE \/ Verify \/ Activate \/ ActivateFull \/ CommitCode \/ AuthorizeCommit \/ AuthorizeSign
               \/ BridgePolicySigned \/ BridgePolicyPCR
      BY <2>5 DEF Verify, Activate, ActivateFull, CommitCode, AuthorizeCommit, AuthorizeSign, Authorize,
                  BridgePolicySigned, SignedByWallet, BridgePolicyPCR, SessionCommand, tpmVars, objectVars
    <2>6. CASE BridgeCommit \/ BridgeSign
      BY <2>6 DEF BridgeCommit, Commit, BridgeSign, Sign, tpmVars, objectVars
    <2> QED
      BY <1>2, <2>1, <2>2, <2>3, <2>4, <2>5, <2>6 DEF StepNext
  <1>3. CASE Wallet \/ (\E b \in BOOLEAN : Extends(b)) \/ Crash \/ UNCHANGED vars
    BY <1>3 DEF Wallet, Extends, Crash, vars, tpmVars, objectVars
  <1> QED
    BY <1>1, <1>2, <1>3 DEF Next

\* Only a setup stores a key in NV, and it stores the EK.
LEMMA PersistentStep ==
    ASSUME SetupFits, persistent \in {"none", "ek"}, [Next]_vars
    PROVE  /\ persistent' \in {"none", "ek"}
           /\ pc \notin {"persist", "unpersist", "persistAgain"} => persistent' = persistent
  <1>1. CASE CallNext
    <2>1. CASE EnableAgain \/ StartSession \/ Challenge \/ Fcre \/ Enable
      BY <2>1 DEF EnableAgain, StartSession, Challenge, Fcre, tpmVars, objectVars, Enable, TpmReset
    <2>2. ASSUME NEW sig, CreateKey(sig) \/ DaaSign(sig)
          PROVE  persistent' = persistent
      BY <2>2, LoadKeyStep DEF CreateKey, DaaSign
    <2> QED
      BY <1>1, <2>1, <2>2 DEF CallNext
  <1>2. CASE StepNext
    <2>1. CASE CreateEk \/ LoadIssuer \/ LoadWallet
      BY <2>1, LoadKeyStep DEF CreateEk, LoadIssuer, LoadWallet
    <2>2. CASE Persist \/ Unpersist \/ PersistAgain
      <3>1. OnlyEk /\ pc \in {"persist", "unpersist", "persistAgain"}
        BY <2>2 DEF SetupFits, Persist, Unpersist, PersistAgain
      <3> QED
        BY <2>2, <3>1 DEF Persist, Unpersist, PersistAgain, MakePersistent, DeletePersistent,
                  ObjectCommand, OnlyEk, tpmVars, objectVars
    <2>3. CASE FlushEk \/ FlushDaa \/ FlushIssuer \/ FlushWallet
      BY <2>3, FlushKeyStep, FlushLoadedKey DEF FlushEk, FlushDaa, FlushIssuer, FlushWallet
    <2>4. CASE RequestNonce \/ StartCommit
      BY <2>4, OpenSessionStep DEF RequestNonce, StartCommit, objectVars
    <2>5. CASE \/ Verify \/ Activate \/ ActivateFull \/ CommitCode \/ AuthorizeCommit \/ AuthorizeSign
               \/ BridgePolicySigned \/ BridgePolicyPCR
      BY <2>5 DEF Verify, Activate, ActivateFull, CommitCode, AuthorizeCommit, AuthorizeSign, Authorize,
                  BridgePolicySigned, SignedByWallet, BridgePolicyPCR, SessionCommand, tpmVars, objectVars
    <2>6. CASE BridgeCommit \/ BridgeSign
      BY <2>6 DEF BridgeCommit, Commit, BridgeSign, Sign, tpmVars, objectVars
    <2> QED
      BY <1>2, <2>1, <2>2, <2>3, <2>4, <2>5, <2>6 DEF StepNext
  <1>3. CASE Wallet \/ (\E b \in BOOLEAN : Extends(b)) \/ Crash \/ UNCHANGED vars
    BY <1>3 DEF Wallet, Extends, Crash, vars, tpmVars, objectVars
  <1> QED
    BY <1>1, <1>2, <1>3 DEF Next

\* A count is written by TPM2_Commit alone, and forgotten at the end of a call.
LEMMA CountStep ==
    ASSUME [Next]_vars
    PROVE  \/ count' = count \/ count' = Unset
           \/ BridgeCommit /\ Commit(daaKey, session) /\ count' = commitCounter % CountRange
  <1>1. CASE CallNext
    BY <1>1 DEF CallNext, Enable, EnableAgain, StartSession, CreateKey, DaaSign, Challenge, Fcre,
                NoLocals, LocalsGone
  <1>2. CASE StepNext
    BY <1>2 DEF StepNext, CreateEk, Persist, Unpersist, PersistAgain, FlushEk, RequestNonce, LoadIssuer,
                Verify, FlushIssuer, Activate, ActivateFull, FlushDaa, StartCommit, CommitCode,
                AuthorizeCommit, BridgeCommit, LoadWallet, BridgePolicySigned, BridgePolicyPCR,
                FlushWallet, AuthorizeSign, BridgeSign, NoLocals, LocalsGone, localVars
  <1>3. CASE Wallet \/ (\E b \in BOOLEAN : Extends(b)) \/ Crash \/ UNCHANGED vars
    BY <1>3 DEF Wallet, Extends, Crash, Forgotten, NoLocals, LocalsGone, vars, localVars
  <1> QED
    BY <1>1, <1>2, <1>3 DEF Next

LEMMA MemoryStep ==
    ASSUME CommitInv, MemoryFits, SetupFits, [Next]_vars
    PROVE  MemoryFits'
  <1>1. objects' \in [ObjectHandle -> Slot]
    BY KeysStep DEF MemoryFits, Slot
  <1>2. commitCounter % CountRange \in Count
    BY DivMod, CommitAssumption DEF CommitInv, CommitTypeOK, Count
  <1>3. count' \in Count \cup {Unset}
    BY <1>2, CountStep DEF MemoryFits
  <1> QED
    BY <1>1, <1>3, PersistentStep DEF MemoryFits

\* A step of any other call: it leaves NV alone and ends in no step of a setup.
LEMMA OtherCallSetup ==
    ASSUME SetupFits, persistent' = persistent,
           pc \notin {"off", "createEk", "persist", "unpersist", "persistAgain"},
           pc' \notin {"off", "createEk", "persist", "unpersist", "persistAgain", "flushEk"},
           op' \notin {"Initialize", "Enable"},
           pc' = "requestNonce" => op' = "none"
    PROVE  SetupFits'
  BY DEF SetupFits, EnableHeals, AtReturn

LEMMA SetupStep ==
    ASSUME SessionsInv, MemoryFits, SetupFits, [Next]_vars
    PROVE  SetupFits'
  <1>1. /\ objects \in [ObjectHandle -> Slot] /\ persistent \in {"none", "ek"}
        /\ sessions \in [SessionHandle -> Session \cup {NoSession}]
    BY DEF MemoryFits, SessionsInv, SessionsTypeOK
  <1>2. CASE CallNext
    <2>1. CASE Enable
      <3>1. /\ pc' = "createEk" /\ op' \in {"Initialize", "Enable"}
            /\ objects' = [k \in ObjectHandle |-> "none"]
            /\ sessions' = [h \in SessionHandle |-> NoSession]
            /\ signSession' = NoHandle
        BY <2>1 DEF Enable, Begin, TpmReset, SessionReset, SetupFits, globalVars
      <3> QED
        BY <3>1 DEF SetupFits, NoSessions, NoKeys, EnableHeals, AtReturn, EnableStep
    <2>2. CASE EnableAgain \/ StartSession \/ Challenge \/ Fcre
      <3>1. persistent' = persistent
        BY <2>2 DEF EnableAgain, StartSession, Challenge, Fcre, tpmVars, objectVars
      <3> QED
        BY <2>2, <3>1, OtherCallSetup DEF EnableAgain, StartSession, Challenge, Fcre, Begin
    <2>3. ASSUME NEW sig, CreateKey(sig) \/ DaaSign(sig)
          PROVE  SetupFits'
      <3>1. persistent' = persistent
        BY <2>3, LoadKeyStep DEF CreateKey, DaaSign
      <3> QED
        BY <2>3, <3>1, OtherCallSetup DEF CreateKey, DaaSign, Begin
    <2> QED
      BY <1>2, <2>1, <2>2, <2>3 DEF CallNext
  <1>3. CASE CreateEk \/ Persist \/ Unpersist \/ PersistAgain \/ FlushEk \/ RequestNonce
    <2>1. CASE CreateEk
      <3>1. pc = "createEk" /\ pc' = "persist" /\ op' = op /\ NoKeys
            /\ UNCHANGED <<sessions, signSession>>
        BY <2>1, KeyCommand DEF CreateEk, Goto, SetupFits, sessionVars, globalVars
      <3>2. PICK k \in ObjectHandle \cup {NoHandle} : LoadKey(k, "ek") /\ loaded' = Kept(k, loaded)
        BY <2>1 DEF CreateEk
      <3>3. FreeSlots # {}
        BY <3>1, Handles DEF NoKeys, FreeSlots
      <3>4. k \in ObjectHandle /\ objects' = [objects EXCEPT ![k] = "ek"] /\ loaded' = k
        BY <3>2, <3>3, LoadKeyStep, Handles DEF Kept
      <3>5. OnlyEk'
        BY <1>1, <3>1, <3>4 DEF OnlyEk, NoKeys
      <3> QED
        BY <3>1, <3>5 DEF SetupFits, NoSessions, EnableHeals, AtReturn, EnableStep
    <2>2. CASE Persist
      <3>1. /\ pc = "persist" /\ pc' \in {"flushEk", "unpersist"} /\ op' = op /\ OnlyEk
            /\ UNCHANGED <<objects, loaded, sessions, signSession>>
            /\ persistent' = IF persistent = "none" THEN "ek" ELSE persistent
            /\ pc' = "flushEk" <=> persistent = "none"
        BY <1>1, <2>2 DEF Persist, Goto, SetupFits, MakePersistent, CanMakePersistent, ObjectCommand,
           tpmVars, objectVars, sessionVars, globalVars, localVars, OnlyEk, KeyAt, PrimaryKey
      <3> QED
        BY <1>1, <3>1 DEF SetupFits, NoSessions, OnlyEk, EnableHeals, AtReturn, EnableStep
    <2>3. CASE Unpersist
      <3>1. /\ pc = "unpersist" /\ pc' = "persistAgain" /\ op' = op
            /\ UNCHANGED <<objects, loaded, sessions, signSession>>
        BY <2>3 DEF Unpersist, Goto, DeletePersistent, ObjectCommand, tpmVars, objectVars, sessionVars,
                    globalVars, localVars
      <3> QED
        BY <3>1 DEF SetupFits, NoSessions, OnlyEk, EnableHeals, AtReturn, EnableStep
    <2>4. CASE PersistAgain
      <3>1. /\ pc = "persistAgain" /\ pc' = "flushEk" /\ op' = op /\ OnlyEk
            /\ UNCHANGED <<objects, loaded, sessions, signSession>>
            /\ persistent' = "ek"
        BY <1>1, <2>4 DEF PersistAgain, Goto, SetupFits, MakePersistent, CanMakePersistent,
           ObjectCommand, tpmVars, objectVars, sessionVars, globalVars, localVars, OnlyEk, KeyAt, PrimaryKey
      <3> QED
        BY <3>1 DEF SetupFits, NoSessions, OnlyEk, EnableHeals, AtReturn, EnableStep
    <2>5. CASE FlushEk
      <3>1. /\ pc = "flushEk" /\ op' = op /\ UNCHANGED <<sessions, signSession>>
            /\ signSession = NoHandle
            /\ pc' = IF op = "Enable" THEN "requestNonce" ELSE "idle"
            /\ OnlyEk /\ NoSessions /\ op \in {"Initialize", "Enable"} /\ persistent = "ek"
            /\ persistent' = persistent
        BY <2>5, KeyCommand, FlushKeyStep DEF FlushEk, Goto, SetupFits, sessionVars, globalVars
      <3>2. NoKeys'
        BY <1>1, <2>5, <3>1, FlushKeyStep DEF FlushEk, OnlyEk, NoKeys, KeyAt
      <3>3. NoSessions'
        BY <3>1 DEF NoSessions
      <3>4. EnableHeals'
        <4>1. pc' = "idle" => op' = "Initialize"
          BY <3>1
        <4>2. \A h \in SessionHandle : h # signSession'
          BY <3>1, Handles
        <4> QED
          BY <3>1, <3>2, <3>3, <4>1, <4>2 DEF EnableHeals, AtReturn, NoKeys, NoSessions
      <3> QED
        BY <3>1, <3>2, <3>3, <3>4 DEF SetupFits, EnableStep
    <2>6. CASE RequestNonce
      <3>1. /\ pc = "requestNonce" /\ pc' = "idle" /\ op' = op /\ UNCHANGED <<objects, persistent>>
            /\ persistent = "ek"
        BY <2>6, OpenSessionStep DEF RequestNonce, Goto, objectVars, SetupFits
      <3>2. CASE op \notin {"Initialize", "Enable"}
        BY <3>1, <3>2 DEF SetupFits, EnableHeals
      <3>3. CASE op \in {"Initialize", "Enable"}
        <4>1. NoSessions /\ NoKeys /\ op = "Enable"
          BY <3>1, <3>3 DEF SetupFits
        <4>2. PICK h \in SessionHandle \cup {NoHandle} :
                  /\ OpenSession(h)
                  /\ signSession' = Kept(h, signSession)
                  /\ signNonce' \in IF h = NoHandle THEN Unwritten({signNonce, EmptyNonce}, NoNonce)
                                                  ELSE {nonceCount'}
          BY <2>6 DEF RequestNonce
        <4>3. FreeSessions # {}
          BY <4>1, Handles DEF FreeSessions, NoSessions, Loaded
        <4>4. /\ h \in SessionHandle /\ h # NoHandle
              /\ sessions' = [sessions EXCEPT ![h] = FreshSession(nonceCount + 1)]
              /\ nonceCount' = nonceCount + 1
          BY <4>2, <4>3, Handles DEF OpenSession, StartAuthSession, FreeSessions
        <4>5. signSession' = h /\ signNonce' = nonceCount' /\ FreshSession(nonceCount + 1) # NoSession
          BY <4>2, <4>4 DEF Kept, FreshSession, NoSession
        <4>6. \A g \in SessionHandle :
                  sessions'[g] = IF g = signSession' THEN FreshSession(signNonce') ELSE NoSession
          BY <1>1, <4>1, <4>4, <4>5 DEF NoSessions
        <4>7. Loaded(signSession)'
          BY <4>4, <4>5, <4>6 DEF Loaded
        <4>8. EnableHeals'
          BY <3>1, <4>1, <4>5, <4>6, <4>7 DEF EnableHeals, NoKeys
        <4> QED
          BY <3>1, <4>8 DEF SetupFits
      <3> QED
        BY <3>2, <3>3
    <2> QED
      BY <1>3, <2>1, <2>2, <2>3, <2>4, <2>5, <2>6
  <1>4. CASE StepNext /\ ~ (CreateEk \/ Persist \/ Unpersist \/ PersistAgain \/ FlushEk \/ RequestNonce)
    <2>1. /\ pc \in Step \ EnableStep /\ op' = op
          /\ pc' \in (Step \ EnableStep) \cup {"idle"}
      BY <1>4 DEF StepNext, LoadIssuer, Verify, FlushIssuer, Activate, ActivateFull, FlushDaa, StartCommit,
         CommitCode, AuthorizeCommit, BridgeCommit, LoadWallet, BridgePolicySigned, BridgePolicyPCR,
         FlushWallet, AuthorizeSign, BridgeSign, Goto, Step, EnableStep, ChallengeStep, SignStep
    <2>2. persistent' = persistent
      BY <2>1, PersistentStep DEF MemoryFits, Step, EnableStep, ChallengeStep, SignStep
    <2>3. op \notin {"Initialize", "Enable"}
      BY <2>1 DEF SetupFits, Step, EnableStep, ChallengeStep, SignStep
    <2> QED
      BY <2>1, <2>2, <2>3, OtherCallSetup DEF Step, EnableStep, ChallengeStep, SignStep
  <1>5. CASE Wallet \/ \E b \in BOOLEAN : Extends(b)
    <2>1. /\ UNCHANGED <<pc, op, sessions, nonceCount, objects, persistent, signSession, signNonce, loaded>>
      BY <1>5 DEF Wallet, WalletSign, Extends, PCRExtend, objectVars, globalVars, localVars
    <2> QED
      BY <2>1 DEF SetupFits, NoSessions, NoKeys, OnlyEk, EnableHeals, AtReturn, Loaded
  <1>6. CASE Crash
    BY <1>6 DEF Crash, Forgotten, SetupFits, EnableHeals, AtReturn, EnableStep
  <1>7. CASE UNCHANGED vars
    BY <1>7 DEF vars, tpmVars, sessionVars, objectVars, globalVars, localVars, SetupFits, NoSessions, NoKeys,
                OnlyEk, EnableHeals, AtReturn, Loaded
  <1> QED
    BY <1>2, <1>3, <1>4, <1>5, <1>6, <1>7 DEF Next, StepNext

-----------------------------------------------------------------------------
(* The public keys that a call loads.                                      *)

\* A step between two commands of which neither sees a public key.
LEMMA NoNewPublicKey ==
    ASSUME objects \in [ObjectHandle -> Slot], PublicKeysFit,
           pc \notin {"off", "verify", "flushIssuer", "policySigned", "policyPCR", "flushWallet"},
           NEW k, NEW key, key \notin PublicKey,
           objects' = objects \/ objects' = [objects EXCEPT ![k] = key]
    PROVE  PublicKeysFit'
  BY DEF PublicKeysFit

LEMMA PublicKeysStep ==
    ASSUME MemoryFits, PublicKeysFit, [Next]_vars
    PROVE  PublicKeysFit'
  <1>1. objects \in [ObjectHandle -> Slot]
    BY DEF MemoryFits
  <1>2. "none" \notin PublicKey /\ "ek" \notin PublicKey /\ "daa" \notin PublicKey
    BY DEF PublicKey
  <1>3. CASE CallNext
    <2>1. CASE Enable
      BY <2>1, <1>2 DEF Enable, TpmReset, PublicKeysFit
    <2>2. CASE EnableAgain \/ StartSession \/ Challenge \/ Fcre
      <3>1. pc = "idle" /\ objects' = objects
        BY <2>2 DEF EnableAgain, StartSession, Challenge, Fcre, tpmVars, objectVars
      <3> QED
        BY <1>1, <1>2, <3>1, NoNewPublicKey
    <2>3. ASSUME NEW sig, CreateKey(sig) \/ DaaSign(sig)
          PROVE  PublicKeysFit'
      <3>1. PICK k \in ObjectHandle \cup {NoHandle} : LoadKey(k, "daa")
        BY <2>3 DEF CreateKey, DaaSign
      <3>2. pc = "idle"
        BY <2>3 DEF CreateKey, DaaSign
      <3>3. objects' = objects \/ objects' = [objects EXCEPT ![k] = "daa"]
        BY <3>1, LoadKeyStep
      <3> QED
        BY <1>1, <1>2, <3>2, <3>3, NoNewPublicKey
    <2> QED
      BY <1>3, <2>1, <2>2, <2>3 DEF CallNext
  <1>4. CASE StepNext
    <2>1. CASE CreateEk
      <3>1. PICK k \in ObjectHandle \cup {NoHandle} : LoadKey(k, "ek")
        BY <2>1 DEF CreateEk
      <3>2. objects' = objects \/ objects' = [objects EXCEPT ![k] = "ek"]
        BY <3>1, LoadKeyStep
      <3> QED
        BY <1>1, <1>2, <2>1, <3>2, NoNewPublicKey DEF CreateEk
    <2>2. CASE FlushEk \/ FlushDaa
      <3>1. \E k : objects' = objects \/ objects' = [objects EXCEPT ![k] = "none"]
        BY <2>2, FlushKeyStep DEF FlushEk, FlushDaa
      <3>2. pc \in {"flushEk", "flushDaa"}
        BY <2>2 DEF FlushEk, FlushDaa
      <3> QED
        BY <1>1, <1>2, <3>1, <3>2, NoNewPublicKey
    <2>3. CASE LoadIssuer \/ LoadWallet
      <3>1. /\ pc \in {"loadIssuer", "loadWallet"}
            /\ pc' \in {"verify", "policySigned"}
        BY <2>3 DEF LoadIssuer, LoadWallet, Goto
      <3>2. PICK k \in ObjectHandle \cup {NoHandle}, key \in PublicKey :
                LoadKey(k, key) /\ loaded' \in Received(k, AnyHandle)
        BY <2>3 DEF LoadIssuer, LoadWallet, PublicKey
      <3>3. CASE k \in ObjectHandle
        <4>1. objects' = [objects EXCEPT ![k] = key] /\ loaded' = k
          BY <3>2, <3>3, LoadKeyStep, Handles DEF Received
        <4> QED
          BY <1>1, <3>1, <4>1 DEF PublicKeysFit
      <3>4. CASE k \notin ObjectHandle
        <4>1. objects' = objects
          BY <3>2, <3>4, LoadKeyStep
        <4> QED
          BY <3>1, <4>1 DEF PublicKeysFit
      <3> QED
        BY <3>3, <3>4
    <2>4. CASE FlushIssuer \/ FlushWallet
      <3>1. FlushLoaded /\ pc \in {"flushIssuer", "flushWallet"}
        BY <2>4 DEF FlushIssuer, FlushWallet
      <3>2. \A k \in ObjectHandle : objects'[k] \notin PublicKey
        BY <1>1, <1>2, <3>1, FlushLoadedKey DEF PublicKeysFit, KeyAt
      <3> QED
        BY <3>2 DEF PublicKeysFit
    <2>5. CASE \/ Persist \/ Unpersist \/ PersistAgain \/ RequestNonce \/ Activate \/ ActivateFull
               \/ StartCommit \/ CommitCode \/ AuthorizeCommit \/ AuthorizeSign
      <3>1. objects' = objects
        BY <2>5, OpenSessionStep
        DEF Persist, Unpersist, PersistAgain, RequestNonce, Activate, ActivateFull, StartCommit, CommitCode,
            AuthorizeCommit, AuthorizeSign, Authorize, SessionCommand, MakePersistent, DeletePersistent,
            ObjectCommand, tpmVars, objectVars
      <3>2. pc \in {"persist", "unpersist", "persistAgain", "requestNonce", "activate", "activateFull",
                    "startCommit", "commitCode", "authorizeCommit", "authorizeSign"}
        BY <2>5 DEF Persist, Unpersist, PersistAgain, RequestNonce, Activate, ActivateFull, StartCommit,
                    CommitCode, AuthorizeCommit, AuthorizeSign
      <3> QED
        BY <1>1, <1>2, <3>1, <3>2, NoNewPublicKey
    <2>6. CASE BridgeCommit \/ BridgeSign
      <3>1. objects' = objects /\ pc \in {"commit", "sign"}
        BY <2>6 DEF BridgeCommit, Commit, BridgeSign, Sign, tpmVars, objectVars
      <3> QED
        BY <1>1, <1>2, <3>1, NoNewPublicKey
    <2>7. CASE Verify \/ BridgePolicySigned \/ BridgePolicyPCR
      <3>1. /\ objects' = objects /\ loaded' = loaded
            /\ pc \in {"verify", "policySigned", "policyPCR"}
            /\ pc' \in {"flushIssuer", "policyPCR", "flushWallet"}
        BY <2>7 DEF Verify, BridgePolicySigned, SignedByWallet, BridgePolicyPCR, SessionCommand, Goto,
                    tpmVars, objectVars, localVars
      <3> QED
        BY <3>1 DEF PublicKeysFit
    <2> QED
      BY <1>4, <2>1, <2>2, <2>3, <2>4, <2>5, <2>6, <2>7 DEF StepNext
  <1>5. CASE Wallet \/ (\E b \in BOOLEAN : Extends(b)) \/ UNCHANGED vars
    <2>1. UNCHANGED <<pc, objects, loaded>>
      BY <1>5 DEF Wallet, Extends, vars, tpmVars, objectVars, localVars
    <2> QED
      BY <2>1 DEF PublicKeysFit
  <1>6. CASE Crash
    BY <1>6 DEF Crash, Forgotten, PublicKeysFit
  <1> QED
    BY <1>3, <1>4, <1>5, <1>6 DEF Next

-----------------------------------------------------------------------------
(* What the sessions have met.                                             *)

\* A step outside the signing that leaves at most one session as it was not, and
\* that one with no signature of the wallet.
LEMMA SessionKept ==
    ASSUME sessions \in [SessionHandle -> Session \cup {NoSession}],
           NoPcrsYet, SignedFits,
           pc \notin {"off", "policyPCR"}, pc' \notin {"flushWallet", "authorizeSign", "sign"},
           NEW h, NEW s, s.digest # "signed",
           s.digest \in {"zero", "commitCode"} => s.pcrCounter = 0,
           sessions' = sessions \/ sessions' = [sessions EXCEPT ![h] = s]
    PROVE  NoPcrsYet' /\ SignedFits' /\ ProofFits'
  BY DEF NoPcrsYet, SignedFits, ProofFits, Loaded

\* What a session becomes that is opened, or that goes.
LEMMA NewSession ==
    /\ \A n : FreshSession(n).digest = "zero" /\ FreshSession(n).pcrCounter = 0
    /\ NoSession.digest = "none"
    /\ \A n : FreshSession(n) # NoSession
  BY DEF FreshSession, NoSession

\* The sessions after a call has flushed what it loaded.
LEMMA FlushLoadedSession ==
    ASSUME FlushLoaded
    PROVE  /\ UNCHANGED <<pcrCounter, pcrs, nonceCount, walletSigned, consumed>>
           /\ \/ sessions' = sessions
              \/ \E h \in SessionHandle :
                    loaded = Misplaced(h) /\ sessions' = [sessions EXCEPT ![h] = NoSession]
  BY KeyCommand DEF FlushLoaded, SessionCommand, FlushSession, tpmVars, sessionVars

\* The calls begin with no session changed but by a reset.
LEMMA CallSessions ==
    ASSUME CallNext, pc # "off"
    PROVE  UNCHANGED sessionVars /\ pc = "idle"
  <1>1. ASSUME NEW sig, CreateKey(sig) \/ DaaSign(sig)
        PROVE  UNCHANGED sessionVars /\ pc = "idle"
    BY <1>1, KeyCommand DEF CreateKey, DaaSign
  <1>2. CASE EnableAgain \/ StartSession \/ Challenge \/ Fcre
    BY <1>2 DEF EnableAgain, StartSession, Challenge, Fcre, tpmVars
  <1> QED
    BY <1>1, <1>2 DEF CallNext, Enable

LEMMA ResultStep ==
    ASSUME ResultFits, [Next]_vars
    PROVE  /\ ResultFits'
           /\ \/ result' = "none"
              \/ UNCHANGED <<pc, result, nonceSig, consumed, commitVars>>
              \/ BridgeSign
  <1>1. CASE CallNext
    <2>1. result' = "none"
      BY <1>1 DEF CallNext, Enable, EnableAgain, StartSession, CreateKey, DaaSign, Challenge, Fcre, Begin
    <2> QED
      BY <2>1 DEF ResultFits
  <1>2. CASE StepNext /\ ~ BridgeSign
    <2>1. pc # "idle" /\ result' = result
      BY <1>2 DEF StepNext, CreateEk, Persist, Unpersist, PersistAgain, FlushEk, RequestNonce, LoadIssuer,
                  Verify, FlushIssuer, Activate, ActivateFull, FlushDaa, StartCommit, CommitCode,
                  AuthorizeCommit, BridgeCommit, LoadWallet, BridgePolicySigned, BridgePolicyPCR,
                  FlushWallet, AuthorizeSign, Goto, historyVars
    <2> QED
      BY <2>1 DEF ResultFits
  <1>3. CASE BridgeSign
    BY <1>3 DEF BridgeSign, ResultFits
  <1>4. CASE Wallet \/ (\E b \in BOOLEAN : Extends(b)) \/ UNCHANGED vars
    <2>1. UNCHANGED <<pc, result, nonceSig, consumed, commitVars>>
      BY <1>4 DEF Wallet, WalletSign, Extends, PCRExtend, vars, tpmVars, sessionVars, globalVars, historyVars
    <2> QED
      BY <2>1 DEF ResultFits
  <1>5. CASE Crash
    BY <1>5 DEF Crash, Forgotten, ResultFits
  <1> QED
    BY <1>1, <1>2, <1>3, <1>4, <1>5 DEF Next

\* The steps of a call but for those from the wallet's signature to TPM2_Sign.
LEMMA OtherSessions ==
    ASSUME sessions \in [SessionHandle -> Session \cup {NoSession}],
           NoPcrsYet, SignedFits, StepNext,
           ~ (BridgePolicySigned \/ BridgePolicyPCR \/ FlushWallet \/ AuthorizeSign)
    PROVE  NoPcrsYet' /\ SignedFits' /\ ProofFits'
  <1>1. CASE \/ CreateEk \/ Persist \/ Unpersist \/ PersistAgain \/ FlushEk \/ LoadIssuer
             \/ LoadWallet \/ FlushDaa \/ Verify \/ Activate \/ ActivateFull
    <2>1. sessions' = sessions
      BY <1>1, KeyCommand
      DEF CreateEk, Persist, Unpersist, PersistAgain, FlushEk, LoadIssuer, LoadWallet, FlushDaa,
          Verify, Activate, ActivateFull, tpmVars, sessionVars
    <2>2. /\ pc \notin {"off", "policyPCR"}
          /\ pc' \notin {"flushWallet", "authorizeSign", "sign"}
      BY <1>1 DEF CreateEk, Persist, Unpersist, PersistAgain, FlushEk, LoadIssuer, LoadWallet, FlushDaa,
                  Verify, Activate, ActivateFull, Goto
    <2> QED
      BY <2>1, <2>2, NewSession, SessionKept
  <1>2. CASE RequestNonce \/ StartCommit
    <2>1. /\ pc \notin {"off", "policyPCR"}
          /\ pc' \notin {"flushWallet", "authorizeSign", "sign"}
      BY <1>2 DEF RequestNonce, StartCommit, Goto
    <2>2. PICK h \in SessionHandle \cup {NoHandle} : OpenSession(h)
      BY <1>2 DEF RequestNonce, StartCommit
    <2>3. \/ sessions' = sessions
          \/ sessions' = [sessions EXCEPT ![h] = FreshSession(nonceCount + 1)]
      BY <2>2, OpenSessionStep DEF StartAuthSession, sessionVars
    <2> QED
      BY <2>1, <2>3, NewSession, SessionKept
  <1>3. CASE FlushIssuer
    <2>1. /\ pc \notin {"off", "policyPCR"}
          /\ pc' \notin {"flushWallet", "authorizeSign", "sign"}
      BY <1>3 DEF FlushIssuer, Goto
    <2>2. \/ sessions' = sessions
          \/ \E h : sessions' = [sessions EXCEPT ![h] = NoSession]
      BY <1>3, FlushLoadedSession DEF FlushIssuer
    <2> QED
      BY <2>1, <2>2, NewSession, SessionKept
  <1>4. CASE CommitCode
    <2>1. /\ pc = "commitCode" /\ pc' = "authorizeCommit"
      BY <1>4 DEF CommitCode, Goto
    <2>2. CASE sessions' = sessions
      BY <2>1, <2>2, NewSession, SessionKept
    <2>3. CASE sessions' # sessions
      <3>1. PolicyCommandCode(session, "Commit")
        BY <1>4, <2>3 DEF CommitCode, SessionCommand, tpmVars, sessionVars
      <3> DEFINE s == [sessions[session] EXCEPT !.digest = Extend(@, "PolicyCommandCode"),
                                                !.commandCode = "Commit"]
      <3>2. session \in SessionHandle /\ Loaded(session) /\ sessions[session] \in Session
        BY <3>1 DEF PolicyCommandCode, CanPolicyCommandCode, Loaded
      <3>3. sessions' = [sessions EXCEPT ![session] = s]
        BY <3>1, <3>2 DEF PolicyCommandCode, Session
      <3>4. /\ s.digest = Extend(sessions[session].digest, "PolicyCommandCode")
            /\ s.pcrCounter = sessions[session].pcrCounter
        BY <3>2 DEF Session
      <3>5. /\ s.digest \in {"commitCode", "other"}
            /\ s.digest = "commitCode" => sessions[session].digest = "zero"
        BY <3>4 DEF Extend
      <3>6. s.digest \in {"zero", "commitCode"} => s.pcrCounter = 0
        BY <3>2, <3>4, <3>5 DEF NoPcrsYet
      <3> HIDE DEF s
      <3> QED
        BY <2>1, <3>3, <3>5, <3>6, SessionKept
    <2> QED
      BY <2>2, <2>3
  <1>5. CASE AuthorizeCommit
    <2>1. /\ pc = "authorizeCommit" /\ pc' = "commit"
      BY <1>5 DEF AuthorizeCommit, Goto
    <2>2. CASE sessions' = sessions
      BY <2>1, <2>2, NewSession, SessionKept
    <2>3. CASE sessions' # sessions
      <3>1. PolicyAuthorize(session, "commitCode", "commitCode")
        BY <1>5, <2>3 DEF AuthorizeCommit, Authorize, SessionCommand, tpmVars, sessionVars
      <3> DEFINE s == [sessions[session] EXCEPT !.digest = "authorized"]
      <3>2. sessions[session] \in Session
        BY <3>1 DEF PolicyAuthorize, CanPolicyAuthorize, Loaded
      <3>3. sessions' = [sessions EXCEPT ![session] = s] /\ s.digest = "authorized"
        BY <3>1, <3>2 DEF PolicyAuthorize, Session
      <3> HIDE DEF s
      <3> QED
        BY <2>1, <3>3, SessionKept
    <2> QED
      BY <2>2, <2>3
  <1>6. CASE BridgeCommit \/ BridgeSign
    <2>1. pc \in {"commit", "sign"} /\ pc' \in {"loadWallet", "idle"}
      BY <1>6 DEF BridgeCommit, BridgeSign, Goto
    <2>2. \/ sessions' = sessions
          \/ \E h : sessions' = [sessions EXCEPT ![h] = NoSession]
      BY <1>6 DEF BridgeCommit, BridgeSign, Commit, Sign, UseSession, tpmVars, sessionVars
    <2> QED
      BY <2>1, <2>2, NewSession, SessionKept
  <1> QED
    BY <1>1, <1>2, <1>3, <1>4, <1>5, <1>6 DEF StepNext

LEMMA SigningSessions ==
    ASSUME sessions \in [SessionHandle -> Session \cup {NoSession}],
           NoPcrsYet, SignedFits, ProofFits,
           BridgePolicySigned \/ BridgePolicyPCR \/ FlushWallet \/ AuthorizeSign
    PROVE  NoPcrsYet' /\ SignedFits' /\ ProofFits'
  <1>1. CASE BridgePolicySigned
    <2>1. pc = "policySigned" /\ pc' = "policyPCR" /\ UNCHANGED <<signSession, nonceSig>>
      BY <1>1 DEF BridgePolicySigned, Goto, globalVars
    <2>2. CASE sessions' = sessions
      BY <2>1, <2>2 DEF NoPcrsYet, SignedFits, ProofFits, Loaded
    <2>3. CASE sessions' # sessions
      <3>1. PolicySigned(signSession, signNonce, nonceSig)
        BY <1>1, <2>3 DEF BridgePolicySigned, SignedByWallet, SessionCommand, tpmVars, sessionVars
      <3> DEFINE old == sessions[signSession]
                 new == [old EXCEPT !.digest = Extend(@, "PolicySigned")]
      <3>2. signSession \in SessionHandle /\ Loaded(signSession) /\ old \in Session /\ OwnConsent(old)
        BY <3>1 DEF PolicySigned, CanPolicySigned, Loaded, OwnConsent
      <3>3. sessions' = [sessions EXCEPT ![signSession] = new]
        BY <3>1, <3>2 DEF PolicySigned, Session
      <3>4. /\ new.digest \in {"signed", "other"} /\ new.pcrCounter = old.pcrCounter
            /\ new.nonce = old.nonce
            /\ new.digest = "signed" => old.digest = "zero"
        BY <3>2 DEF Session, Extend
      <3> HIDE DEF new
      <3>5. NoPcrsYet'
        BY <3>2, <3>3, <3>4 DEF NoPcrsYet, Loaded
      <3>6. SignedFits'
        BY <2>1, <3>2, <3>3, <3>4 DEF SignedFits, Loaded, OwnConsent
      <3> QED
        BY <2>1, <3>5, <3>6 DEF ProofFits
    <2> QED
      BY <2>2, <2>3
  <1>2. CASE BridgePolicyPCR
    <2>1. /\ pc = "policyPCR" /\ pc' = "flushWallet"
          /\ UNCHANGED <<signSession, nonceSig, pcrCounter>>
      BY <1>2 DEF BridgePolicyPCR, Goto, SessionCommand, PolicyPCR, globalVars, tpmVars, sessionVars
    <2>2. CASE PolicyPCR(signSession)
      <3> DEFINE old == sessions[signSession]
                 step == IF pcrs = "approved" THEN "PolicyPCR" ELSE "PolicyPCR of other values"
                 new == [old EXCEPT !.digest = Extend(@, step), !.pcrCounter = pcrCounter]
      <3>1. signSession \in SessionHandle /\ Loaded(signSession) /\ old \in Session
        BY <2>2 DEF PolicyPCR, CanPolicyPCR, Loaded
      <3>2. sessions' = [sessions EXCEPT ![signSession] = new]
        BY <2>2, <3>1 DEF PolicyPCR, Session
      <3>3. /\ new.digest \in {"signedPcr", "other"} /\ new.nonce = old.nonce
            /\ new.digest = "signedPcr" => old.digest = "signed"
        BY <3>1 DEF Session, Extend
      <3> HIDE DEF new
      <3>4. NoPcrsYet'
        BY <3>1, <3>2, <3>3 DEF NoPcrsYet, Loaded
      <3>5. SignedFits'
        BY <2>1, <3>1, <3>2, <3>3 DEF SignedFits, Loaded
      <3>6. ProofFits'
        BY <2>1, <3>1, <3>2, <3>3 DEF ProofFits, SignedFits, GoodForSign, OwnConsent
      <3> QED
        BY <3>4, <3>5, <3>6
    <2>3. CASE sessions' = sessions /\ ~ CanPolicyPCR(signSession)
      BY <2>1, <2>3 DEF NoPcrsYet, SignedFits, ProofFits, GoodForSign, CanPolicyPCR, Loaded, PCRValueIsCurrent
    <2> QED
      BY <1>2, <2>2, <2>3 DEF BridgePolicyPCR, SessionCommand, tpmVars, sessionVars
  <1>3. CASE FlushWallet
    <2>1. /\ pc = "flushWallet" /\ pc' = "authorizeSign"
          /\ UNCHANGED <<signSession, nonceSig, pcrCounter>>
      BY <1>3, FlushLoadedSession DEF FlushWallet, Goto, globalVars
    <2>2. \/ sessions' = sessions
          \/ \E h \in SessionHandle : sessions' = [sessions EXCEPT ![h] = NoSession]
      BY <1>3, FlushLoadedSession DEF FlushWallet
    <2> QED
      BY <2>1, <2>2 DEF NoPcrsYet, SignedFits, ProofFits, GoodForSign, OwnConsent, PCRValueIsCurrent, Loaded
  <1>4. CASE AuthorizeSign
    <2>1. /\ pc = "authorizeSign" /\ pc' = "sign"
          /\ UNCHANGED <<signSession, nonceSig, pcrCounter>>
      BY <1>4 DEF AuthorizeSign, Authorize, Goto, SessionCommand, PolicyAuthorize, globalVars, tpmVars,
                  sessionVars
    <2>2. CASE sessions' = sessions
      BY <2>1, <2>2 DEF NoPcrsYet, SignedFits, ProofFits, GoodForSign, OwnConsent, PCRValueIsCurrent, Loaded
    <2>3. CASE sessions' # sessions
      <3>1. PolicyAuthorize(signSession, "signedPcr", "signedPcr")
        BY <1>4, <2>3 DEF AuthorizeSign, Authorize, SessionCommand, tpmVars, sessionVars
      <3> DEFINE old == sessions[signSession]
                 new == [old EXCEPT !.digest = "authorized"]
      <3>2. /\ signSession \in SessionHandle /\ Loaded(signSession) /\ old \in Session
            /\ old.digest = "signedPcr"
        BY <3>1 DEF PolicyAuthorize, CanPolicyAuthorize, Loaded
      <3>3. sessions' = [sessions EXCEPT ![signSession] = new]
        BY <3>1, <3>2 DEF PolicyAuthorize, Session
      <3>4. /\ new.digest = "authorized" /\ new.nonce = old.nonce
            /\ new.pcrCounter = old.pcrCounter
        BY <3>2 DEF Session
      <3> HIDE DEF new
      <3>5. NoPcrsYet' /\ SignedFits'
        BY <2>1, <3>2, <3>3, <3>4 DEF NoPcrsYet, SignedFits, Loaded
      <3>6. ProofFits'
        BY <2>1, <3>2, <3>3, <3>4 DEF ProofFits, GoodForSign, OwnConsent, PCRValueIsCurrent
      <3> QED
        BY <3>5, <3>6
    <2> QED
      BY <2>2, <2>3
  <1> QED
    BY <1>1, <1>2, <1>3, <1>4

\* The signature of a call was itself given the wallet's consent.
LEMMA BridgeSignConsent ==
    ASSUME SessionsInv, ProofFits, BridgeSign
    PROVE  SignatureUsesCallersConsent'
  <1>1. pc = "sign" /\ UNCHANGED nonceSig
    BY DEF BridgeSign, globalVars
  <1>2. CASE result' = "failed"
    BY <1>2 DEF SignatureUsesCallersConsent, MadeSignature
  <1>3. CASE result' # "failed"
    <2>1. UseSession(signSession, "Sign", FALSE)
      BY <1>3 DEF BridgeSign, Sign
    <2> DEFINE s == sessions[signSession]
               entry == [nonce |-> s.nonce, command |-> "Sign", pcrs |-> pcrs]
    <2>2. /\ Loaded(signSession) /\ GoodForSign(s)
          /\ consumed' = Append(consumed, entry)
      BY <2>1 DEF UseSession, CheckPolicyAuthSession, GoodForSign
    <2>3. consumed \in Seq([nonce : Nat, command : Command, pcrs : {"approved", "changed"}])
      BY DEF SessionsInv, SessionsTypeOK
    <2>4. consumed'[Len(consumed')] = entry
      BY <2>2, <2>3
    <2>5. OwnConsent(s)
      BY <1>1, <2>2 DEF ProofFits
    <2> QED
      BY <1>1, <2>4, <2>5 DEF SignatureUsesCallersConsent, OwnConsent
  <1> QED
    BY <1>2, <1>3

LEMMA ConsentStep ==
    ASSUME SessionsInv, ConsentFits, [Next]_vars
    PROVE  ConsentFits'
  <1>1. sessions \in [SessionHandle -> Session \cup {NoSession}]
    BY DEF SessionsInv, SessionsTypeOK
  <1>2. NoPcrsYet /\ SignedFits /\ ProofFits /\ ResultFits /\ SignatureUsesCallersConsent
    BY DEF ConsentFits
  <1>3. ResultFits'
    BY <1>2, ResultStep
  <1>4. SignatureUsesCallersConsent'
    <2>1. CASE result' = "none"
      BY <2>1 DEF SignatureUsesCallersConsent, MadeSignature
    <2>2. CASE UNCHANGED <<pc, result, nonceSig, consumed>>
      BY <1>2, <2>2 DEF SignatureUsesCallersConsent, MadeSignature, AtReturn
    <2>3. CASE BridgeSign
      BY <1>2, <2>3, BridgeSignConsent
    <2> QED
      BY <1>2, <2>1, <2>2, <2>3, ResultStep
  <1>5. NoPcrsYet' /\ SignedFits' /\ ProofFits'
    <2>1. CASE Enable
      <3>1. /\ pc' = "createEk"
            /\ sessions' = [h \in SessionHandle |-> NoSession]
        BY <2>1 DEF Enable, TpmReset, SessionReset
      <3> QED
        BY <3>1 DEF NoPcrsYet, SignedFits, ProofFits, Loaded
    <2>2. CASE CallNext /\ ~ Enable
      <3>1. pc = "idle" /\ UNCHANGED sessionVars
        BY <2>2, CallSessions DEF CallNext, EnableAgain, StartSession, CreateKey, DaaSign, Challenge, Fcre
      <3>2. pc' \notin {"flushWallet", "authorizeSign", "sign"}
        BY <2>2 DEF CallNext, EnableAgain, StartSession, CreateKey, DaaSign, Challenge, Fcre
      <3> QED
        BY <1>1, <1>2, <3>1, <3>2, NewSession, SessionKept DEF sessionVars
    <2>3. CASE StepNext
      BY <1>1, <1>2, <2>3, OtherSessions, SigningSessions
    <2>4. CASE Wallet \/ UNCHANGED vars
      <3>1. UNCHANGED <<pc, signSession, nonceSig, sessions, pcrCounter>>
        BY <2>4 DEF Wallet, WalletSign, vars, tpmVars, sessionVars, globalVars
      <3> QED
        BY <1>2, <3>1 DEF NoPcrsYet, SignedFits, ProofFits, GoodForSign, OwnConsent, PCRValueIsCurrent, Loaded
    <2>5. CASE \E b \in BOOLEAN : Extends(b)
      <3>1. /\ UNCHANGED <<pc, signSession, nonceSig, sessions>> /\ pcrCounter' = pcrCounter + 1
        BY <2>5 DEF Extends, PCRExtend, globalVars
      <3>2. NoPcrsYet' /\ SignedFits'
        BY <1>2, <3>1 DEF NoPcrsYet, SignedFits, OwnConsent, Loaded
      <3>3. ASSUME Loaded(signSession), GoodForSign(sessions[signSession])'
            PROVE  GoodForSign(sessions[signSession])
        <4>1. /\ sessions[signSession] \in Session /\ pcrCounter \in Nat
              /\ sessions[signSession].pcrCounter <= pcrCounter
          BY <1>1, <3>3 DEF SessionsInv, SessionsTypeOK, DigestIsProof, DigestProves, Loaded
        <4> QED
          BY <3>1, <3>3, <4>1 DEF GoodForSign, PCRValueIsCurrent, Session
      <3> QED
        BY <1>2, <3>1, <3>2, <3>3 DEF ProofFits, OwnConsent, Loaded
    <2>6. CASE Crash
      <3>1. pc' = "off" /\ UNCHANGED sessions
        BY <2>6 DEF Crash, Forgotten, tpmVars, sessionVars
      <3> QED
        BY <1>2, <3>1 DEF NoPcrsYet, SignedFits, ProofFits, Loaded
    <2> QED
      BY <2>1, <2>2, <2>3, <2>4, <2>5, <2>6 DEF Next
  <1> QED
    BY <1>3, <1>4, <1>5 DEF ConsentFits

-----------------------------------------------------------------------------
(* The commitment of a call.                                               *)

\* The count of the last commitment is taken for that commitment.
LEMMA LastCount ==
    ASSUME CommitInv, commitCounter > 0, ~ Signed(commitCounter - 1)
    PROVE  /\ (commitCounter - 1) % CountRange \in Count
           /\ AcceptsCount((commitCounter - 1) % CountRange)
           /\ CommittedCount((commitCounter - 1) % CountRange) = commitCounter - 1
  <1>1. commitCounter - 1 \in Young
    BY CommitAssumption DEF Young, CommitInv, CommitTypeOK
  <1> QED
    BY <1>1, OpenCount

\* No signature was made with a commitment to come.
LEMMA NextIsOpen ==
    ASSUME CommitInv
    PROVE  ~ Signed(commitCounter)
  BY DEF CommitInv, CommitTypeOK, ArrayIsExact, Signed

LEMMA CommitmentStep ==
    ASSUME CommitInv, MemoryFits, ResultFits, CommitmentFits, [Next]_vars
    PROVE  CommitmentFits'
  <1>1. Unset \notin Count
    BY CommitAssumption DEF Unset, Count
  <1> DEFINE CountFits ==
          count # Unset =>
              /\ pc \in {"loadWallet"} \cup SigningStep
              /\ commitCounter > 0 /\ count = (commitCounter - 1) % CountRange
              /\ ~ Signed(commitCounter - 1)
  <1>2. CountFits
    BY DEF CommitmentFits
  <1>3. CountFits'
    <2>1. CASE count' = Unset
      BY <2>1
    <2>2. CASE BridgeCommit /\ Commit(daaKey, session) /\ count' = commitCounter % CountRange
      <3>1. /\ pc' = "loadWallet" /\ commitCounter' = commitCounter + 1 /\ commitCounter \in Nat
            /\ UNCHANGED <<commitNonce, signedWith>>
        BY <2>2 DEF BridgeCommit, Goto, Commit, CryptCommit, CommitInv, CommitTypeOK
      <3>2. commitCounter' - 1 = commitCounter
        BY <3>1
      <3>3. ~ Signed(commitCounter - 1)'
        BY <3>1, <3>2, NextIsOpen DEF Signed
      <3> QED
        BY <2>2, <3>1, <3>2, <3>3
    <2>3. CASE count' = count /\ count # Unset
      <3>1. pc \in {"loadWallet"} \cup SigningStep
        BY <1>2, <2>3
      <3>2. \/ LoadWallet \/ BridgePolicySigned \/ BridgePolicyPCR \/ FlushWallet \/ AuthorizeSign
            \/ BridgeSign \/ (\E b \in BOOLEAN : Extends(b)) \/ UNCHANGED vars \/ Crash
        BY <3>1 DEF SigningStep, Next, CallNext, StepNext, Enable, EnableAgain, StartSession, CreateKey,
           DaaSign, Challenge, Fcre, CreateEk, Persist, Unpersist, PersistAgain, FlushEk, RequestNonce,
           LoadIssuer, Verify, FlushIssuer, Activate, ActivateFull, FlushDaa, StartCommit, CommitCode,
           AuthorizeCommit, BridgeCommit, Wallet
      <3>3. ~ BridgeSign /\ ~ Crash
        BY <2>3 DEF BridgeSign, Crash, Forgotten, NoLocals, LocalsGone
      <3>4. pc' \in {"loadWallet"} \cup SigningStep
        BY <3>1, <3>2, <3>3 DEF LoadWallet, BridgePolicySigned, BridgePolicyPCR, FlushWallet, AuthorizeSign,
           Extends, Goto, vars, SigningStep
      <3>5. UNCHANGED <<commitCounter, commitNonce, signedWith>>
        BY <3>2, <3>3, KeyCommand, FlushLoadedStep
        DEF LoadWallet, BridgePolicySigned, SignedByWallet, BridgePolicyPCR, FlushWallet, AuthorizeSign,
            Authorize, SessionCommand, Extends, vars, tpmVars, commitVars
      <3> QED
        BY <1>2, <2>3, <3>4, <3>5 DEF Signed
    <2> QED
      BY <2>1, <2>2, <2>3, CountStep
  <1>4. AnswersOwn'
    <2>1. CASE result' = "none"
      BY <2>1 DEF AnswersOwn, MadeSignature
    <2>2. CASE UNCHANGED <<pc, result, nonceSig, consumed, commitVars>>
      BY <2>2 DEF CommitmentFits, AnswersOwn, MadeSignature, AtReturn, commitVars
    <2>3. CASE BridgeSign /\ result' = "signed"
      <3>1. count # Unset /\ Sign(daaKey, signSession, count)
        BY <2>3 DEF BridgeSign
      <3>2. /\ signedWith' = Append(signedWith, <<commitNonce, CommittedCount(count)>>)
            /\ UNCHANGED <<commitNonce, commitCounter>>
        BY <3>1 DEF Sign, SignEcdaa
      <3>3. CommittedCount(count) = commitCounter - 1
        BY <1>2, <3>1, LastCount
      <3>4. signedWith \in Seq(Nat \X Nat)
        BY DEF CommitInv, CommitTypeOK
      <3> QED
        BY <2>3, <3>2, <3>3, <3>4 DEF AnswersOwn
    <2>4. CASE BridgeSign /\ result' = "signedBlind"
      <3>1. PICK c \in Unwritten(Count, Unset) : SignEcdaa(c)
        BY <2>4 DEF BridgeSign, Sign
      <3>2. c # Unset
        BY <3>1, UnsetIsRefused DEF SignEcdaa
      <3>3. Leftovers
        BY <3>1, <3>2 DEF Unwritten
      <3> QED
        BY <2>4, <3>3 DEF AnswersOwn
    <2>5. CASE BridgeSign /\ result' = "failed"
      BY <2>5 DEF AnswersOwn, MadeSignature
    <2>6. BridgeSign => result' \in {"signed", "signedBlind", "failed"}
      BY DEF BridgeSign
    <2> QED
      BY <2>1, <2>2, <2>3, <2>4, <2>5, <2>6, ResultStep
  <1> QED
    BY <1>3, <1>4 DEF CommitmentFits

-----------------------------------------------------------------------------
(* A proper call succeeds.                                                 *)

LEMMA CardinalityOfRoom ==
    /\ Cardinality(FreeSlots) >= 1 => FreeSlots # {}
    /\ \A k : Cardinality(FreeSlots) >= 2 => FreeSlots # {} /\ FreeSlots # {k}
  <1>1. FreeSlots = {} => Cardinality(FreeSlots) = 0
    BY FS_EmptySet, Zenon
  <1>2. ASSUME NEW k, FreeSlots = {k} PROVE Cardinality(FreeSlots) = 1
    BY <1>2, FS_Singleton, Zenon
  <1> QED
    BY <1>1, <1>2

\* The step of the next command of a proper call.
ProperStepsOn ==
    /\ proper /\ roomy
    /\ UNCHANGED <<op, historyVars>>
    /\ UNCHANGED <<signSession, signNonce, nonceSig, credential, daaKey, joined>>

\* The key that a call loads for its own use takes a free slot.
LEMMA LoadOwnKey ==
    ASSUME objects \in [ObjectHandle -> Slot], KeyAt(daaKey) = "daa", FreeSlots # {},
           NEW key,
           \E k \in ObjectHandle \cup {NoHandle} :
               LoadKey(k, key) /\ loaded' \in Received(k, AnyHandle)
    PROVE  /\ KeyAt(loaded)' = key
           /\ objects'[daaKey] = "daa" /\ daaKey \in ObjectHandle
           /\ UNCHANGED sessionVars
  <1>1. PICK k \in ObjectHandle \cup {NoHandle} :
            LoadKey(k, key) /\ loaded' \in Received(k, AnyHandle)
    OBVIOUS
  <1>2. /\ k \in ObjectHandle /\ objects[k] = "none"
        /\ objects' = [objects EXCEPT ![k] = key]
    BY <1>1, LoadKeyStep
  <1>3. loaded' = k
    BY <1>1, <1>2, Handles DEF Received
  <1> QED
    BY <1>1, <1>2, <1>3, KeyCommand DEF KeyAt

\* And leaves it again, and nothing else.
LEMMA FlushOwnKey ==
    ASSUME objects \in [ObjectHandle -> Slot], KeyAt(daaKey) = "daa",
           KeyAt(loaded) \in PublicKey, FlushLoaded
    PROVE  /\ FreeSlots' # {}
           /\ objects'[daaKey] = "daa" /\ daaKey \in ObjectHandle
           /\ UNCHANGED sessionVars
  <1>1. loaded \in ObjectHandle /\ KeyAt(loaded) # "none" /\ daaKey # loaded
    BY DEF KeyAt, PublicKey
  <1>2. objects' = [objects EXCEPT ![loaded] = "none"]
    BY <1>1, FlushLoadedKey
  <1>3. \A h \in SessionHandle : loaded # Misplaced(h)
    BY <1>1, Handles
  <1>4. UNCHANGED sessionVars
    BY <1>3, KeyCommand DEF FlushLoaded
  <1> QED
    BY <1>1, <1>2, <1>4 DEF FreeSlots, KeyAt

LEMMA ProperCalls ==
    ASSUME objects \in [ObjectHandle -> Slot], CallNext
    PROVE  ProperFits'
  <1>1. CASE Enable \/ EnableAgain \/ StartSession \/ Fcre \/ \E sig : CreateKey(sig)
    BY <1>1 DEF Enable, EnableAgain, StartSession, Fcre, CreateKey, Begin, ProperFits
  <1>2. CASE Challenge
    <2> SUFFICES ASSUME proper', roomy'
                 PROVE  ProperFits'
      BY DEF ProperFits
    <2>1. /\ KeyAt(daaKey) = "daa" /\ SessionReady(nonceSig)
          /\ op' = "Challenge" /\ pc' = "loadIssuer"
          /\ Cardinality(FreeSlots) >= 1 /\ FreeSessions # {}
      BY <1>2 DEF Challenge, Begin
    <2>2. UNCHANGED <<daaKey, signSession, signNonce, nonceSig, objects, sessions, pcrs, pcrCounter, walletSigned>>
      BY <1>2 DEF Challenge, tpmVars, sessionVars, objectVars
    <2>3. ReadyToSign'
      BY <2>1, <2>2 DEF ReadyToSign, SignDigest, SessionReady, FreshSession, Loaded
    <2>4. ReadyCall'
      BY <2>1, <2>2, <2>3 DEF ReadyCall, KeyAt, SessionReady
    <2>5. RoomFits'
      BY <2>1, <2>2, CardinalityOfRoom DEF RoomFits, FreeSlots, FreeSessions, Loaded
    <2>6. AnswersFit' /\ ProperCallSigns'
      BY <2>1 DEF AnswersFit, ProperCallSigns, AtReturn, SignStep, CommittingStep, SigningStep
    <2> QED
      BY <2>1, <2>4, <2>5, <2>6 DEF ProperFits, ChallengeStep
  <1>3. ASSUME NEW sig, DaaSign(sig)
        PROVE  ProperFits'
    <2> SUFFICES ASSUME proper', roomy'
                 PROVE  ProperFits'
      BY DEF ProperFits
    <2>1. /\ credential /\ tickets = Approved /\ SessionReady(sig) /\ nonceSig' = sig
          /\ op' = "Sign" /\ pc' = "startCommit"
          /\ Cardinality(FreeSlots) >= 2 /\ FreeSessions # {}
      BY <1>3 DEF DaaSign, Begin
    <2>2. PICK k \in ObjectHandle \cup {NoHandle} : LoadKey(k, "daa") /\ daaKey' = Kept(k, daaKey)
      BY <1>3 DEF DaaSign
    <2>3. FreeSlots # {} /\ FreeSlots # {k}
      BY <2>1, CardinalityOfRoom
    <2>4. /\ k \in ObjectHandle /\ objects[k] = "none" /\ daaKey' = k
          /\ objects' = [objects EXCEPT ![k] = "daa"]
      BY <2>2, <2>3, LoadKeyStep, Handles DEF Kept
    <2>5. UNCHANGED <<signSession, signNonce, credential, tickets, sessions, pcrs, pcrCounter, walletSigned>>
      BY <1>3, <2>2, KeyCommand DEF DaaSign, sessionVars
    <2>6. FreeSlots' # {} /\ KeyAt(daaKey)' = "daa"
      <3>1. PICK j \in FreeSlots : j # k
        BY <2>3
      <3> QED
        BY <2>4, <3>1 DEF FreeSlots, KeyAt
    <2>7. ReadyToSign'
      BY <2>1, <2>5 DEF ReadyToSign, SignDigest, SessionReady, FreshSession, Loaded
    <2>8. ReadyCall'
      BY <2>1, <2>5, <2>6, <2>7 DEF ReadyCall, SessionReady
    <2>9. RoomFits'
      BY <2>1, <2>5, <2>6 DEF RoomFits, FreeSessions, Loaded
    <2>10. AnswersFit' /\ ProperCallSigns'
      BY <2>1, <2>5 DEF AnswersFit, ProperCallSigns, AtReturn, SignStep, CommittingStep, SigningStep
    <2> QED
      BY <2>1, <2>8, <2>9, <2>10 DEF ProperFits, SignStep
  <1> QED
    BY <1>1, <1>2, <1>3 DEF CallNext

LEMMA ProperChallenge ==
    ASSUME MemoryFits, SetupFits, ProperFits, ProperStepsOn,
           LoadIssuer \/ Verify \/ FlushIssuer \/ Activate
    PROVE  ProperFits'
  <1>1. /\ objects \in [ObjectHandle -> Slot] /\ pc \in ChallengeStep /\ ReadyCall
        /\ RoomFits /\ AnswersFit /\ op' = op /\ op \in {"Challenge", "Sign"}
        /\ UNCHANGED <<signSession, signNonce, nonceSig, credential, daaKey>>
    BY DEF MemoryFits, ProperFits, ProperStepsOn, LoadIssuer, Verify, FlushIssuer, Activate, ChallengeStep
  <1>2. /\ KeyAt(daaKey)' = "daa" /\ UNCHANGED sessionVars /\ pc' # "idle"
        /\ pc' \in {"verify", "flushIssuer", "activate", "startCommit"}
        /\ RoomFits' /\ AnswersFit'
    <2>1. CASE LoadIssuer
      <3>1. pc = "loadIssuer" /\ pc' = "verify" /\ FreeSlots # {} /\ FreeSessions # {}
        BY <1>1, <2>1 DEF LoadIssuer, Goto, RoomFits, ChallengeStep
      <3>2. /\ KeyAt(loaded)' = "issuer" /\ objects'[daaKey] = "daa" /\ daaKey \in ObjectHandle
            /\ UNCHANGED sessionVars
        BY <1>1, <2>1, <3>1, LoadOwnKey DEF LoadIssuer, ReadyCall
      <3> QED
        BY <1>1, <3>1, <3>2 DEF RoomFits, AnswersFit, KeyAt, FreeSessions, Loaded, sessionVars,
           CommittingStep, SigningStep, SignStep
    <2>2. CASE Verify
      <3>1. /\ pc = "verify" /\ pc' = "flushIssuer" /\ KeyAt(loaded) = "issuer" /\ FreeSessions # {}
            /\ UNCHANGED <<sessionVars, objects, loaded>>
        BY <1>1, <2>2 DEF Verify, Goto, RoomFits, AnswersFit, ChallengeStep, tpmVars, objectVars, localVars
      <3>2. tickets' = Approved
        BY <2>2, <3>1 DEF Verify
      <3> QED
        BY <1>1, <3>1, <3>2 DEF RoomFits, AnswersFit, ReadyCall, KeyAt, FreeSessions, Loaded, sessionVars,
           CommittingStep, SigningStep, SignStep
    <2>3. CASE FlushIssuer
      <3>1. /\ pc = "flushIssuer" /\ pc' = "activate" /\ KeyAt(loaded) = "issuer" /\ FreeSessions # {}
            /\ tickets = Approved /\ tickets' = tickets
        BY <1>1, <2>3 DEF FlushIssuer, Goto, RoomFits, AnswersFit, ChallengeStep, globalVars
      <3>2. /\ FreeSlots' # {} /\ objects'[daaKey] = "daa" /\ daaKey \in ObjectHandle
            /\ UNCHANGED sessionVars
        BY <1>1, <2>3, <3>1, FlushOwnKey DEF FlushIssuer, ReadyCall, PublicKey
      <3> QED
        BY <1>1, <3>1, <3>2 DEF RoomFits, AnswersFit, KeyAt, FreeSessions, Loaded, sessionVars,
           CommittingStep, SigningStep, SignStep
    <2>4. CASE Activate
      <3>1. /\ pc = "activate" /\ pc' = "startCommit" /\ FreeSlots # {} /\ FreeSessions # {}
            /\ tickets = Approved /\ UNCHANGED <<sessionVars, objects, tickets>>
        BY <1>1, <2>4 DEF Activate, Goto, RoomFits, AnswersFit, ChallengeStep, tpmVars, objectVars, globalVars
      <3>2. activated'
        BY <1>1, <2>4, <3>1 DEF Activate, CanActivateCredential, CanUsePersistent, SetupFits, ReadyCall
      <3> QED
        BY <1>1, <3>1, <3>2 DEF RoomFits, AnswersFit, ReadyCall, KeyAt, FreeSlots, FreeSessions, Loaded,
           sessionVars, CommittingStep, SigningStep, SignStep
    <2> QED
      BY <2>1, <2>2, <2>3, <2>4
  <1>3. ReadyToSign'
    <2>1. /\ UNCHANGED <<sessions, signSession, signNonce>> /\ ReadyToSign
          /\ pc \notin {"flushWallet", "authorizeSign", "sign", "policyPCR"}
      BY <1>1, <1>2 DEF ReadyCall, ChallengeStep, sessionVars
    <2> QED
      BY <1>2, <2>1 DEF ReadyToSign, SignDigest
  <1>4. ReadyCall'
    BY <1>1, <1>2, <1>3 DEF ReadyCall, sessionVars
  <1> QED
    BY <1>1, <1>2, <1>4 DEF ProperFits, ProperCallSigns, AtReturn, ChallengeStep, SignStep

LEMMA ProperCommit ==
    ASSUME SessionsInv, CommitInv, MemoryFits, ProperFits, ProperStepsOn,
           StartCommit \/ CommitCode \/ AuthorizeCommit \/ BridgeCommit
    PROVE  ProperFits'
  <1>1. /\ sessions \in [SessionHandle -> Session \cup {NoSession}]
        /\ pc \in CommittingStep /\ pc # "idle"
        /\ op' = op /\ op \in {"Challenge", "Sign"}
        /\ UNCHANGED <<signSession, signNonce, nonceSig, credential, daaKey>>
    BY DEF SessionsInv, SessionsTypeOK, ProperFits, ProperStepsOn, StartCommit, CommitCode,
           AuthorizeCommit, BridgeCommit, CommittingStep
  <1>2. /\ pc \in SignStep /\ ReadyCall /\ RoomFits /\ AnswersFit /\ FreeSlots # {}
        /\ tickets = Approved /\ (op = "Challenge" => activated)
    BY <1>1 DEF ProperFits, ProperStepsOn, CommittingStep, SignStep, RoomFits, AnswersFit
  <1>3. /\ signSession \in SessionHandle /\ Loaded(signSession)
        /\ sessions[signSession] = FreshSession(signNonce)
    BY <1>1, <1>2 DEF ReadyCall, ReadyToSign, SignDigest, CommittingStep, FreshSession, NoSession, Loaded
  <1>4. /\ sessions'[signSession] = sessions[signSession]
        /\ UNCHANGED <<objects, pcrs, walletSigned, tickets, activated>>
        /\ pc' \in {"commitCode", "authorizeCommit", "commit", "loadWallet"}
        /\ pc' # "loadWallet" => ReadyToCommit'
        /\ pc' = "loadWallet" => count' # Unset
    <2>1. CASE StartCommit
      <3>1. pc = "startCommit" /\ pc' = "commitCode" /\ FreeSessions # {}
            /\ UNCHANGED <<objects, pcrs, walletSigned, tickets, activated>>
        BY <1>2, <2>1, OpenSessionStep
        DEF StartCommit, Goto, RoomFits, StartAuthSession, globalVars, objectVars, sessionVars
      <3>2. PICK h \in SessionHandle \cup {NoHandle} :
                OpenSession(h) /\ session' \in Received(h, SessionHandle)
        BY <2>1 DEF StartCommit
      <3>3. /\ h \in SessionHandle /\ ~ Loaded(h)
            /\ sessions' = [sessions EXCEPT ![h] = FreshSession(nonceCount + 1)]
        BY <3>1, <3>2 DEF OpenSession, StartAuthSession, FreeSessions
      <3>4. session' = h
        BY <3>2, <3>3, Handles DEF Received
      <3>5. h # signSession
        BY <1>3, <3>3
      <3>6. sessions'[h] = FreshSession(nonceCount + 1)
        BY <1>1, <3>3
      <3>7. ReadyToCommit'
        BY <1>1, <3>1, <3>3, <3>4, <3>5, <3>6 DEF ReadyToCommit, Loaded, FreshSession, NoSession
      <3> QED
        BY <1>1, <3>1, <3>3, <3>5, <3>7
    <2>2. CASE CommitCode
      <3>1. pc = "commitCode" /\ pc' = "authorizeCommit" /\ session' = session
            /\ UNCHANGED <<objects, pcrs, walletSigned, tickets, activated>>
        BY <2>2 DEF CommitCode, Goto, SessionCommand, PolicyCommandCode, globalVars, localVars, tpmVars,
                    objectVars, sessionVars
      <3> DEFINE old == sessions[session]
                 new == [old EXCEPT !.digest = Extend(@, "PolicyCommandCode"), !.commandCode = "Commit"]
      <3>2. /\ session \in SessionHandle \ {signSession} /\ Loaded(session) /\ old \in Session
            /\ old.pcrCounter = 0 /\ old.digest = "zero" /\ old.commandCode = "none"
        BY <1>1, <1>2, <3>1 DEF AnswersFit, ReadyToCommit, CommittingStep, Loaded
      <3>3. PolicyCommandCode(session, "Commit")
        BY <2>2, <3>2 DEF CommitCode, SessionCommand, CanPolicyCommandCode
      <3>4. sessions' = [sessions EXCEPT ![session] = new]
        BY <3>2, <3>3 DEF PolicyCommandCode, Session
      <3>5. /\ new.digest = "commitCode" /\ new.pcrCounter = 0 /\ new.commandCode = "Commit"
            /\ new # NoSession
        BY <3>2 DEF Session, Extend, NoSession
      <3> HIDE DEF new
      <3>6. ReadyToCommit'
        BY <1>1, <3>1, <3>2, <3>4, <3>5 DEF ReadyToCommit, Loaded
      <3> QED
        BY <3>1, <3>2, <3>4, <3>6
    <2>3. CASE AuthorizeCommit
      <3>1. pc = "authorizeCommit" /\ pc' = "commit" /\ session' = session
            /\ UNCHANGED <<objects, pcrs, walletSigned, tickets, activated>>
        BY <2>3 DEF AuthorizeCommit, Authorize, Goto, SessionCommand, PolicyAuthorize, globalVars, localVars,
                    tpmVars, objectVars, sessionVars
      <3> DEFINE old == sessions[session]
                 new == [old EXCEPT !.digest = "authorized"]
      <3>2. /\ session \in SessionHandle \ {signSession} /\ Loaded(session) /\ old \in Session
            /\ old.pcrCounter = 0 /\ old.digest = "commitCode" /\ old.commandCode = "Commit"
        BY <1>1, <1>2, <3>1 DEF AnswersFit, ReadyToCommit, CommittingStep, Loaded
      <3>3. PolicyAuthorize(session, "commitCode", "commitCode")
        BY <1>2, <2>3, <3>2 DEF AuthorizeCommit, Authorize, SessionCommand, CanPolicyAuthorize, Approved
      <3>4. sessions' = [sessions EXCEPT ![session] = new]
        BY <3>2, <3>3 DEF PolicyAuthorize, Session
      <3>5. /\ new.digest = "authorized" /\ new.pcrCounter = 0 /\ new.commandCode = "Commit"
            /\ new # NoSession
        BY <3>2 DEF Session, NoSession
      <3> HIDE DEF new
      <3>6. ReadyToCommit'
        BY <1>1, <3>1, <3>2, <3>4, <3>5 DEF ReadyToCommit, Loaded
      <3> QED
        BY <3>1, <3>2, <3>4, <3>6
    <2>4. CASE BridgeCommit
      <3>1. pc = "commit" /\ pc' = "loadWallet" /\ UNCHANGED <<tickets, activated>>
        BY <2>4 DEF BridgeCommit, Goto, globalVars
      <3>2. /\ session \in SessionHandle \ {signSession} /\ Loaded(session)
            /\ sessions[session].pcrCounter = 0 /\ sessions[session].digest = "authorized"
            /\ sessions[session].commandCode = "Commit"
        BY <1>2, <3>1 DEF AnswersFit, ReadyToCommit, CommittingStep
      <3>3. CanCommit(daaKey, session) /\ (op = "Sign" => credential)
        BY <1>2, <3>2 DEF CanCommit, CheckPolicyAuthSession, PCRValueIsCurrent, ReadyCall
      <3>4. Commit(daaKey, session) /\ count' = commitCounter % CountRange
        BY <2>4, <3>3 DEF BridgeCommit
      <3>5. count' # Unset
        BY <3>4, DivMod, CommitAssumption DEF CommitInv, CommitTypeOK, Unset
      <3>6. /\ sessions' = [sessions EXCEPT ![session] = NoSession]
            /\ UNCHANGED <<objects, pcrs, walletSigned>>
        BY <3>4 DEF Commit, UseSession, objectVars
      <3> QED
        BY <3>1, <3>2, <3>5, <3>6
    <2> QED
      BY <1>1, <2>1, <2>2, <2>3, <2>4
  <1>5. ReadyToSign'
    BY <1>1, <1>3, <1>4 DEF ReadyToSign, SignDigest, FreshSession
  <1>6. ReadyCall'
    BY <1>1, <1>2, <1>4, <1>5 DEF ReadyCall, KeyAt
  <1>7. RoomFits' /\ AnswersFit'
    BY <1>1, <1>2, <1>4 DEF RoomFits, AnswersFit, FreeSlots, ChallengeStep, CommittingStep, SigningStep, SignStep
  <1> QED
    BY <1>1, <1>4, <1>6, <1>7 DEF ProperFits, ProperCallSigns, AtReturn, SignStep

LEMMA ProperSign ==
    ASSUME SessionsInv, MemoryFits, ProperFits, ProperStepsOn,
           LoadWallet \/ BridgePolicySigned \/ BridgePolicyPCR \/ FlushWallet \/ AuthorizeSign
    PROVE  ProperFits'
  <1>1. /\ sessions \in [SessionHandle -> Session \cup {NoSession}]
        /\ objects \in [ObjectHandle -> Slot]
        /\ pc \in {"loadWallet"} \cup SigningStep /\ pc # "idle"
        /\ op' = op /\ op \in {"Challenge", "Sign"}
        /\ UNCHANGED <<signSession, signNonce, nonceSig, credential, daaKey>>
    BY DEF SessionsInv, SessionsTypeOK, MemoryFits, ProperFits, ProperStepsOn, LoadWallet,
           BridgePolicySigned, BridgePolicyPCR, FlushWallet, AuthorizeSign, SigningStep
  <1>2. /\ pc \in SignStep /\ ReadyCall /\ RoomFits /\ AnswersFit
        /\ tickets = Approved /\ (op = "Challenge" => activated) /\ count # Unset
    BY <1>1 DEF ProperFits, ProperStepsOn, SigningStep, SignStep, AnswersFit
  <1> DEFINE old == sessions[signSession]
  <1>3. /\ signSession \in SessionHandle /\ Loaded(signSession) /\ old \in Session
        /\ old.nonce = signNonce /\ old.digest = SignDigest /\ old.commandCode = "none"
        /\ old.pcrCounter = IF pc \in {"flushWallet", "authorizeSign", "sign"} THEN pcrCounter ELSE 0
    <2>1. old.digest # "none" /\ old.digest = SignDigest
      BY <1>2 DEF ReadyCall, ReadyToSign, SignDigest
    <2>2. NoSession.digest = "none"
      BY DEF NoSession
    <2> QED
      BY <1>1, <1>2, <2>1, <2>2 DEF ReadyCall, ReadyToSign, Loaded
  <1>4. /\ UNCHANGED <<pcrs, walletSigned, tickets, activated, count>>
        /\ KeyAt(daaKey)' = "daa" /\ ReadyToSign'
        /\ pc' \in SigningStep
        /\ pc' \in {"policySigned", "policyPCR", "flushWallet"} => KeyAt(loaded)' = "wallet"
    <2>1. CASE LoadWallet
      <3>1. /\ pc = "loadWallet" /\ pc' = "policySigned" /\ FreeSlots # {}
            /\ UNCHANGED <<tickets, activated, count>>
        BY <1>2, <2>1 DEF LoadWallet, Goto, RoomFits, globalVars
      <3>2. /\ KeyAt(loaded)' = "wallet" /\ objects'[daaKey] = "daa" /\ daaKey \in ObjectHandle
            /\ UNCHANGED sessionVars
        BY <1>1, <1>2, <2>1, <3>1, LoadOwnKey DEF LoadWallet, ReadyCall
      <3>3. ReadyToSign'
        BY <1>1, <1>2, <3>1, <3>2 DEF ReadyCall, ReadyToSign, SignDigest, sessionVars
      <3> QED
        BY <1>1, <3>1, <3>2, <3>3 DEF KeyAt, SigningStep, sessionVars
    <2>2. CASE BridgePolicySigned
      <3>1. /\ pc = "policySigned" /\ pc' = "policyPCR"
            /\ UNCHANGED <<objects, pcrs, walletSigned, tickets, activated, count, loaded>>
        BY <2>2 DEF BridgePolicySigned, SignedByWallet, Goto, SessionCommand, PolicySigned, globalVars,
                    localVars, tpmVars, objectVars, sessionVars
      <3>2. KeyAt(loaded) = "wallet" /\ old.digest = "zero" /\ old.pcrCounter = 0
        BY <1>2, <1>3, <3>1 DEF AnswersFit, SignDigest
      <3>3. CanPolicySigned(signSession, signNonce, nonceSig)
        BY <1>2, <1>3 DEF CanPolicySigned, ReadyCall
      <3>4. PolicySigned(signSession, signNonce, nonceSig)
        BY <2>2, <3>2, <3>3 DEF BridgePolicySigned, SignedByWallet, SessionCommand
      <3>5. sessions' = [sessions EXCEPT ![signSession] = [old EXCEPT !.digest = "signed"]]
        BY <1>3, <3>2, <3>4 DEF PolicySigned, Session, Extend
      <3>6. sessions'[signSession] =
                [nonce |-> signNonce, digest |-> "signed", commandCode |-> "none", pcrCounter |-> 0]
        BY <1>1, <1>3, <3>2, <3>5 DEF Session
      <3>7. ReadyToSign'
        BY <1>1, <1>3, <3>1, <3>6 DEF ReadyToSign, SignDigest
      <3> QED
        BY <1>1, <1>2, <3>1, <3>2, <3>7 DEF ReadyCall, KeyAt, SigningStep
    <2>3. CASE BridgePolicyPCR
      <3>1. /\ pc = "policyPCR" /\ pc' = "flushWallet"
            /\ UNCHANGED <<objects, pcrs, pcrCounter, walletSigned, tickets, activated, count, loaded>>
        BY <2>3 DEF BridgePolicyPCR, Goto, SessionCommand, PolicyPCR, globalVars,
                    localVars, tpmVars, objectVars, sessionVars
      <3>2. KeyAt(loaded) = "wallet" /\ old.digest = "signed" /\ old.pcrCounter = 0
        BY <1>2, <1>3, <3>1 DEF AnswersFit, SignDigest
      <3>3. PolicyPCR(signSession) /\ pcrs = "approved"
        BY <1>2, <1>3, <2>3, <3>2
        DEF BridgePolicyPCR, SessionCommand, CanPolicyPCR, PCRValueIsCurrent, ReadyCall
      <3>4. sessions' = [sessions EXCEPT ![signSession] =
                           [old EXCEPT !.digest = "signedPcr", !.pcrCounter = pcrCounter]]
        BY <1>3, <3>2, <3>3 DEF PolicyPCR, Session, Extend
      <3>5. sessions'[signSession] =
                [nonce |-> signNonce, digest |-> "signedPcr", commandCode |-> "none", pcrCounter |-> pcrCounter]
        BY <1>1, <1>3, <3>2, <3>4 DEF Session
      <3>6. ReadyToSign'
        BY <1>1, <1>3, <3>1, <3>5 DEF ReadyToSign, SignDigest
      <3> QED
        BY <1>1, <1>2, <3>1, <3>2, <3>6 DEF ReadyCall, KeyAt, SigningStep
    <2>4. CASE FlushWallet
      <3>1. /\ pc = "flushWallet" /\ pc' = "authorizeSign" /\ KeyAt(loaded) = "wallet"
            /\ UNCHANGED <<tickets, activated, count>>
        BY <1>2, <2>4 DEF FlushWallet, Goto, AnswersFit, globalVars
      <3>2. /\ objects'[daaKey] = "daa" /\ daaKey \in ObjectHandle
            /\ UNCHANGED sessionVars
        BY <1>1, <1>2, <2>4, <3>1, FlushOwnKey DEF FlushWallet, ReadyCall, PublicKey
      <3>3. ReadyToSign'
        BY <1>1, <1>2, <3>1, <3>2 DEF ReadyCall, ReadyToSign, SignDigest, sessionVars
      <3> QED
        BY <1>1, <3>1, <3>2, <3>3 DEF KeyAt, SigningStep, sessionVars
    <2>5. CASE AuthorizeSign
      <3>1. /\ pc = "authorizeSign" /\ pc' = "sign"
            /\ UNCHANGED <<objects, pcrs, pcrCounter, walletSigned, tickets, activated, count>>
        BY <2>5 DEF AuthorizeSign, Authorize, Goto, SessionCommand, PolicyAuthorize, globalVars,
                    localVars, tpmVars, objectVars, sessionVars
      <3>2. old.digest = "signedPcr" /\ old.pcrCounter = pcrCounter
        BY <1>3, <3>1 DEF SignDigest
      <3>3. PolicyAuthorize(signSession, "signedPcr", "signedPcr")
        BY <1>2, <1>3, <2>5, <3>2 DEF AuthorizeSign, Authorize, SessionCommand, CanPolicyAuthorize, Approved
      <3>4. sessions' = [sessions EXCEPT ![signSession] = [old EXCEPT !.digest = "authorized"]]
        BY <1>3, <3>3 DEF PolicyAuthorize, Session
      <3>5. sessions'[signSession] =
                [nonce |-> signNonce, digest |-> "authorized", commandCode |-> "none", pcrCounter |-> pcrCounter]
        BY <1>1, <1>3, <3>2, <3>4 DEF Session
      <3>6. ReadyToSign'
        BY <1>1, <1>3, <3>1, <3>5 DEF ReadyToSign, SignDigest
      <3> QED
        BY <1>1, <1>2, <3>1, <3>6 DEF ReadyCall, KeyAt, SigningStep
    <2> QED
      BY <1>1, <2>1, <2>2, <2>3, <2>4, <2>5
  <1>5. ReadyCall'
    BY <1>1, <1>2, <1>4 DEF ReadyCall
  <1>6. RoomFits' /\ AnswersFit'
    BY <1>1, <1>2, <1>4 DEF RoomFits, AnswersFit, ChallengeStep, CommittingStep, SigningStep, SignStep
  <1> QED
    BY <1>1, <1>4, <1>5, <1>6 DEF ProperFits, ProperCallSigns, AtReturn, SignStep, SigningStep

\* TPM2_Sign of a proper call succeeds.
LEMMA ProperResult ==
    ASSUME CommitInv, CommitmentFits, ProperFits, proper, roomy, BridgeSign
    PROVE  ProperCallSigns'
  <1>1. /\ pc = "sign" /\ op' = op /\ activated' = activated /\ ReadyCall /\ AnswersFit
    BY DEF BridgeSign, ProperFits
  <1>2. /\ KeyAt(daaKey) = "daa" /\ count # Unset /\ (op = "Challenge" => activated)
        /\ signSession \in SessionHandle
        /\ sessions[signSession] = [nonce |-> signNonce, digest |-> "authorized", commandCode |-> "none",
                                    pcrCounter |-> pcrCounter]
    BY <1>1 DEF ReadyCall, ReadyToSign, SignDigest, AnswersFit, SignStep, SigningStep
  <1>3. CheckPolicyAuthSession(signSession, "Sign")
    BY <1>2 DEF CheckPolicyAuthSession, PCRValueIsCurrent, Loaded, NoSession
  <1>4. AcceptsCount(count)
    BY <1>2, LastCount DEF CommitmentFits
  <1>5. result' = "signed"
    BY <1>2, <1>3, <1>4 DEF BridgeSign, CanSign
  <1> QED
    BY <1>1, <1>2, <1>5 DEF ProperCallSigns

LEMMA ProperStep ==
    ASSUME SessionsInv, CommitInv, MemoryFits, SetupFits, CommitmentFits, ProperFits, [Next]_vars
    PROVE  ProperFits'
  <1>1. CASE CallNext
    BY <1>1, ProperCalls DEF MemoryFits
  <1>2. CASE StepNext
    <2> SUFFICES ASSUME proper', roomy' PROVE ProperFits'
      BY DEF ProperFits
    <2>1. proper /\ roomy /\ op' = op
      BY <1>2 DEF StepNext, CreateEk, Persist, Unpersist, PersistAgain, FlushEk, RequestNonce, LoadIssuer,
         Verify, FlushIssuer, Activate, ActivateFull, FlushDaa, StartCommit, CommitCode, AuthorizeCommit,
         BridgeCommit, LoadWallet, BridgePolicySigned, BridgePolicyPCR, FlushWallet, AuthorizeSign,
         BridgeSign, Goto, historyVars
    <2>2. pc \in ChallengeStep \cup SignStep \cup {"idle"}
      BY <2>1 DEF ProperFits
    <2>3. CASE LoadIssuer \/ Verify \/ FlushIssuer \/ Activate
      <3>1. ProperStepsOn
        BY <2>1, <2>3 DEF ProperStepsOn, LoadIssuer, Verify, FlushIssuer, Activate, Goto, globalVars
      <3> QED
        BY <2>3, <3>1, ProperChallenge
    <2>4. CASE StartCommit \/ CommitCode \/ AuthorizeCommit \/ BridgeCommit
      <3>1. ProperStepsOn
        BY <2>1, <2>4 DEF ProperStepsOn, StartCommit, CommitCode, AuthorizeCommit, BridgeCommit, Goto, globalVars
      <3> QED
        BY <2>4, <3>1, ProperCommit
    <2>5. CASE LoadWallet \/ BridgePolicySigned \/ BridgePolicyPCR \/ FlushWallet \/ AuthorizeSign
      <3>1. ProperStepsOn
        BY <2>1, <2>5 DEF ProperStepsOn, LoadWallet, BridgePolicySigned, BridgePolicyPCR, FlushWallet,
           AuthorizeSign, Goto, globalVars
      <3> QED
        BY <2>5, <3>1, ProperSign
    <2>6. CASE BridgeSign
      <3>1. pc' = "idle" /\ op \in {"Challenge", "Sign"}
        BY <2>1, <2>6 DEF BridgeSign, ProperFits
      <3>2. RoomFits' /\ AnswersFit'
        BY <3>1 DEF RoomFits, AnswersFit, ChallengeStep, CommittingStep, SigningStep, SignStep
      <3> QED
        BY <2>1, <2>6, <3>1, <3>2, ProperResult DEF ProperFits
    <2>7. CASE \/ CreateEk \/ Persist \/ Unpersist \/ PersistAgain \/ FlushEk \/ RequestNonce
               \/ ActivateFull \/ FlushDaa
      <3>1. pc \in EnableStep \cup {"activateFull", "flushDaa"}
        BY <2>7 DEF CreateEk, Persist, Unpersist, PersistAgain, FlushEk, RequestNonce, ActivateFull,
                    FlushDaa, EnableStep
      <3> QED
        BY <2>2, <3>1 DEF EnableStep, ChallengeStep, SignStep
    <2> QED
      BY <1>2, <2>3, <2>4, <2>5, <2>6, <2>7 DEF StepNext
  <1>3. CASE Wallet
    <2>1. /\ pc = "idle" /\ UNCHANGED <<pc, op, historyVars, activated>>
      BY <1>3 DEF Wallet, localVars
    <2> QED
      BY <2>1 DEF ProperFits, RoomFits, AnswersFit, ProperCallSigns, AtReturn, historyVars,
                  ChallengeStep, CommittingStep, SigningStep, SignStep
  <1>4. CASE (\E b \in BOOLEAN : Extends(b)) \/ Crash
    BY <1>4 DEF Extends, Crash, Forgotten, ProperFits
  <1>5. CASE UNCHANGED vars
    BY <1>5 DEF vars, tpmVars, sessionVars, objectVars, globalVars, localVars, historyVars, ProperFits,
       ReadyCall, ReadyToSign, SignDigest, RoomFits, AnswersFit, ReadyToCommit, ProperCallSigns, AtReturn,
       KeyAt, FreeSlots, FreeSessions, Loaded
  <1> QED
    BY <1>1, <1>2, <1>3, <1>4, <1>5 DEF Next

-----------------------------------------------------------------------------
(* The theorems.                                                           *)

LEMMA BridgeInitInv == Init => SessionsInv /\ CommitInv /\ SavedIsExact /\ BridgeInv
  <1> SUFFICES ASSUME Init PROVE SessionsInv /\ CommitInv /\ SavedIsExact /\ BridgeInv
    OBVIOUS
  <1>1. SessionsInv /\ CommitInv /\ SavedIsExact
    BY InitInv, CommitInitInv DEF Init, TpmInit
  <1>2. /\ objects = [k \in ObjectHandle |-> "none"] /\ persistent = "none"
        /\ sessions = [h \in SessionHandle |-> NoSession]
    BY DEF Init, TpmInit, SessionsInit
  <1>3. MemoryFits
    BY <1>2 DEF Init, MemoryFits, Slot
  <1>4. SetupFits /\ PublicKeysFit
    BY <1>2 DEF Init, SetupFits, EnableHeals, AtReturn, EnableStep, PublicKeysFit
  <1>5. ConsentFits
    BY <1>2 DEF Init, ConsentFits, NoPcrsYet, SignedFits, ProofFits, ResultFits,
                SignatureUsesCallersConsent, MadeSignature, AtReturn, Loaded
  <1>6. CommitmentFits /\ ProperFits
    BY DEF Init, CommitmentFits, AnswersOwn, MadeSignature, AtReturn, ProperFits
  <1> QED
    BY <1>1, <1>3, <1>4, <1>5, <1>6 DEF BridgeInv

\* Whatever fails and whenever the application dies, the TPM and the bridge stay
\* within what their invariants say.
THEOREM BridgeInvariant == Spec => [](SessionsInv /\ CommitInv /\ SavedIsExact /\ BridgeInv)
  <1> DEFINE Inv == SessionsInv /\ CommitInv /\ SavedIsExact /\ BridgeInv
  <1>1. Init => Inv
    BY BridgeInitInv
  <1>2. Inv /\ [Next]_vars => Inv'
    <2> SUFFICES ASSUME Inv, [Next]_vars PROVE Inv'
      OBVIOUS
    <2>1. SessionsInv' /\ CommitInv' /\ SavedIsExact'
      BY TpmStep, SessionsStep, CommitStep DEF BridgeInv, MemoryFits
    <2>2. MemoryFits' /\ SetupFits' /\ PublicKeysFit'
      BY MemoryStep, SetupStep, PublicKeysStep DEF BridgeInv
    <2>3. ConsentFits' /\ CommitmentFits' /\ ProperFits'
      BY ConsentStep, CommitmentStep, ProperStep DEF BridgeInv, ConsentFits
    <2> QED
      BY <2>1, <2>2, <2>3 DEF BridgeInv
  <1> QED
    BY <1>1, <1>2, PTL DEF Spec

\* The bridge only does to the sessions of its TPM what the TPM's own
\* specification allows: what holds of every user of the sessions holds here.
THEOREM BridgeUsesSessions == Spec => SessionsSpec
  <1>1. Init => SessionsInit
    BY DEF Init, TpmInit
  <1>2. SessionsInv /\ CommitInv /\ BridgeInv /\ [Next]_vars => [SessionsNext]_sessionVars
    BY TpmStep DEF BridgeInv, MemoryFits
  <1> QED
    BY <1>1, <1>2, BridgeInvariant, PTL DEF Spec, SessionsSpec

\* The same for the commitments.
THEOREM BridgeUsesCommitments == Spec => CommitSpec
  <1>1. Init => CommitInit
    BY DEF Init, TpmInit
  <1>2. SessionsInv /\ CommitInv /\ BridgeInv /\ [Next]_vars => [CommitNext]_commitVars
    BY TpmStep DEF BridgeInv, MemoryFits
  <1> QED
    BY <1>1, <1>2, BridgeInvariant, PTL DEF Spec, CommitSpec

\* So the attestation key of the bridge keeps its promise, and no two of its
\* signatures are made from one commitment.
THEOREM BridgeKeepsPromise == Spec => AttestationSpec /\ []OneSignaturePerCommitment
  BY BridgeUsesSessions, BridgeUsesCommitments, KeepsPromise, OneSignature, PTL

\* A setup heals whatever the death of the application left behind.
THEOREM SetupHeals == Spec => []EnableHeals
  BY BridgeInvariant, PTL DEF BridgeInv, SetupFits

\* No public key of a call outlives it.
THEOREM PublicKeysGo == Spec => []ExternalKeysDoNotLeak
  <1>1. BridgeInv => ExternalKeysDoNotLeak
    BY DEF BridgeInv, PublicKeysFit, ExternalKeysDoNotLeak, AtReturn
  <1> QED
    BY <1>1, BridgeInvariant, PTL

\* A call that signs was itself given the wallet's consent.
THEOREM CallersConsent == Spec => []SignatureUsesCallersConsent
  BY BridgeInvariant, PTL DEF BridgeInv, ConsentFits

\* A signature answers a commitment that no signature answered before, and the
\* one that its own call made; where TPM2_Commit failed and memory that no one
\* wrote may hold what was there (Leftovers), another that was open.
THEOREM OwnCommitment == Spec => []SignUsesItsOwnCommitment
  <1>1. CommitInv /\ CommitmentFits => SignUsesItsOwnCommitment
    <2> SUFFICES ASSUME CommitInv, CommitmentFits, MadeSignature
                 PROVE  /\ \A i \in 1 .. Len(signedWith) - 1 :
                               signedWith[i] # signedWith[Len(signedWith)]
                        /\ \/ /\ result = "signed"
                              /\ signedWith[Len(signedWith)] = <<commitNonce, commitCounter - 1>>
                           \/ result = "signedBlind" /\ Leftovers
      BY DEF SignUsesItsOwnCommitment
    <2>1. signedWith \in Seq(Nat \X Nat) /\ OneSignaturePerCommitment
      BY DEF CommitInv, CommitTypeOK
    <2>2. ASSUME NEW i \in 1 .. Len(signedWith) - 1
          PROVE  signedWith[i] # signedWith[Len(signedWith)]
      <3>1. Len(signedWith) \in Nat
        BY <2>1
      <3>2. /\ i \in 1 .. Len(signedWith)
            /\ Len(signedWith) \in 1 .. Len(signedWith)
            /\ i # Len(signedWith)
        BY <3>1
      <3> QED
        BY <2>1, <3>2 DEF OneSignaturePerCommitment
    <2> QED
      BY <2>2 DEF CommitmentFits, AnswersOwn
  <1> QED
    BY <1>1, BridgeInvariant, PTL DEF BridgeInv

\* A call that was asked for as the API wants it succeeds, whatever was before.
THEOREM ProperSuccess == Spec => []ProperCallSigns
  <1>1. ProperFits => ProperCallSigns
    BY DEF ProperFits, ProperCallSigns
  <1> QED
    BY <1>1, BridgeInvariant, PTL DEF BridgeInv
=============================================================================

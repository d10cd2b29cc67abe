-------------------------------- MODULE Join --------------------------------
(***************************************************************************)
(* The join: clients that get a credential from the test issuer.           *)
(*                                                                         *)
(* The bridge of a client creates the key and sends it with the EK; the    *)
(* issuer answers with a challenge that only the TPM with this EK and this *)
(* key can open; the client answers with what was in it, under a signature *)
(* by the key; the issuer sends the credential, encrypted with a second    *)
(* key in a second challenge.  All messages are JSON strings that the      *)
(* application carries: they may be lost, repeated and late.               *)
(*                                                                         *)
(* The issuer serves one call after the other and keeps one registration,  *)
(* that of the last call, in globals.  It logs what is wrong with a        *)
(* response and goes on.  Where a TPM command may fail, so may a client.   *)
(* In the demo the issuer is in the process of its client: when one dies,  *)
(* the other does, which is two steps here.                                *)
(***************************************************************************)
EXTENDS Naturals, Sequences, FiniteSets

CONSTANTS
    Client,
    NoKey,
    MaxKeys,        \* bound: keys drawn by the issuer
    MaxMessages     \* bound: different messages that are sent

VARIABLES
    network,        \* every message that was ever sent
    loaded,         \* policy of the key behind daa_key_p.objectHandle
    public,         \* policy of the key in daa_key_p.outPublic
    template,       \* policy in daaTemplate
    learned,        \* what the client's TPM took out of challenges
    credential,     \* the key whose credential the client has
    stored,         \* daa_stored, ek_stored, daa_name: the last registration
    credentialKey,  \* credentialKey_local
    drawn,          \* how many credential keys were drawn
    accepted,       \* history: the keys that were stored
    issued          \* history: each credential, its encryption, and whether the
                    \* response it answers proved what it should

clientVars == <<loaded, public, template, learned, credential>>
issuerVars == <<stored, credentialKey, drawn, accepted, issued>>
vars == <<network, clientVars, issuerVars>>

Policy == {"issuer", "other"}
NoPolicy == "none"
Key == [owner : Client, policy : Policy]
KeyOf(c, policy) == [owner |-> c, policy |-> policy]
Secret == 1 .. MaxKeys
NoSecret == 0       \* bytes that are no credential key

ASSUME JoinAssumption == {MaxKeys, MaxMessages} \subseteq Nat \ {0} /\ NoKey \notin Key

\* A registration is by the client whose EK it names.  A challenge can be opened
\* by the TPM that holds the key.  A proof is a signature by the key, over the
\* credential key and the EK of the signer; without one the set is empty.
Registration == [type : {"registration"}, key : Key]
Challenge == [type : {"challenge"}, to : Client, key : Key, secret : Secret]
Proof == [key : Key, secret : Secret \cup {NoSecret}]
Response == [type : {"response"}, from : Client, secret : Secret \cup {NoSecret}, proof : SUBSET Proof]
Credential == [type : {"credential"}, to : Client, key : Key, secret : Secret, for : Key, under : Secret]
Message == Registration \cup Challenge \cup Response \cup Credential

JoinTypeOK ==
    /\ network \subseteq Message
    /\ loaded \in [Client -> Policy \cup {NoPolicy}]
    /\ public \in [Client -> Policy]
    /\ template \in [Client -> Policy \cup {NoPolicy}]
    /\ learned \in [Client -> SUBSET Secret]
    /\ credential \in [Client -> Key \cup {NoKey}]
    /\ stored \in Key \cup {NoKey}
    /\ credentialKey \in Secret \cup {NoSecret}
    /\ drawn \in 0 .. MaxKeys
    /\ accepted \subseteq Key
    /\ issued \in Seq([key : Key, under : Secret, proven : BOOLEAN])

Send(m) ==
    /\ network' = network \cup {m}
    /\ Cardinality(network') <= MaxMessages

-----------------------------------------------------------------------------
(* The client. *)

\* The key is bound to the issuer's key in the file, which need not be that of
\* the issuer.  Without a key the old public area is registered.
CreateKey(c, policy) ==
    /\ template' = [template EXCEPT ![c] = policy]
    /\ \/ /\ loaded' = [loaded EXCEPT ![c] = policy]
          /\ public' = [public EXCEPT ![c] = policy]
       \/ UNCHANGED <<loaded, public>>
    /\ Send([type |-> "registration", key |-> KeyOf(c, public'[c])])
    /\ UNCHANGED <<learned, credential, issuerVars>>

\* Mutant of CanActivate: the name of the key is not checked.
CanActivateAnyKey(c, m) == loaded[c] # NoPolicy

\* TPM2_ActivateCredential: the EK is the client's, the name is that of the key.
CanActivate(c, m) == loaded[c] # NoPolicy /\ m.key = KeyOf(c, loaded[c])

\* The signature needs the issuer's policy; its key is in the response as it is
\* in memory, also if nothing was written there.
HandleChallenge(c, m) ==
    /\ m \in network /\ m.type = "challenge" /\ m.to = c
    /\ \E activated \in {FALSE, CanActivate(c, m)}, signs \in {FALSE, loaded[c] = "issuer"} :
       \E s \in IF activated THEN {m.secret} ELSE learned[c] \cup {NoSecret} :
          /\ learned' = [learned EXCEPT ![c] = @ \cup IF activated THEN {s} ELSE {}]
          /\ Send([type |-> "response", from |-> c, secret |-> s,
                   proof |-> IF signs THEN {[key |-> KeyOf(c, "issuer"), secret |-> s]} ELSE {}])
    /\ UNCHANGED <<loaded, public, template, credential, issuerVars>>

\* Decryption under the wrong key is no credential.  The key is flushed.
HandleCredential(c, m) ==
    /\ m \in network /\ m.type = "credential" /\ m.to = c
    /\ \E activated \in {FALSE, CanActivate(c, m)} :
       \E s \in IF activated THEN {m.secret} ELSE learned[c] \cup {NoSecret} :
          /\ learned' = [learned EXCEPT ![c] = @ \cup IF activated THEN {s} ELSE {}]
          /\ credential' = [credential EXCEPT ![c] = IF s = m.under THEN m.for ELSE NoKey]
    /\ loaded' = [loaded EXCEPT ![c] = NoPolicy]
    /\ UNCHANGED <<network, public, template, issuerVars>>

\* execute_daa_sign creates the key again.
DaaSign(c) ==
    /\ template[c] # NoPolicy
    /\ loaded' = [loaded EXCEPT ![c] = template[c]]
    /\ public' = [public EXCEPT ![c] = template[c]]
    /\ UNCHANGED <<network, template, learned, credential, issuerVars>>

Restart(c) ==
    /\ loaded' = [loaded EXCEPT ![c] = NoPolicy]
    /\ public' = [public EXCEPT ![c] = "other"]
    /\ template' = [template EXCEPT ![c] = NoPolicy]
    /\ learned' = [learned EXCEPT ![c] = {}]
    /\ credential' = [credential EXCEPT ![c] = NoKey]
    /\ UNCHANGED <<network, issuerVars>>

-----------------------------------------------------------------------------
(* The issuer. *)

IssuerExit ==
    /\ stored' = NoKey
    /\ credentialKey' = NoSecret
    /\ UNCHANGED <<network, clientVars, drawn, accepted, issued>>

PolicyIsRight(key) == key.policy = "issuer"

\* make_credential_data: a random key, that no one drew before.
DrawKey ==
    /\ drawn < MaxKeys
    /\ drawn' = drawn + 1
    /\ credentialKey' = drawn'

\* send_issuer_registration and daa_initiate_join.
Register(m) ==
    /\ m \in network /\ m.type = "registration"
    /\ PolicyIsRight(m.key)
    /\ stored' = m.key
    /\ accepted' = accepted \cup {m.key}
    /\ DrawKey
    /\ Send([type |-> "challenge", to |-> m.key.owner, key |-> m.key, secret |-> credentialKey'])
    /\ UNCHANGED <<clientVars, issued>>

RefuseRegistration(m) ==
    /\ m \in network /\ m.type = "registration"
    /\ ~ PolicyIsRight(m.key)
    /\ IssuerExit

\* What daa_on_host_response compares, and then goes on.
Proves(m) ==
    /\ m.secret = credentialKey
    /\ m.proof = {[key |-> stored, secret |-> m.secret]}

\* Mutant of Respond: the credential is encrypted before the new key is drawn.
RespondWithOldKey(m) ==
    /\ m \in network /\ m.type = "response"
    /\ stored # NoKey
    /\ DrawKey
    /\ issued' = Append(issued, [key |-> stored, under |-> credentialKey, proven |-> Proves(m)])
    /\ Send([type |-> "credential", to |-> m.from, key |-> stored, secret |-> credentialKey',
             for |-> stored, under |-> credentialKey])
    /\ UNCHANGED <<clientVars, stored, accepted>>

\* send_challenge_response and daa_on_host_response.  The key in globals, and the
\* registration, are those of the last call, whoever made it.
Respond(m) ==
    /\ m \in network /\ m.type = "response"
    /\ stored # NoKey
    /\ DrawKey
    /\ issued' = Append(issued, [key |-> stored, under |-> credentialKey', proven |-> Proves(m)])
    /\ Send([type |-> "credential", to |-> m.from, key |-> stored, secret |-> credentialKey',
             for |-> stored, under |-> credentialKey'])
    /\ UNCHANGED <<clientVars, stored, accepted>>

\* Nothing is stored, and RSA encryption fails.
RefuseResponse(m) ==
    /\ m \in network /\ m.type = "response"
    /\ stored = NoKey
    /\ IssuerExit

-----------------------------------------------------------------------------
Init ==
    /\ network = {}
    /\ loaded = [c \in Client |-> NoPolicy]
    /\ public = [c \in Client |-> "other"]
    /\ template = [c \in Client |-> NoPolicy]
    /\ learned = [c \in Client |-> {}]
    /\ credential = [c \in Client |-> NoKey]
    /\ stored = NoKey
    /\ credentialKey = NoSecret
    /\ drawn = 0
    /\ accepted = {}
    /\ issued = <<>>

ClientNext(c) ==
    \/ \E policy \in Policy : CreateKey(c, policy)
    \/ \E m \in network : HandleChallenge(c, m) \/ HandleCredential(c, m)
    \/ DaaSign(c)
    \/ Restart(c)

IssuerNext ==
    \/ \E m \in network : Register(m) \/ RefuseRegistration(m) \/ Respond(m) \/ RefuseResponse(m)
    \/ IssuerExit

Next == IssuerNext \/ \E c \in Client : ClientNext(c)

Spec == Init /\ [][Next]_vars

-----------------------------------------------------------------------------
(* Properties. *)

\* No two credentials are encrypted with the same key: encryptAES counts from
\* zero, and two credentials under one key would give each other away.  The key
\* of a first challenge, which the client sends back in the open, encrypts none.
KeyEncryptsOnce ==
    /\ \A i, j \in 1 .. Len(issued) : i # j => issued[i].under # issued[j].under
    /\ \A i \in 1 .. Len(issued), m \in network : m.type = "challenge" => m.secret # issued[i].under

\* However joins interleave, a client has no credential but one that was issued
\* for the key of its own TPM, under the issuer's policy.
JoinPromise == INSTANCE Credentials WITH
    issued <- { issued[i].key : i \in 1 .. Len(issued) },
    holds <- credential

CredentialsSpec == JoinPromise!Spec

\* "The issuer verifies the host response and issues a credential".
ProofBeforeCredential == \A i \in 1 .. Len(issued) : issued[i].proven
=============================================================================

---------------------------- MODULE Join_proofs ----------------------------
(***************************************************************************)
(* No key of the issuer encrypts two credentials, and a client holds no    *)
(* credential but its own: for any number of clients, keys and messages.   *)
(***************************************************************************)
EXTENDS Join, TLAPS

Issued == { issued[i].key : i \in 1 .. Len(issued) }

\* A message of each type has the fields of its type.
LEMMA MessageFields ==
    ASSUME NEW m \in Message
    PROVE  /\ m.type = "registration" => m.key \in Key
           /\ m.type = "challenge" => m.to \in Client /\ m.key \in Key /\ m.secret \in Secret
           /\ m.type = "response" => m.from \in Client /\ m.secret \in Secret \cup {NoSecret}
           /\ m.type = "credential" =>
                /\ m.to \in Client /\ m.key \in Key /\ m.secret \in Secret
                /\ m.for \in Key /\ m.under \in Secret
BY DEF Message, Registration, Challenge, Response, Credential

-----------------------------------------------------------------------------
(* The inductive invariant.  That keys are drawn anew means nothing before  *)
(* every key in use is known to be among those drawn.  That a client only   *)
(* decrypts its own credential rests on what its TPM can take out of a      *)
(* challenge: a key it learned never encrypts another client's credential.  *)

KeysWereDrawn ==
    /\ \A i \in 1 .. Len(issued) : issued[i].under <= drawn
    /\ \A m \in network : m.type \in {"challenge", "credential"} => m.secret <= drawn
    /\ \A c \in Client : \A s \in learned[c] : s <= drawn

\* A credential answers for the registration it was made for, under the key in
\* its challenge; the issuer has accepted that registration.
CredentialsAreIssued ==
    \A m \in network : m.type = "credential" =>
        /\ m.secret = m.under
        /\ m.for = m.key
        /\ \E i \in 1 .. Len(issued) : issued[i].under = m.under /\ issued[i].key = m.for

IssuedIsAccepted ==
    /\ stored \in accepted \cup {NoKey}
    /\ Issued \subseteq accepted

\* What the TPM of a client took out of a challenge encrypts, if it encrypts a
\* credential at all, the one of this client.
LearnedIsOwn ==
    \A c \in Client : \A s \in learned[c] :
        \A i \in 1 .. Len(issued) : issued[i].under = s => issued[i].key.owner = c

JoinInv ==
    /\ JoinTypeOK
    /\ KeyEncryptsOnce
    /\ KeysWereDrawn
    /\ CredentialsAreIssued
    /\ IssuedIsAccepted
    /\ LearnedIsOwn

-----------------------------------------------------------------------------
(* The actions, as far as the invariant looks at them. *)

USE JoinAssumption

\* What is sent is a message of its type.
LEMMA Sent ==
    ASSUME JoinTypeOK, NEW m \in Message, Send(m)
    PROVE  network' \subseteq Message
  BY DEF JoinTypeOK, Send

LEMMA CreateKeyStep ==
    ASSUME JoinInv, NEW c \in Client, NEW policy \in Policy, CreateKey(c, policy)
    PROVE  JoinInv'
  <1>1. public' \in [Client -> Policy] /\ loaded' \in [Client -> Policy \cup {NoPolicy}]
    BY DEF JoinInv, JoinTypeOK, CreateKey
  <1> DEFINE m == [type |-> "registration", key |-> KeyOf(c, public'[c])]
  <1>2. m \in Message /\ m.type = "registration"
    BY <1>1 DEF Message, Registration, KeyOf, Key
  <1>3. network' = network \cup {m} /\ Send(m)
    BY DEF CreateKey, Send
  <1> HIDE DEF m
  <1>4. JoinTypeOK'
    <2>1. network' \subseteq Message
      BY <1>2, <1>3, Sent DEF JoinInv
    <2>2. template' \in [Client -> Policy \cup {NoPolicy}]
      BY DEF JoinInv, JoinTypeOK, CreateKey
    <2> QED
      BY <1>1, <2>1, <2>2 DEF JoinInv, JoinTypeOK, CreateKey, issuerVars
  <1> QED
    BY <1>2, <1>3, <1>4 DEF JoinInv, KeyEncryptsOnce, KeysWereDrawn, CredentialsAreIssued,
       IssuedIsAccepted, Issued, LearnedIsOwn, CreateKey, issuerVars

LEMMA HandleChallengeStep ==
    ASSUME JoinInv, NEW c \in Client, NEW m \in network, HandleChallenge(c, m)
    PROVE  JoinInv'
  <1>1. m \in Message /\ m.type = "challenge" /\ m.key \in Key /\ m.secret \in Secret /\ m.secret <= drawn
    BY MessageFields DEF JoinInv, JoinTypeOK, HandleChallenge, KeysWereDrawn
  <1>2. PICK activated \in {FALSE, CanActivate(c, m)}, signs \in {FALSE, loaded[c] = "issuer"} :
        \E s \in IF activated THEN {m.secret} ELSE learned[c] \cup {NoSecret} :
          /\ learned' = [learned EXCEPT ![c] = @ \cup IF activated THEN {s} ELSE {}]
          /\ Send([type |-> "response", from |-> c, secret |-> s,
                   proof |-> IF signs THEN {[key |-> KeyOf(c, "issuer"), secret |-> s]} ELSE {}])
    BY DEF HandleChallenge
  <1>3. PICK s \in IF activated THEN {m.secret} ELSE learned[c] \cup {NoSecret} :
          /\ learned' = [learned EXCEPT ![c] = @ \cup IF activated THEN {s} ELSE {}]
          /\ Send([type |-> "response", from |-> c, secret |-> s,
                   proof |-> IF signs THEN {[key |-> KeyOf(c, "issuer"), secret |-> s]} ELSE {}])
    BY <1>2
  <1>4. s \in Secret \cup {NoSecret} /\ learned \in [Client -> SUBSET Secret]
    BY <1>1, <1>3 DEF JoinInv, JoinTypeOK
  <1>5. learned' \in [Client -> SUBSET Secret]
    BY <1>1, <1>3, <1>4
  <1>6. \A d \in Client : \A t \in learned'[d] : t \in learned[d] \/ t = m.secret
    BY <1>3, <1>4
  <1> DEFINE r == [type |-> "response", from |-> c, secret |-> s,
                   proof |-> IF signs THEN {[key |-> KeyOf(c, "issuer"), secret |-> s]} ELSE {}]
  <1>7. r \in Message /\ r.type = "response"
    <2>1. [key |-> KeyOf(c, "issuer"), secret |-> s] \in Proof
      BY <1>4 DEF Proof, KeyOf, Key, Policy
    <2>2. r.proof \in SUBSET Proof
      BY <2>1
    <2>3. r \in Response
      BY <1>4, <2>2 DEF Response
    <2> QED
      BY <2>3 DEF Message
  <1>8. network' = network \cup {r} /\ Send(r)
    BY <1>3 DEF Send
  <1> HIDE DEF r
  <1>9. JoinTypeOK'
    <2>1. network' \subseteq Message
      BY <1>7, <1>8, Sent DEF JoinInv
    <2> QED
      BY <1>5, <2>1 DEF JoinInv, JoinTypeOK, HandleChallenge, issuerVars
  \* The key of a challenge encrypts no credential.
  <1>10. LearnedIsOwn'
    BY <1>1, <1>6 DEF JoinInv, LearnedIsOwn, KeyEncryptsOnce, HandleChallenge, issuerVars
  <1> QED
    BY <1>1, <1>6, <1>7, <1>8, <1>9, <1>10 DEF JoinInv, KeyEncryptsOnce, KeysWereDrawn,
       CredentialsAreIssued, IssuedIsAccepted, Issued, HandleChallenge, issuerVars

\* A credential that a client can decrypt was issued for a key of its own.
LEMMA DecryptsOwn ==
    ASSUME JoinInv, NEW c \in Client, NEW m \in network, m.type = "credential",
           CanActivate(c, m) \/ m.under \in learned[c]
    PROVE  m.for \in Issued /\ m.for.owner = c
  <1>1. PICK i \in 1 .. Len(issued) : issued[i].under = m.under /\ issued[i].key = m.for
    BY DEF JoinInv, CredentialsAreIssued
  <1>2. m.for.owner = c
    <2>1. CASE CanActivate(c, m)
      BY <2>1 DEF CanActivate, KeyOf, JoinInv, CredentialsAreIssued
    <2>2. CASE m.under \in learned[c]
      BY <1>1, <2>2 DEF JoinInv, LearnedIsOwn
    <2> QED
      BY <2>1, <2>2
  <1> QED
    BY <1>1, <1>2 DEF Issued

LEMMA HandleCredentialStep ==
    ASSUME JoinInv, NEW c \in Client, NEW m \in network, HandleCredential(c, m)
    PROVE  /\ JoinInv'
           /\ \E k \in Key \cup {NoKey} :
                /\ credential' = [credential EXCEPT ![c] = k]
                /\ k # NoKey => k \in Issued /\ k.owner = c
  <1>1. /\ m \in Message /\ m.type = "credential"
        /\ m.key \in Key /\ m.secret \in Secret /\ m.for \in Key /\ m.under \in Secret
        /\ m.secret = m.under /\ m.for = m.key /\ m.secret <= drawn
    BY MessageFields DEF JoinInv, JoinTypeOK, HandleCredential, KeysWereDrawn, CredentialsAreIssued
  <1>2. PICK activated \in {FALSE, CanActivate(c, m)} :
        \E s \in IF activated THEN {m.secret} ELSE learned[c] \cup {NoSecret} :
          /\ learned' = [learned EXCEPT ![c] = @ \cup IF activated THEN {s} ELSE {}]
          /\ credential' = [credential EXCEPT ![c] = IF s = m.under THEN m.for ELSE NoKey]
    BY DEF HandleCredential
  <1>3. PICK s \in IF activated THEN {m.secret} ELSE learned[c] \cup {NoSecret} :
          /\ learned' = [learned EXCEPT ![c] = @ \cup IF activated THEN {s} ELSE {}]
          /\ credential' = [credential EXCEPT ![c] = IF s = m.under THEN m.for ELSE NoKey]
    BY <1>2
  <1>4. learned \in [Client -> SUBSET Secret] /\ learned' \in [Client -> SUBSET Secret]
    BY <1>1, <1>3 DEF JoinInv, JoinTypeOK
  <1>5. \A d \in Client : \A t \in learned'[d] :
            t \in learned[d] \/ (t = m.secret /\ d = c /\ CanActivate(c, m))
    BY <1>3, <1>4
  <1>6. s = m.under => m.for \in Issued /\ m.for.owner = c
    <2>1. ASSUME s = m.under
          PROVE  CanActivate(c, m) \/ m.under \in learned[c]
      <3>1. CASE activated
        BY <3>1, Zenon
      <3>2. CASE ~ activated
        <4>1. s \in learned[c] \cup {NoSecret}
          BY <1>3, <3>2
        <4>2. m.under # NoSecret
          BY <1>1 DEF Secret, NoSecret
        <4> QED
          BY <2>1, <4>1, <4>2
      <3> QED
        BY <3>1, <3>2
    <2> QED
      BY <1>1, <2>1, DecryptsOwn
  <1>7. JoinTypeOK'
    <2>1. credential' \in [Client -> Key \cup {NoKey}]
      BY <1>1, <1>3 DEF JoinInv, JoinTypeOK
    <2>2. loaded' \in [Client -> Policy \cup {NoPolicy}]
      BY DEF JoinInv, JoinTypeOK, HandleCredential
    <2> QED
      BY <1>4, <2>1, <2>2 DEF JoinInv, JoinTypeOK, HandleCredential, issuerVars
  <1>8. LearnedIsOwn'
    <2> SUFFICES ASSUME NEW d \in Client, NEW t \in learned'[d],
                        NEW i \in 1 .. Len(issued), issued[i].under = t
                 PROVE  issued[i].key.owner = d
      <3>1. issued' = issued
        BY DEF HandleCredential, issuerVars
      <3> QED
        BY <3>1 DEF LearnedIsOwn
    <2>1. CASE t \in learned[d]
      BY <2>1 DEF JoinInv, LearnedIsOwn
    <2>2. CASE t = m.secret /\ d = c /\ CanActivate(c, m)
      <3>1. PICK j \in 1 .. Len(issued) : issued[j].under = m.under /\ issued[j].key = m.for
        BY <1>1 DEF JoinInv, CredentialsAreIssued
      <3>2. i = j
        BY <1>1, <2>2, <3>1 DEF JoinInv, KeyEncryptsOnce
      <3> QED
        BY <1>1, <2>2, <3>1, <3>2, DecryptsOwn
    <2> QED
      BY <1>5, <2>1, <2>2
  <1>9. KeysWereDrawn'
    BY <1>1, <1>5 DEF JoinInv, KeysWereDrawn, HandleCredential, issuerVars
  <1>10. JoinInv'
    BY <1>7, <1>8, <1>9 DEF JoinInv, KeyEncryptsOnce, CredentialsAreIssued, IssuedIsAccepted, Issued,
       HandleCredential, issuerVars
  <1> QED
    BY <1>1, <1>3, <1>6, <1>10

LEMMA DaaSignStep ==
    ASSUME JoinInv, NEW c \in Client, DaaSign(c)
    PROVE  JoinInv'
  <1>1. JoinTypeOK'
    BY DEF JoinInv, JoinTypeOK, DaaSign, issuerVars
  <1> QED
    BY <1>1 DEF JoinInv, KeyEncryptsOnce, KeysWereDrawn, CredentialsAreIssued, IssuedIsAccepted, Issued,
       LearnedIsOwn, DaaSign, issuerVars

LEMMA RestartStep ==
    ASSUME JoinInv, NEW c \in Client, Restart(c)
    PROVE  JoinInv'
  <1>1. JoinTypeOK'
    BY DEF JoinInv, JoinTypeOK, Restart, issuerVars, Policy
  <1>2. \A d \in Client : learned'[d] \subseteq learned[d]
    BY DEF JoinInv, JoinTypeOK, Restart
  <1> QED
    BY <1>1, <1>2 DEF JoinInv, KeyEncryptsOnce, KeysWereDrawn, CredentialsAreIssued, IssuedIsAccepted,
       Issued, LearnedIsOwn, Restart, issuerVars

LEMMA IssuerExitStep ==
    ASSUME JoinInv, IssuerExit
    PROVE  JoinInv'
  <1>1. JoinTypeOK'
    BY DEF JoinInv, JoinTypeOK, IssuerExit, clientVars
  <1> QED
    BY <1>1 DEF JoinInv, KeyEncryptsOnce, KeysWereDrawn, CredentialsAreIssued, IssuedIsAccepted, Issued,
       LearnedIsOwn, IssuerExit, clientVars

\* A key that is drawn is none of those in use.
LEMMA DrawnKeyIsNew ==
    ASSUME JoinTypeOK, DrawKey
    PROVE  /\ drawn' = drawn + 1 /\ credentialKey' = drawn + 1
           /\ drawn \in Nat
           /\ drawn' \in 0 .. MaxKeys /\ credentialKey' \in Secret
  BY DEF JoinTypeOK, DrawKey, Secret

\* So whatever is in use comes before a key that is drawn next.
LEMMA InUseIsOld ==
    ASSUME JoinTypeOK, KeysWereDrawn, NEW next, next = drawn + 1
    PROVE  /\ \A i \in 1 .. Len(issued) : issued[i].under <= next /\ issued[i].under # next
           /\ \A m \in network : m.type \in {"challenge", "credential"} => m.secret <= next /\ m.secret # next
           /\ \A c \in Client : \A s \in learned[c] : s <= next /\ s # next
  <1>1. drawn \in Nat /\ Secret \subseteq Nat
    BY DEF JoinTypeOK, Secret
  <1>2. \A s \in Secret : s <= drawn => s <= next /\ s # next
    BY <1>1
  <1>3. ASSUME NEW i \in 1 .. Len(issued)
        PROVE  issued[i].under \in Secret
    <2> DEFINE S == [key : Key, under : Secret, proven : BOOLEAN]
    <2>1. issued \in Seq(S)
      BY DEF JoinTypeOK
    <2>2. \A r \in S : r.under \in Secret
      OBVIOUS
    <2> HIDE DEF S
    <2>3. issued[i] \in S
      BY <2>1
    <2> QED
      BY <2>2, <2>3
  <1>4. \A m \in network : m.type \in {"challenge", "credential"} => m.secret \in Secret
    <2> SUFFICES ASSUME NEW m \in network, m.type \in {"challenge", "credential"}
                 PROVE  m.secret \in Secret
      OBVIOUS
    <2>1. m \in Message
      BY DEF JoinTypeOK
    <2> QED
      BY <2>1, MessageFields
  <1>5. \A c \in Client : \A s \in learned[c] : s \in Secret
    BY DEF JoinTypeOK
  <1> QED
    BY <1>2, <1>3, <1>4, <1>5 DEF KeysWereDrawn

LEMMA RegisterStep ==
    ASSUME JoinInv, NEW m \in network, Register(m)
    PROVE  /\ JoinInv'
           /\ m.key \in Key /\ m.key.policy = "issuer" /\ accepted' = accepted \cup {m.key}
  <1>1. m.key \in Key /\ m.key.owner \in Client /\ DrawKey
    BY MessageFields DEF JoinInv, JoinTypeOK, Register, Key
  <1>2. /\ drawn' = drawn + 1 /\ credentialKey' = drawn + 1 /\ drawn \in Nat
        /\ drawn' \in 0 .. MaxKeys /\ credentialKey' \in Secret
    BY <1>1, DrawnKeyIsNew DEF JoinInv
  <1> DEFINE ch == [type |-> "challenge", to |-> m.key.owner, key |-> m.key, secret |-> credentialKey']
  <1>3. ch \in Message /\ ch.type = "challenge" /\ ch.secret = drawn'
    BY <1>1, <1>2 DEF Message, Challenge
  <1>4. network' = network \cup {ch} /\ Send(ch)
    BY DEF Register, Send
  <1> HIDE DEF ch
  <1>5. JoinTypeOK'
    <2>1. network' \subseteq Message
      BY <1>3, <1>4, Sent DEF JoinInv
    <2> QED
      BY <1>1, <1>2, <2>1 DEF JoinInv, JoinTypeOK, Register, clientVars
  <1>6. UNCHANGED <<learned, issued>> /\ stored' = m.key /\ accepted' = accepted \cup {m.key}
    BY DEF Register, clientVars
  <1>7. /\ \A i \in 1 .. Len(issued) : issued[i].under <= drawn' /\ issued[i].under # drawn'
        /\ \A n \in network : n.type \in {"challenge", "credential"} => n.secret <= drawn'
        /\ \A c \in Client : \A s \in learned[c] : s <= drawn'
    BY <1>2, InUseIsOld DEF JoinInv
  <1>8. KeysWereDrawn'
    <2>1. \A n \in network' : n.type \in {"challenge", "credential"} => n.secret <= drawn'
      BY <1>2, <1>3, <1>4, <1>7
    <2> QED
      BY <1>6, <1>7, <2>1 DEF KeysWereDrawn
  <1>9. KeyEncryptsOnce'
    BY <1>3, <1>4, <1>6, <1>7 DEF JoinInv, KeyEncryptsOnce
  <1> QED
    BY <1>1, <1>3, <1>4, <1>5, <1>6, <1>8, <1>9 DEF JoinInv, CredentialsAreIssued, IssuedIsAccepted,
       Issued, LearnedIsOwn, Register, PolicyIsRight

LEMMA RespondStep ==
    ASSUME JoinInv, NEW m \in network, Respond(m)
    PROVE  /\ JoinInv'
           /\ stored \in accepted /\ Issued' = Issued \cup {stored}
  <1>1. m.from \in Client /\ DrawKey /\ stored \in Key /\ stored \in accepted
    BY MessageFields DEF JoinInv, JoinTypeOK, IssuedIsAccepted, Respond
  <1>2. /\ drawn' = drawn + 1 /\ credentialKey' = drawn + 1 /\ drawn \in Nat
        /\ drawn' \in 0 .. MaxKeys /\ credentialKey' \in Secret
    BY <1>1, DrawnKeyIsNew DEF JoinInv
  <1> DEFINE cr == [type |-> "credential", to |-> m.from, key |-> stored, secret |-> credentialKey',
                    for |-> stored, under |-> credentialKey']
             r == [key |-> stored, under |-> credentialKey', proven |-> Proves(m)]
  <1>3. /\ cr \in Message /\ cr.type = "credential"
        /\ cr.secret = drawn' /\ cr.under = drawn' /\ cr.key = stored /\ cr.for = stored
    BY <1>1, <1>2 DEF Message, Credential
  <1>4. r \in [key : Key, under : Secret, proven : BOOLEAN] /\ r.key = stored /\ r.under = drawn'
    BY <1>1, <1>2 DEF Proves
  <1>5. network' = network \cup {cr} /\ Send(cr) /\ issued' = Append(issued, r)
    BY DEF Respond, Send
  <1> HIDE DEF cr, r
  <1>6. UNCHANGED <<clientVars, stored, accepted>>
    BY DEF Respond
  <1>7. /\ issued \in Seq([key : Key, under : Secret, proven : BOOLEAN])
        /\ issued' \in Seq([key : Key, under : Secret, proven : BOOLEAN])
        /\ Len(issued) \in Nat /\ Len(issued') = Len(issued) + 1
        /\ issued'[Len(issued')] = r
        /\ \A i \in 1 .. Len(issued) : issued'[i] = issued[i]
    BY <1>4, <1>5 DEF JoinInv, JoinTypeOK
  <1>8. \A i \in 1 .. Len(issued') : i \in 1 .. Len(issued) \/ (i = Len(issued') /\ issued'[i] = r)
    BY <1>7
  <1>9. 1 .. Len(issued) \subseteq 1 .. Len(issued') /\ Len(issued') \in 1 .. Len(issued')
    BY <1>7
  <1>10. /\ \A i \in 1 .. Len(issued) : issued[i].under <= drawn' /\ issued[i].under # drawn'
         /\ \A n \in network : n.type \in {"challenge", "credential"} => n.secret <= drawn' /\ n.secret # drawn'
         /\ \A c \in Client : \A s \in learned[c] : s <= drawn' /\ s # drawn'
    BY <1>2, InUseIsOld DEF JoinInv
  <1>11. JoinTypeOK'
    <2>1. network' \subseteq Message
      BY <1>3, <1>5, Sent DEF JoinInv
    <2> QED
      BY <1>2, <1>6, <1>7, <2>1 DEF JoinInv, JoinTypeOK, clientVars
  <1>12. KeysWereDrawn'
    <2>1. \A n \in network' : n.type \in {"challenge", "credential"} => n.secret <= drawn'
      BY <1>2, <1>3, <1>5, <1>10
    <2>2. \A i \in 1 .. Len(issued') : issued'[i].under <= drawn'
      BY <1>2, <1>4, <1>7, <1>8, <1>10, SMTT(20)
    <2> QED
      BY <1>6, <1>10, <2>1, <2>2 DEF KeysWereDrawn, clientVars
  <1>13. KeyEncryptsOnce'
    <2>1. \A i, j \in 1 .. Len(issued') : i # j => issued'[i].under # issued'[j].under
      BY <1>4, <1>7, <1>8, <1>10 DEF JoinInv, KeyEncryptsOnce
    <2>2. \A i \in 1 .. Len(issued'), n \in network' : n.type = "challenge" => n.secret # issued'[i].under
      BY <1>3, <1>4, <1>5, <1>7, <1>8, <1>10 DEF JoinInv, KeyEncryptsOnce
    <2> QED
      BY <2>1, <2>2 DEF KeyEncryptsOnce
  <1>14. CredentialsAreIssued'
    <2> SUFFICES ASSUME NEW n \in network', n.type = "credential"
                 PROVE  /\ n.secret = n.under
                        /\ n.for = n.key
                        /\ \E i \in 1 .. Len(issued') : issued'[i].under = n.under /\ issued'[i].key = n.for
      BY DEF CredentialsAreIssued
    <2>1. CASE n \in network
      BY <1>7, <1>9, <2>1 DEF JoinInv, CredentialsAreIssued
    <2>2. CASE n = cr
      BY <1>3, <1>4, <1>7, <1>9, <2>2
    <2> QED
      BY <1>5, <2>1, <2>2
  <1>15. Issued' = Issued \cup {stored}
    BY <1>4, <1>7, <1>8, <1>9 DEF Issued
  <1>16. IssuedIsAccepted'
    BY <1>1, <1>6, <1>15 DEF JoinInv, IssuedIsAccepted
  <1>17. LearnedIsOwn'
    BY <1>4, <1>6, <1>7, <1>8, <1>10 DEF JoinInv, LearnedIsOwn, clientVars
  <1> QED
    BY <1>1, <1>11, <1>12, <1>13, <1>14, <1>15, <1>16, <1>17 DEF JoinInv

LEMMA InitInv == Init => JoinInv
  <1> SUFFICES ASSUME Init PROVE JoinInv
    OBVIOUS
  <1>1. JoinTypeOK
    BY DEF Init, JoinTypeOK, Policy
  <1> QED
    BY <1>1 DEF Init, JoinInv, KeyEncryptsOnce, KeysWereDrawn, CredentialsAreIssued, IssuedIsAccepted,
       Issued, LearnedIsOwn

LEMMA StepInv == JoinInv /\ [Next]_vars => JoinInv'
  <1> SUFFICES ASSUME JoinInv, [Next]_vars PROVE JoinInv'
    OBVIOUS
  <1>1. ASSUME NEW c \in Client, ClientNext(c) PROVE JoinInv'
    BY <1>1, CreateKeyStep, HandleChallengeStep, HandleCredentialStep, DaaSignStep, RestartStep DEF ClientNext
  <1>2. CASE IssuerNext
    BY <1>2, RegisterStep, RespondStep, IssuerExitStep DEF IssuerNext, RefuseRegistration, RefuseResponse
  <1>3. CASE UNCHANGED vars
    <2>1. JoinTypeOK'
      BY <1>3 DEF JoinInv, JoinTypeOK, vars, clientVars, issuerVars
    <2> QED
      BY <1>3, <2>1 DEF JoinInv, KeyEncryptsOnce, KeysWereDrawn, CredentialsAreIssued, IssuedIsAccepted,
         Issued, LearnedIsOwn, vars, clientVars, issuerVars
  <1> QED
    BY <1>1, <1>2, <1>3 DEF Next

-----------------------------------------------------------------------------
\* The inductive invariant: what the issuer draws, issues and accepts, and what
\* the TPM of a client can take out of a challenge.
THEOREM JoinInvariant == Spec => []JoinInv
  BY InitInv, StepInv, PTL DEF Spec

\* make_credential_data draws before encryptAES uses the key: no key encrypts two
\* credentials, and none that went over the wire in a response encrypts one.
THEOREM EncryptsOnce == Spec => []KeyEncryptsOnce
  <1>1. JoinInv => KeyEncryptsOnce
    BY DEF JoinInv
  <1> QED
    BY <1>1, JoinInvariant, PTL

\* The globals of the issuer and of the clients, and every message on its way, hold
\* what the code can store in them.
THEOREM JoinTypes == Spec => []JoinTypeOK
  <1>1. JoinInv => JoinTypeOK
    BY DEF JoinInv
  <1> QED
    BY <1>1, JoinInvariant, PTL

\* The join keeps its promise however the registrations of clients replace each
\* other in the issuer's globals: each step accepts a key of the issuer's policy,
\* issues a credential for a key it accepted, gives a client the credential of its
\* own key, takes it away, or does nothing to these.
THEOREM JoinKeepsPromise == Spec => CredentialsSpec
  <1>1. Init => JoinPromise!Init
    BY DEF Init, JoinPromise!Init
  <1>2. JoinInv /\ [Next]_vars => [JoinPromise!Next]_<<accepted, Issued, credential>>
    <2> SUFFICES ASSUME JoinInv, [Next]_vars
                 PROVE  [JoinPromise!Next]_<<accepted, Issued, credential>>
      OBVIOUS
    <2>1. ASSUME NEW c \in Client, NEW m \in network, HandleCredential(c, m)
          PROVE  JoinPromise!Next
      <3>1. PICK k \in Key \cup {NoKey} :
                /\ credential' = [credential EXCEPT ![c] = k]
                /\ k # NoKey => k \in Issued /\ k.owner = c
        BY <2>1, HandleCredentialStep
      <3>2. UNCHANGED <<accepted, issued>>
        BY <2>1 DEF HandleCredential, issuerVars
      <3>3. CASE k = NoKey
        <4>1. JoinPromise!Lose(c)
          BY <3>1, <3>2, <3>3 DEF JoinPromise!Lose
        <4> QED
          BY <4>1 DEF JoinPromise!Next
      <3>4. CASE k # NoKey
        <4>1. JoinPromise!Obtain(c, k)
          BY <3>1, <3>2, <3>4 DEF JoinPromise!Obtain, Issued
        <4> QED
          BY <3>1, <3>4, <4>1 DEF JoinPromise!Next, JoinPromise!Key, JoinPromise!Policy, Key, Policy
      <3> QED
        BY <3>3, <3>4
    <2>2. ASSUME NEW c \in Client, Restart(c)
          PROVE  JoinPromise!Next
      <3>1. JoinPromise!Lose(c)
        BY <2>2 DEF Restart, issuerVars, JoinPromise!Lose
      <3> QED
        BY <3>1 DEF JoinPromise!Next
    <2>3. ASSUME NEW m \in network, Register(m)
          PROVE  JoinPromise!Next
      <3>1. m.key \in Key /\ JoinPromise!Accept(m.key)
        BY <2>3, RegisterStep DEF Register, clientVars, JoinPromise!Accept
      <3> QED
        BY <3>1 DEF JoinPromise!Next, JoinPromise!Key, JoinPromise!Policy, Key, Policy
    <2>4. ASSUME NEW m \in network, Respond(m)
          PROVE  JoinPromise!Next
      <3>1. PICK k \in Key : k \in accepted /\ Issued' = Issued \cup {k}
        BY <2>4, RespondStep DEF JoinInv, JoinTypeOK
      <3>2. JoinPromise!Issue(k)
        BY <2>4, <3>1 DEF Respond, clientVars, JoinPromise!Issue, Issued
      <3> QED
        BY <3>1, <3>2 DEF JoinPromise!Next, JoinPromise!Key, JoinPromise!Policy, Key, Policy
    <2>5. ASSUME NEW c \in Client, ClientNext(c), ~ JoinPromise!Next
          PROVE  UNCHANGED <<accepted, issued, credential>>
      BY <2>1, <2>2, <2>5 DEF ClientNext, CreateKey, HandleChallenge, DaaSign, issuerVars
    <2>6. ASSUME IssuerNext, ~ JoinPromise!Next
          PROVE  UNCHANGED <<accepted, issued, credential>>
      BY <2>3, <2>4, <2>6 DEF IssuerNext, RefuseRegistration, RefuseResponse, IssuerExit, clientVars
    <2>7. CASE UNCHANGED vars
      BY <2>7 DEF vars, clientVars, issuerVars, Issued
    <2> QED
      BY <2>5, <2>6, <2>7 DEF Next, Issued
  <1> QED
    BY <1>1, <1>2, JoinInvariant, PTL DEF Spec, CredentialsSpec, JoinPromise!Spec, Issued
=============================================================================

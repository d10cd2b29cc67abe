-------------------------------- MODULE Daa --------------------------------
(***************************************************************************)
(* The arithmetic of direct anonymous attestation: what host, TPM and      *)
(* issuer compute of a credential and of a signature, and how they write   *)
(* the numbers down.                                                       *)
(*                                                                         *)
(* A point of the group is the number that multiplies the generator; its   *)
(* two coordinates are one number, the same.  A pairing multiplies these   *)
(* numbers.  Hashes do not collide: a hash that is only hashed again is    *)
(* named by what it is the hash of, one that is a number is drawn.         *)
(*                                                                         *)
(* A number is two bytes of Base values.  The TPM pads it to two.          *)
(* OpenSSL's BN_bn2bin leaves out a leading zero, and host and issuer do   *)
(* not pad: a small number takes the first byte of a buffer and the second *)
(* stays what it was.  Every reader reads two.                             *)
(***************************************************************************)
EXTENDS Integers, Sequences

CONSTANTS
    Order,          \* BNP256_ORDER: the order of the group, a prime
    Base,           \* values of a byte
    PrivateKey,     \* private parts of attestation keys
    IssuerX, IssuerY,   \* private parts of issuer keys
    KnownX, KnownY, \* the issuer whose public key is compiled in (issPk)
    Draw,           \* bound: what the random number generators return
    HashNumber,      \* bound: hashes modulo the order
    OldByte,        \* bound: what memory that nobody wrote holds
    Text            \* bound: messages to sign, and host strings of a join

ASSUME DaaAssumption ==
    /\ Order \in Nat /\ Base \in Nat
    /\ Base < Order /\ Order < Base * Base
    \* Order is a prime.
    /\ \A a, b \in 2 .. (Order - 1) : a * b # Order
    /\ PrivateKey \cup IssuerX \cup IssuerY \cup Draw \subseteq 1 .. (Order - 1)
    /\ KnownX \in IssuerX /\ KnownY \in IssuerY
    \* No key has a credential at infinity: there is one such key for each issuer.
    /\ \A y \in IssuerY, d \in PrivateKey : (1 + y * d) % Order # 0
    /\ HashNumber \subseteq 0 .. (Order - 1)
    /\ OldByte \subseteq 0 .. (Base - 1)

VARIABLES
    kind,           \* "join": a proof of the key to the issuer; "sign": a signature of a text
    stage,          \* the function that runs next
    key,            \* the private part of the attestation key
    credential,     \* the client's credential: the points A, B, C and D
    rcre,           \* the randomized credential: R, S, T and W
    secret,         \* the random number of the TPM's commitment
    hashed,         \* what was hashed: the string, the bytes of nonceK, and the number of both
    signature,      \* signatureR, signatureS and V
    made,           \* history: who issued the credential for which key, and the text signed
    lost,           \* history: a leading zero was left out
    claim,          \* the text and the key that the verifier has
    verdict         \* of the verifier

daaVars ==
    <<kind, stage, key, credential, rcre, secret, hashed, signature, made, lost, claim, verdict>>

Scalar == 0 .. (Order - 1)
Byte == 0 .. (Base - 1)
Buffer == Byte \X Byte
Infinity == 0

-----------------------------------------------------------------------------
(* Numbers and points in buffers. *)

\* BnTo2B with the size of the curve.
Padded(n) == <<n \div Base, n % Base>>

\* BnTo2B with the size 0: as many bytes as the number needs.
Unpadded(n) == IF n < Base THEN <<n>> ELSE Padded(n)

\* What a copy of bytes, or BN_bn2bin, leaves in a buffer: it may end early.
Over(bytes, buffer) == [i \in 1 .. 2 |-> IF i <= Len(bytes) THEN bytes[i] ELSE buffer[i]]

\* BN_bn2bin.  It writes nothing for zero.
Into(n, buffer) == IF n = 0 THEN buffer ELSE Over(Unpadded(n), buffer)

\* BN_bin2bn.
Number(buffer) == buffer[1] * Base + buffer[2]

\* A buffer that nobody wrote.
Unwritten(old) == <<old, old>>

OnCurve(buffer) == Number(buffer) \in 1 .. (Order - 1)

\* The point with these coordinates.  EC_POINT_new, and ECP_FP256BN_fromOctet
\* for coordinates of no point, give the infinity.
PointIn(buffer) == IF OnCurve(buffer) THEN Number(buffer) ELSE Infinity

\* The infinity has no coordinates, and the buffer is not written.
getBinaryCoordinates(point, buffer) == Into(point, buffer)

Times(n, point) == (n * point) % Order

\* A leading zero is left out.
IsShort(n) == n < Base

-----------------------------------------------------------------------------
(* Credentials. *)

\* The points A = [r]P, B = [y]A, C = [x](A + D) and D = [ry]Q.
CredentialPoints(issuer, r, q) ==
    LET x == issuer[1]
        y == issuer[2]
        d == Times(r * y, q)
    IN  <<r % Order, Times(y, r), Times(x, r + d), d>>

\* Mutant of verify_credential: the second equation is not checked.
verify_credential_p1(points) ==
    Times(KnownY, PointIn(points[1])) = PointIn(points[2])

\* The two pairing equations e(Y, A) = e(P2, B) and e(X, A + D) = e(P2, C).
verify_credential(points) ==
    LET point == [i \in 1 .. 4 |-> PointIn(points[i])]
    IN  /\ Times(KnownY, point[1]) = point[2]
        /\ Times(KnownX, point[4] + point[1]) = point[3]

-----------------------------------------------------------------------------
(* Signatures. *)

\* What the host has hashed and signed: for a signature the message, R, S, T, W and E,
\* for a join the key, E and the host string.
get_c_str(message, points, e) == <<message, points, e>>
daa_prepare_host_str(q, e, hostString) == <<Padded(q), e, hostString>>

HostString(text, points, e) ==
    IF kind = "join" THEN daa_prepare_host_str(key, e, text) ELSE get_c_str(text, points, e)

\* Mutant of concat_data: the randomized credential is left out.
concat_data_short(message, points, e) == <<message, <<>>, e>>

\* What the verifier hashes, with its own text, key and value of E.
concat_data(message, points, e) == <<message, points, e>>
RegisteredString(q, e, hostString) == <<Padded(q), e, hostString>>

VerifierString(text, q, points, e) ==
    IF kind = "join" THEN RegisteredString(q, e, text) ELSE concat_data(text, points, e)

\* The number that a hash modulo the order gives, where h is what it gave before.
HashAgain(input, before, h) == IF input = before THEN {h} ELSE HashNumber \ {h}

\* The point that the TPM commits on, and the one that must be the key times it.
BasePoint(c) == IF kind = "join" THEN 1 ELSE PointIn(c[2])
KeyPoint(c, q) == IF kind = "join" THEN q ELSE PointIn(c[4])

\* Mutant of EPrime: the second point is not inverted.
EPrimeNotInverted(sig, c, q) ==
    (Number(sig.S) * BasePoint(c) + Number(sig.V) * KeyPoint(c, q)) % Order

\* What a verifier takes for E: [s]S - [V]W, or [s]P - [V]Q.
EPrime(sig, c, q) ==
    (Number(sig.S) * BasePoint(c) - Number(sig.V) * KeyPoint(c, q)) % Order

-----------------------------------------------------------------------------
(* The steps.  *)

\* CryptEccGenerateKey, for a key that joins or for one that is to sign.
CreateKey(use, d) ==
    /\ stage = "create"
    /\ kind' = use
    /\ key' = d
    /\ stage' = IF use = "join" THEN "commit" ELSE "issue"
    /\ UNCHANGED <<credential, rcre, secret, hashed, signature, made, lost, claim, verdict>>

\* The client gets the buffers as they are, encrypted on the way.
make_daa_credential(issuer, q, r, old) ==
    LET points == CredentialPoints(issuer, r, q) IN
    /\ stage = "issue"
    /\ credential' = [i \in 1 .. 4 |-> getBinaryCoordinates(points[i], Unwritten(old))]
    /\ lost' = \E i \in 1 .. 4 : IsShort(points[i])
    /\ made' = [made EXCEPT !.issuer = issuer, !.key = q]
    /\ stage' = "randomize"
    /\ UNCHANGED <<kind, key, rcre, secret, hashed, signature, claim, verdict>>

\* Each point of a copy is multiplied in its place.  One that is not on the curve
\* is left, as is every one if the number drawn is 0.
randomizeCredential(l) ==
    LET product(i) == Times(l, PointIn(credential[i])) IN
    /\ stage = "randomize"
    /\ rcre' = [i \in 1 .. 4 |-> Into(product(i), credential[i])]
    /\ lost' = (lost \/ \E i \in 1 .. 4 : IsShort(product(i)))
    /\ stage' = "commit"
    /\ UNCHANGED <<kind, key, credential, secret, hashed, signature, made, claim, verdict>>

\* TPM2_Commit on the point S, or on the generator, and the string that is signed.
Commit(r, text) ==
    LET e == Times(r, BasePoint(rcre)) IN
    /\ stage = "commit"
    /\ kind = "sign" => OnCurve(rcre[2])
    /\ secret' = r
    /\ hashed' = [hashed EXCEPT !.input = HostString(text, rcre, Padded(e))]
    /\ lost' = (lost \/ IsShort(e))
    /\ made' = [made EXCEPT !.text = text]
    /\ stage' = "tpmSign"
    /\ UNCHANGED <<kind, key, credential, rcre, signature, claim, verdict>>

\* The TPM refuses a point that is not on the curve.  What the bridge does after a
\* command that failed is in Bridge.
CommitRefused ==
    /\ stage = "commit"
    /\ kind = "sign" /\ ~ OnCurve(rcre[2])
    /\ stage' = "refused"
    /\ UNCHANGED <<kind, key, credential, rcre, secret, hashed, signature, made, lost, claim, verdict>>

\* BnSchnorrSign.
Schnorr(k, t, d) == (k + t * d) % Order

\* TPM2_Sign.  n is nonceK and t the hash of its bytes and the string; both are drawn
\* again if the hash or the result is 0.  The host copies the signature, of which
\* nonceK may be a byte short.
BnSignEcdaa(n, t, old) ==
    /\ stage = "tpmSign"
    /\ t # 0 /\ Schnorr(secret, t, key) # 0
    /\ signature' = [R |-> Over(Unpadded(n), Unwritten(old)),
                     S |-> Padded(Schnorr(secret, t, key)),
                     V |-> Unwritten(old)]
    /\ hashed' = [hashed EXCEPT !.nonce = Unpadded(n), !.h = t]
    /\ lost' = (lost \/ IsShort(n))
    /\ stage' = "finalize"
    /\ UNCHANGED <<kind, key, credential, rcre, secret, made, claim, verdict>>

\* The host hashes the same again, for V.
daa_finalize_signature(h) ==
    /\ stage = "finalize"
    /\ h \in HashAgain(signature.R, hashed.nonce, hashed.h)
    /\ signature' = [signature EXCEPT !.V = Into(h, @)]
    /\ hashed' = [hashed EXCEPT !.nonce = signature.R, !.h = h]
    /\ lost' = (lost \/ IsShort(h))
    /\ stage' = "verify"
    /\ UNCHANGED <<kind, key, credential, rcre, secret, made, claim, verdict>>

\* The verifier has a text, and as issuer of a join the key q that was registered.
daa_verify_signature(text, q, old, h) ==
    LET ePrime == EPrime(signature, rcre, q)
        input == VerifierString(text, q, rcre, getBinaryCoordinates(ePrime, Unwritten(old)))
    IN  /\ stage = "verify"
        /\ h \in HashAgain(<<signature.R, input>>, <<hashed.nonce, hashed.input>>, hashed.h)
        /\ verdict' = IF /\ Into(h, Unwritten(old)) = signature.V
                         /\ kind = "sign" => verify_credential(rcre)
                      THEN "good" ELSE "bad"
        /\ lost' = (lost \/ IsShort(ePrime) \/ IsShort(h))
        /\ claim' = [text |-> text, key |-> q]
        /\ stage' = "verified"
        /\ UNCHANGED <<kind, key, credential, rcre, secret, hashed, signature, made>>

-----------------------------------------------------------------------------
DaaInit ==
    /\ kind = "none"
    /\ stage = "create"
    /\ key = 0
    /\ credential = [i \in 1 .. 4 |-> Unwritten(0)]
    /\ rcre = credential
    /\ secret = 0
    /\ hashed = [input |-> <<>>, nonce |-> <<>>, h |-> 0]
    /\ signature = [R |-> Unwritten(0), S |-> Unwritten(0), V |-> Unwritten(0)]
    /\ made = [issuer |-> <<>>, key |-> 0, text |-> ""]
    /\ lost = FALSE
    /\ claim = [text |-> "", key |-> 0]
    /\ verdict = "none"

DaaNext ==
    \/ \E d \in PrivateKey : CreateKey("join", d) \/ CreateKey("sign", d)
    \/ \E issuer \in IssuerX \X IssuerY, q \in PrivateKey, r \in Draw, old \in OldByte :
          make_daa_credential(issuer, q, r, old)
    \/ \E l \in Draw \cup {0} : randomizeCredential(l)
    \/ \E r \in Draw, text \in Text : Commit(r, text)
    \/ CommitRefused
    \/ \E n \in Draw, t \in HashNumber, old \in OldByte : BnSignEcdaa(n, t, old)
    \/ \E h \in HashNumber : daa_finalize_signature(h)
    \/ \E text \in Text, q \in PrivateKey, old \in OldByte, h \in HashNumber :
          daa_verify_signature(text, q, old, h)

DaaSpec == DaaInit /\ [][DaaNext]_daaVars

-----------------------------------------------------------------------------
(* Properties. *)

DaaTypeOK ==
    /\ kind \in {"none", "join", "sign"}
    /\ stage \in {"create", "issue", "randomize", "commit", "refused", "tpmSign", "finalize",
                  "verify", "verified"}
    /\ {credential[i] : i \in 1 .. 4} \cup {rcre[i] : i \in 1 .. 4} \subseteq Buffer
    /\ {signature.R, signature.S, signature.V} \subseteq Buffer
    /\ secret \in Scalar /\ hashed.h \in Scalar
    /\ made.key \in Scalar
    /\ verdict \in {"none", "good", "bad"}

\* The one who has the text, the key and the credential that the verifier expects.
AsClaimed ==
    /\ made.text = claim.text
    /\ IF kind = "join" THEN key = claim.key
                        ELSE made.key = key /\ made.issuer = <<KnownX, KnownY>>

\* Host, TPM, issuer and verifier compute the same: unless a leading zero got lost on the
\* way, a verifier accepts a signature just when it was made of the text that the
\* verifier has, with the registered key or with one that the known issuer has
\* given a credential.
SignatureIsExact == verdict # "none" /\ ~ lost => (verdict = "good" <=> AsClaimed)
=============================================================================

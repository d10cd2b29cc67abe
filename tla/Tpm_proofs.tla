----------------------------- MODULE Tpm_proofs -----------------------------
(***************************************************************************)
(* One commitment answers at most one signature, and the attestation key   *)
(* signs only with the wallet's consent, in the approved state of the      *)
(* platform and once for each nonce: for every size of the array and of    *)
(* the counts, any number of sessions, nonces and PCR extends.             *)
(*                                                                         *)
(* The array and the truncated count name a commitment only by residues,   *)
(* so the proof first settles the arithmetic (what a quotient and a        *)
(* remainder determine), then that CryptGenerateR rebuilds the counter of  *)
(* the young commitment its bit stands for, and last that every action     *)
(* keeps the array exact, and with it the one that a shutdown saved.  The  *)
(* inductive part about the sessions is DigestIsProof: what the digest of  *)
(* a session that has not been used yet proves about its nonce and PCRs.   *)
(***************************************************************************)
EXTENDS Tpm, TLAPS

(* Quotients and remainders. *)

\* A number is its quotient and its remainder.
LEMMA DivMod ==
    ASSUME NEW x \in Int, NEW d \in Nat, d > 0
    PROVE  /\ x \div d \in Int
           /\ x % d \in 0 .. (d - 1)
           /\ x = (x \div d) * d + (x % d)
  BY Z3

\* Quotients that differ are a whole divisor apart.
LEMMA MultiplesApart ==
    ASSUME NEW p \in Int, NEW q \in Int, NEW d \in Nat, d > 0, p < q
    PROVE  p * d + d <= q * d
  <1>1. q - p \in Int /\ q - p >= 1
    OBVIOUS
  <1>2. (q - p) * d >= d
    BY <1>1, Z3
  <1> QED
    BY <1>2, Z3

\* Quotient and remainder are unique.
LEMMA DivModUnique ==
    ASSUME NEW d \in Nat, d > 0, NEW p \in Int, NEW q \in Int,
           NEW r \in 0 .. (d - 1), NEW s \in 0 .. (d - 1),
           p * d + r = q * d + s
    PROVE  p = q /\ r = s
  <1>1. ~ (p < q)
    BY MultiplesApart
  <1>2. ~ (q < p)
    BY MultiplesApart
  <1> QED
    BY <1>1, <1>2

\* What \div and % return on a number given by its quotient and remainder.
LEMMA DivModOf ==
    ASSUME NEW d \in Nat, d > 0, NEW q \in Int, NEW r \in 0 .. (d - 1), NEW x \in Int,
           x = q * d + r
    PROVE  x \div d = q /\ x % d = r
  <1>1. /\ x \div d \in Int
        /\ x % d \in 0 .. (d - 1)
        /\ x = (x \div d) * d + (x % d)
    BY DivMod
  <1> QED
    BY <1>1, DivModUnique

\* Dividing by a product is dividing twice.
LEMMA DivModProduct ==
    ASSUME NEW x \in Int, NEW d \in Nat, d > 0, NEW k \in Nat, k > 0,
           NEW w \in Nat, w = k * d
    PROVE  /\ w > 0
           /\ x \div w = (x \div d) \div k
           /\ (x % w) \div d = (x \div d) % k
           /\ (x % w) % d = x % d
  <1> DEFINE q == x \div d
             b == x % d
             a == q \div k
             r == q % k
  <1>1. q \in Int /\ b \in 0 .. (d - 1) /\ x = q * d + b
    BY DivMod
  <1>2. a \in Int /\ r \in 0 .. (k - 1) /\ q = a * k + r
    BY <1>1, DivMod
  <1> HIDE DEF q, b, a, r
  <1>3. w > 0
    BY Z3
  <1>4. r * d + b \in 0 .. (w - 1)
    <2>1. r * d + d <= k * d
      BY <1>2, MultiplesApart
    <2>2. r * d >= 0 /\ r * d \in Int
      BY <1>2, Z3
    <2> QED
      BY <1>1, <2>1, <2>2
  <1>5. x = a * w + (r * d + b)
    <2>1. x = (a * k + r) * d + b
      BY <1>1, <1>2
    <2>2. (a * k + r) * d = a * (k * d) + r * d
      BY <1>2, Z3
    <2>3. a * (k * d) \in Int /\ r * d \in Int
      BY <1>2, Z3
    <2> QED
      BY <1>1, <2>1, <2>2, <2>3
  <1>6. x \div w = a /\ x % w = r * d + b
    <2>1. \A s \in 0 .. (w - 1) : x = a * w + s => x \div w = a /\ x % w = s
      BY <1>2, <1>3, DivModOf
    <2> QED
      BY <1>4, <1>5, <2>1
  <1>7. (r * d + b) \div d = r /\ (r * d + b) % d = b
    <2>1. \A y \in Int : y = r * d + b => y \div d = r /\ y % d = b
      BY <1>1, <1>2, DivModOf
    <2> QED
      BY <1>4, <2>1
  <1> QED
    BY <1>3, <1>6, <1>7 DEF q, b, a, r

\* CryptGenerateR, in numbers: if n is one of the d counts before cur and ends
\* in the same bits as c, the turn t has the quotient of n; and when moreover
\* the upper bits of t are those of c, the rebuilt counter is n.
LEMMA Turn ==
    ASSUME NEW d \in Nat, d > 0, NEW cur \in Nat, NEW n \in Nat,
           n < cur, n >= cur - d
    PROVE  (IF n % d >= cur % d THEN cur - d ELSE cur) \div d = n \div d
  <1> DEFINE q == cur \div d
             u == cur % d
             p == n \div d
             b == n % d
  <1>1. q \in Int /\ u \in 0 .. (d - 1) /\ cur = q * d + u
    BY DivMod
  <1>2. p \in Int /\ b \in 0 .. (d - 1) /\ n = p * d + b
    BY DivMod
  <1> HIDE DEF q, u, p, b
  <1>3. CASE b >= u
    <2>1. ~ (p >= q)
      <3>1. ASSUME p > q PROVE FALSE
        BY <1>1, <1>2, <3>1, MultiplesApart
      <3>2. p # q
        BY <1>1, <1>2, <1>3
      <3> QED
        BY <1>1, <1>2, <3>1, <3>2
    <2>2. ~ (p < q - 1)
      <3>1. ASSUME p < q - 1 PROVE FALSE
        <4>1. p * d + d <= (q - 1) * d
          BY <1>1, <1>2, <3>1, MultiplesApart
        <4>2. (q - 1) * d = q * d - d
          BY <1>1, Z3
        <4>3. n >= q * d + u - d
          BY <1>1
        <4> QED
          BY <1>1, <1>2, <4>1, <4>2, <4>3
      <3> QED
        BY <3>1
    <2>3. p = q - 1
      BY <1>1, <1>2, <2>1, <2>2
    <2>4. cur - d = p * d + u
      BY <1>1, <2>3, Z3
    <2>5. (cur - d) \div d = p
      BY <1>1, <1>2, <2>4, DivModOf
    <2> QED
      BY <1>3, <2>5 DEF u, b, p
  <1>4. CASE ~ (b >= u)
    <2>1. ~ (p > q)
      BY <1>1, <1>2, MultiplesApart
    <2>2. ~ (p < q)
      <3>1. ASSUME p < q PROVE FALSE
        <4>1. p * d + d <= q * d
          BY <1>1, <1>2, <3>1, MultiplesApart
        <4> QED
          BY <1>1, <1>2, <1>4, <4>1
      <3> QED
        BY <3>1
    <2> QED
      BY <1>1, <1>2, <1>4, <2>1, <2>2 DEF q, u, b, p
  <1> QED
    BY <1>3, <1>4

-----------------------------------------------------------------------------
(* What CryptGenerateR rebuilds. *)

\* The bits of a truncated counter are those of the counter.
LEMMA BitOfTruncated ==
    ASSUME NEW x \in Int
    PROVE  BitOf(x % CountRange) = BitOf(x)
  <1>1. PICK k \in 1 .. CountRange : CountRange = k * IndexSize
    BY CommitAssumption
  <1> QED
    BY <1>1, DivModProduct, CommitAssumption DEF BitOf

\* For a count c with the bit of a young commitment n: CryptGenerateR finds the
\* upper bits right exactly when c is the truncated n, and then rebuilds n.
LEMMA RebuiltCount ==
    ASSUME CommitTypeOK, NEW c \in Count, NEW n \in Young, BitOf(n) = BitOf(c)
    PROVE  /\ (TurnOf(c) % CountRange) \div IndexSize = c \div IndexSize <=> c = n % CountRange
           /\ c = n % CountRange => CommittedCount(c) = n
  <1>1. PICK k \in 1 .. CountRange : CountRange = k * IndexSize
    BY CommitAssumption
  <1> DEFINE t == TurnOf(c)
  <1>2. t \in Int /\ n \in Nat /\ c \in Int
    BY CommitAssumption DEF TurnOf, CommitTypeOK, Young, Count
  <1>3. t \div IndexSize = n \div IndexSize
    <2>1. BitOf(commitCounter % CountRange) = commitCounter % IndexSize
      BY BitOfTruncated DEF CommitTypeOK, BitOf
    <2>2. n < commitCounter /\ n >= commitCounter - IndexSize
      BY CommitAssumption DEF Young, CommitTypeOK
    <2>3. t = IF n % IndexSize >= commitCounter % IndexSize
              THEN commitCounter - IndexSize ELSE commitCounter
      BY <2>1 DEF TurnOf, BitOf
    <2> QED
      BY <1>2, <2>2, <2>3, Turn, CommitAssumption DEF CommitTypeOK
  <1> HIDE DEF t
  <1>4. /\ t \div CountRange = n \div CountRange
        /\ (t % CountRange) \div IndexSize = (n % CountRange) \div IndexSize
    <2>1. \A x \in Int : /\ x \div CountRange = (x \div IndexSize) \div k
                         /\ (x % CountRange) \div IndexSize = (x \div IndexSize) % k
      BY <1>1, DivModProduct, CommitAssumption
    <2> QED
      BY <1>2, <1>3, <2>1
  <1>5. n % CountRange \in Int /\ BitOf(n % CountRange) = BitOf(c)
    BY <1>1, <1>2, BitOfTruncated, DivMod, CommitAssumption
  <1>6. c \div IndexSize = (n % CountRange) \div IndexSize => c = n % CountRange
    <2>1. \A x \in Int : x = (x \div IndexSize) * IndexSize + (x % IndexSize)
      BY DivMod, CommitAssumption
    <2> QED
      BY <1>2, <1>5, <2>1 DEF BitOf
  <1>7. c = n % CountRange => CommittedCount(c) = n
    <2>1. CountRange \in Nat /\ CountRange > 0
      BY CommitAssumption
    <2>2. n = (n \div CountRange) * CountRange + (n % CountRange)
      BY <1>2, <2>1, DivMod
    <2> QED
      BY <1>4, <2>2 DEF CommittedCount, t
  <1> QED
    BY <1>4, <1>6, <1>7 DEF t

\* No two young commitments share a bit.
LEMMA YoungBitsDiffer ==
    ASSUME CommitTypeOK, NEW m \in Young, NEW n \in Young, BitOf(m) = BitOf(n)
    PROVE  m = n
  <1> DEFINE p == m \div IndexSize
             q == n \div IndexSize
             b == m % IndexSize
  <1>1. /\ p \in Int /\ q \in Int /\ b \in 0 .. (IndexSize - 1)
        /\ m = p * IndexSize + b
        /\ n = q * IndexSize + b
    BY DivMod, CommitAssumption DEF Young, CommitTypeOK, BitOf
  <1>2. m - n < IndexSize /\ n - m < IndexSize
    BY CommitAssumption DEF Young, CommitTypeOK
  <1> HIDE DEF p, q, b
  <1>3. \A x, y \in Int : x < y => x * IndexSize + IndexSize <= y * IndexSize
    BY MultiplesApart, CommitAssumption
  <1>4. p * IndexSize \in Int /\ q * IndexSize \in Int
    BY <1>1, CommitAssumption, Z3
  <1>5. ~ (p < q) /\ ~ (q < p)
    BY <1>1, <1>2, <1>3, <1>4, CommitAssumption DEF Young, CommitTypeOK
  <1> QED
    BY <1>1, <1>5

\* The bit of a number is an index of the array, and it comes around after
\* IndexSize steps.
LEMMA BitOfIsIndex ==
    ASSUME NEW x \in Int
    PROVE  BitOf(x) \in Index /\ BitOf(x + IndexSize) = BitOf(x)
  <1> DEFINE q == x \div IndexSize
             b == x % IndexSize
  <1>1. q \in Int /\ b \in 0 .. (IndexSize - 1) /\ x = q * IndexSize + b
    BY DivMod, CommitAssumption
  <1> HIDE DEF q, b
  <1>2. x + IndexSize = (q + 1) * IndexSize + b
    BY <1>1, CommitAssumption, Z3
  <1>3. x + IndexSize \in Int
    BY CommitAssumption
  <1>4. (x + IndexSize) % IndexSize = b
    BY <1>1, <1>2, <1>3, DivModOf, CommitAssumption
  <1> QED
    BY <1>1, <1>4 DEF BitOf, Index, b

\* A count whose bit is SET names one young commitment, which no signature has
\* used; if the count is accepted, that commitment is the one rebuilt.
LEMMA AcceptedCount ==
    ASSUME CommitInv, NEW c \in Count, AcceptsCount(c)
    PROVE  /\ CommittedCount(c) \in Young
           /\ ~ Signed(CommittedCount(c))
           /\ BitOf(CommittedCount(c)) = BitOf(c)
           /\ CommittedCount(c) % CountRange = c
  <1>1. PICK n \in Young : BitOf(n) = BitOf(c) /\ ~ Signed(n)
    BY DEF AcceptsCount, CommitInv, ArrayIsExact
  <1>2. c = n % CountRange /\ CommittedCount(c) = n
    BY <1>1, RebuiltCount DEF AcceptsCount, CommitInv
  <1> QED
    BY <1>1, <1>2

-----------------------------------------------------------------------------
(* The invariant. *)

\* What was saved at a shutdown, in the place of what is in RAM.
Saved == INSTANCE CommitCounter
    WITH commitCounter <- savedCommits.counter, commitArray <- savedCommits.array,
         signedWith <- savedCommits.signed

\* What a Resume or a Restart reads is as exact as it was at the shutdown.
SavedIsExact ==
    stateSaved => Saved!OneSignaturePerCommitment /\ Saved!ArrayIsExact

\* The record that stands for nothing saved is one of the type.
LEMMA NoneSavedType ==
    NoCommitsSaved \in [counter : Nat, array : SUBSET Index, signed : Seq(Nat \X Nat)]
  <1>1. <<>> \in Seq(Nat \X Nat) /\ {} \in SUBSET Index
    OBVIOUS
  <1> QED
    BY <1>1 DEF NoCommitsSaved

\* Nothing is committed at first, and nothing saved.
LEMMA CommitInitInv == CommitInit => CommitInv /\ SavedIsExact
  <1> SUFFICES ASSUME CommitInit PROVE CommitInv /\ SavedIsExact
    OBVIOUS
  <1>1. CommitTypeOK /\ SavedIsExact
    <2>1. ~ stateSaved
      BY DEF CommitInit
    <2>2. signedWith \in Seq(Nat \X Nat) /\ undone \subseteq Nat \X Nat
      BY DEF CommitInit
    <2>3. savedCommits \in [counter : Nat, array : SUBSET Index, signed : Seq(Nat \X Nat)]
      BY NoneSavedType DEF CommitInit
    <2>4. CommitTypeOK
      BY <2>2, <2>3 DEF CommitInit, CommitTypeOK
    <2> QED
      BY <2>1, <2>4 DEF SavedIsExact
  <1>2. Len(signedWith) = 0 /\ Young = {}
    BY CommitAssumption DEF CommitInit, Young
  <1> QED
    BY <1>1, <1>2 DEF CommitInit, CommitInv, OneSignaturePerCommitment, ArrayIsExact

\* A new commitment takes over the bit of the one that stops being young.
LEMMA CryptCommitInv == CommitInv /\ CryptCommit => CommitInv'
  <1> SUFFICES ASSUME CommitInv, CryptCommit PROVE CommitInv'
    OBVIOUS
  <1> USE DEF CommitInv
  <1>1. /\ commitCounter \in Nat
        /\ commitCounter' = commitCounter + 1
        /\ commitNonce' = commitNonce
        /\ signedWith' = signedWith
        /\ UNCHANGED <<stateSaved, savedCommits, undone>>
    BY DEF CryptCommit, CommitTypeOK, commitNvVars
  <1>2. /\ commitArray' = commitArray \cup {BitOf(commitCounter)}
        /\ BitOf(commitCounter) \in Index
    BY <1>1, BitOfTruncated, BitOfIsIndex DEF CryptCommit
  <1>3. CommitTypeOK'
    BY <1>1, <1>2 DEF CommitTypeOK
  <1>4. OneSignaturePerCommitment'
    BY <1>1 DEF OneSignaturePerCommitment
  <1>5. \E n \in Young' : n = commitCounter /\ ~ Signed(n)'
    <2>1. commitCounter \in Young'
      BY <1>1, CommitAssumption DEF Young
    <2>2. \A n : n = commitCounter => ~ Signed(n)
      BY <1>1 DEF Signed, ArrayIsExact
    <2>3. \A n : Signed(n)' <=> Signed(n)
      BY <1>1 DEF Signed
    <2> QED
      BY <2>1, <2>2, <2>3
  <1>6. \A n : Signed(n)' <=> Signed(n)
    BY <1>1 DEF Signed
  <1>7. \A n \in Young' : n = commitCounter \/ n \in Young
    BY <1>1, CommitAssumption DEF Young
  <1>8. \A n \in Young : BitOf(n) # BitOf(commitCounter) => n \in Young'
    <2> SUFFICES ASSUME NEW n \in Young, BitOf(n) # BitOf(commitCounter)
                 PROVE  n \in Young'
      OBVIOUS
    <2>1. n \in 0 .. (commitCounter - 1) /\ n >= commitCounter - IndexSize
      BY DEF Young
    <2>2. n + IndexSize # commitCounter
      BY <2>1, BitOfIsIndex
    <2> QED
      BY <1>1, <2>1, <2>2, CommitAssumption DEF Young
  <1>9. ArrayIsExact'
    <2>1. \A i \in 1 .. Len(signedWith) :
             /\ signedWith[i][1] <= commitNonce
             /\ signedWith[i][1] = commitNonce => signedWith[i][2] < commitCounter + 1
      <3> SUFFICES ASSUME NEW i \in 1 .. Len(signedWith)
                   PROVE  /\ signedWith[i][1] <= commitNonce
                          /\ signedWith[i][1] = commitNonce
                                => signedWith[i][2] < commitCounter + 1
        OBVIOUS
      <3>1. signedWith[i] \in Nat \X Nat
        BY DEF CommitTypeOK
      <3> QED
        BY <1>1, <3>1 DEF ArrayIsExact
    <2>2. \A b \in commitArray' : \E n \in Young' : BitOf(n) = b /\ ~ Signed(n)'
      BY <1>2, <1>5, <1>6, <1>8 DEF ArrayIsExact
    <2>3. \A n \in Young' : ~ Signed(n)' => BitOf(n) \in commitArray'
      BY <1>2, <1>6, <1>7 DEF ArrayIsExact
    <2>4. \A n : BitOf(n)' = BitOf(n)
      BY DEF BitOf
    <2> QED
      BY <1>1, <2>1, <2>2, <2>3, <2>4 DEF ArrayIsExact
  <1> QED
    BY <1>3, <1>4, <1>9

\* A signature uses an open commitment, and clears its bit and no other.
LEMMA SignEcdaaInv ==
    ASSUME CommitInv, NEW c \in Count, SignEcdaa(c)
    PROVE  CommitInv'
  <1> DEFINE n == CommittedCount(c)
  <1> USE DEF CommitInv
  <1>1. n \in Young /\ ~ Signed(n) /\ BitOf(n) = BitOf(c)
    BY AcceptedCount DEF SignEcdaa
  <1>2. /\ commitCounter' = commitCounter
        /\ commitNonce' = commitNonce
        /\ commitArray' = commitArray \ {BitOf(n)}
        /\ signedWith' = Append(signedWith, <<commitNonce, n>>)
        /\ UNCHANGED <<stateSaved, savedCommits, undone>>
    BY <1>1 DEF SignEcdaa, commitNvVars
  <1> HIDE DEF n
  <1>3. signedWith \in Seq(Nat \X Nat) /\ <<commitNonce, n>> \in Nat \X Nat /\ n < commitCounter
    BY <1>1 DEF CommitTypeOK, Young
  <1>4. /\ Len(signedWith') = Len(signedWith) + 1
        /\ \A i \in 1 .. Len(signedWith) : signedWith'[i] = signedWith[i]
        /\ signedWith'[Len(signedWith) + 1] = <<commitNonce, n>>
        /\ Len(signedWith) \in Nat
    BY <1>2, <1>3
  <1>5. CommitTypeOK'
    BY <1>2, <1>3 DEF CommitTypeOK
  <1>6. \A i \in 1 .. Len(signedWith') :
           i \in 1 .. Len(signedWith) \/ i = Len(signedWith) + 1
    BY <1>4
  <1>7. OneSignaturePerCommitment'
    <2>1. \A i \in 1 .. Len(signedWith) : signedWith[i] # <<commitNonce, n>>
      BY <1>1 DEF Signed
    <2> QED
      BY <1>4, <1>6, <2>1 DEF OneSignaturePerCommitment
  <1>8. \A m \in Nat : Signed(m)' <=> Signed(m) \/ m = n
    BY <1>2, <1>4, <1>6 DEF Signed
  <1>9. Young' = Young /\ Young \subseteq Nat
    BY <1>2 DEF Young, CommitTypeOK
  <1>10. ArrayIsExact'
    <2>1. \A i \in 1 .. Len(signedWith') :
             /\ signedWith'[i][1] <= commitNonce
             /\ signedWith'[i][1] = commitNonce => signedWith'[i][2] < commitCounter
      <3> SUFFICES ASSUME NEW i \in 1 .. Len(signedWith')
                   PROVE  /\ signedWith'[i][1] <= commitNonce
                          /\ signedWith'[i][1] = commitNonce
                                => signedWith'[i][2] < commitCounter
        OBVIOUS
      <3>1. CASE i \in 1 .. Len(signedWith)
        BY <1>4, <3>1 DEF ArrayIsExact
      <3>2. CASE i = Len(signedWith) + 1
        <4>1. signedWith'[i][1] = commitNonce /\ signedWith'[i][2] = n
          BY <1>4, <3>2
        <4> QED
          BY <1>3, <4>1 DEF CommitTypeOK
      <3> QED
        BY <1>6, <3>1, <3>2
    <2>2. \A b \in commitArray' : \E m \in Young' : BitOf(m) = b /\ ~ Signed(m)'
      BY <1>1, <1>2, <1>8, <1>9 DEF ArrayIsExact
    <2>3. \A m \in Young' : ~ Signed(m)' => BitOf(m) \in commitArray'
      <3> SUFFICES ASSUME NEW m \in Young, ~ Signed(m)'
                   PROVE  BitOf(m) \in commitArray'
        BY <1>9
      <3>1. ~ Signed(m) /\ m # n
        BY <1>8, <1>9
      <3>2. BitOf(m) # BitOf(n)
        BY <1>1, <3>1, YoungBitsDiffer
      <3> QED
        BY <1>2, <3>1, <3>2 DEF ArrayIsExact
    <2>4. \A m : BitOf(m)' = BitOf(m)
      BY DEF BitOf
    <2> QED
      BY <1>2, <2>1, <2>2, <2>3, <2>4 DEF ArrayIsExact
  <1> QED
    BY <1>5, <1>7, <1>10

\* A reset forgets every commitment, and its fresh nonce keeps the old
\* signatures apart from the new ones.
LEMMA CommitResetInv == CommitInv /\ CommitReset => CommitInv'
  <1> SUFFICES ASSUME CommitInv, CommitReset PROVE CommitInv'
    OBVIOUS
  <1> USE DEF CommitInv
  <1>1. CommitTypeOK'
    BY DEF CommitReset, CommitTypeOK, commitNvVars
  <1>2. OneSignaturePerCommitment'
    BY DEF CommitReset, OneSignaturePerCommitment
  <1>3. Young' = {}
    BY CommitAssumption DEF CommitReset, Young
  <1>4. \A i \in 1 .. Len(signedWith) :
           /\ signedWith[i][1] <= commitNonce'
           /\ signedWith[i][1] # commitNonce'
    <2> SUFFICES ASSUME NEW i \in 1 .. Len(signedWith)
                 PROVE  signedWith[i][1] <= commitNonce' /\ signedWith[i][1] # commitNonce'
      OBVIOUS
    <2>1. signedWith[i] \in Nat \X Nat
      BY DEF CommitTypeOK
    <2> QED
      BY <2>1 DEF CommitReset, CommitTypeOK, ArrayIsExact
  <1> QED
    BY <1>1, <1>2, <1>3, <1>4 DEF CommitReset, ArrayIsExact

\* A startup that reads the saved state takes over what is exact.
LEMMA CommitResumeInv == CommitInv /\ SavedIsExact /\ CommitResume => CommitInv'
  <1> SUFFICES ASSUME CommitInv, SavedIsExact, CommitResume PROVE CommitInv'
    OBVIOUS
  <1>1. /\ commitCounter' = savedCommits.counter
        /\ commitArray' = savedCommits.array
        /\ signedWith' = savedCommits.signed
        /\ commitNonce' = commitNonce
        /\ Saved!OneSignaturePerCommitment /\ Saved!ArrayIsExact
    BY DEF CommitResume, SavedIsExact
  <1>2. CommitTypeOK'
    <2>1. \A i \in 1 .. Len(signedWith) : signedWith[i] \in Nat \X Nat
      BY DEF CommitInv, CommitTypeOK
    <2>2. \A i \in (Len(savedCommits.signed) + 1) .. Len(signedWith) : i \in 1 .. Len(signedWith)
      BY DEF CommitInv, CommitTypeOK
    <2>3. undone' \subseteq Nat \X Nat
      BY <2>1, <2>2 DEF CommitResume, CommitInv, CommitTypeOK
    <2>4. /\ savedCommits.counter \in Nat /\ savedCommits.array \subseteq Index
          /\ savedCommits.signed \in Seq(Nat \X Nat)
      BY DEF CommitInv, CommitTypeOK
    <2>5. savedCommits' \in [counter : Nat, array : SUBSET Index, signed : Seq(Nat \X Nat)]
      BY NoneSavedType DEF CommitResume
    <2> QED
      BY <1>1, <2>3, <2>4, <2>5 DEF CommitResume, CommitInv, CommitTypeOK
  <1>3. OneSignaturePerCommitment'
    BY <1>1 DEF OneSignaturePerCommitment, Saved!OneSignaturePerCommitment
  <1>4. Young' = Saved!Young /\ \A n : Signed(n)' <=> Saved!Signed(n)
    BY <1>1 DEF Young, Saved!Young, Signed, Saved!Signed
  <1>5. \A n : BitOf(n)' = Saved!BitOf(n)
    BY DEF BitOf, Saved!BitOf
  <1>6. ArrayIsExact'
    BY <1>1, <1>4, <1>5 DEF ArrayIsExact, Saved!ArrayIsExact
  <1> QED
    BY <1>2, <1>3, <1>6 DEF CommitInv

\* TPM2_Shutdown saves what is exact.
LEMMA CommitShutdownInv == CommitInv /\ CommitShutdown => CommitInv' /\ SavedIsExact'
  <1> SUFFICES ASSUME CommitInv, CommitShutdown PROVE CommitInv' /\ SavedIsExact'
    OBVIOUS
  <1>1. /\ UNCHANGED <<commitCounter, commitArray, commitNonce, signedWith, undone>>
        /\ savedCommits'.counter = commitCounter
        /\ savedCommits'.array = commitArray
        /\ savedCommits'.signed = signedWith
    BY DEF CommitShutdown
  <1>2. CommitTypeOK'
    BY <1>1 DEF CommitShutdown, CommitInv, CommitTypeOK
  <1>3. /\ OneSignaturePerCommitment' /\ Saved!OneSignaturePerCommitment'
        /\ Young' = Young /\ Saved!Young' = Young
        /\ \A n : (Signed(n)' <=> Signed(n)) /\ (Saved!Signed(n)' <=> Signed(n))
        /\ \A n : BitOf(n)' = BitOf(n) /\ Saved!BitOf(n)' = BitOf(n)
    BY <1>1 DEF CommitInv, OneSignaturePerCommitment, Saved!OneSignaturePerCommitment, Young,
                Saved!Young, Signed, Saved!Signed, BitOf, Saved!BitOf
  <1>4. ArrayIsExact' /\ Saved!ArrayIsExact'
    BY <1>1, <1>3 DEF CommitInv, ArrayIsExact, Saved!ArrayIsExact
  <1> QED
    BY <1>2, <1>3, <1>4 DEF CommitInv, SavedIsExact

\* What is saved stays as it is until it is read or void.
LEMMA SavedStays ==
    ASSUME SavedIsExact, stateSaved' => UNCHANGED <<commitNonce, stateSaved, savedCommits>>
    PROVE  SavedIsExact'
  <1> SUFFICES ASSUME stateSaved' PROVE Saved!OneSignaturePerCommitment' /\ Saved!ArrayIsExact'
    BY DEF SavedIsExact
  <1>1. UNCHANGED <<commitNonce, stateSaved, savedCommits>>
    OBVIOUS
  <1>2. /\ Saved!OneSignaturePerCommitment'
        /\ Saved!Young' = Saved!Young
        /\ \A n : Saved!Signed(n)' <=> Saved!Signed(n)
        /\ \A n : Saved!BitOf(n)' = Saved!BitOf(n)
    BY <1>1 DEF SavedIsExact, Saved!OneSignaturePerCommitment, Saved!Young, Saved!Signed,
                Saved!BitOf
  <1>3. Saved!ArrayIsExact'
    BY <1>1, <1>2 DEF SavedIsExact, Saved!ArrayIsExact
  <1> QED
    BY <1>2, <1>3

\* Every step of the commitments keeps the invariant.
LEMMA CommitStep ==
    CommitInv /\ SavedIsExact /\ [CommitNext]_commitVars => CommitInv' /\ SavedIsExact'
  <1> SUFFICES ASSUME CommitInv, SavedIsExact, [CommitNext]_commitVars
               PROVE  CommitInv' /\ SavedIsExact'
    OBVIOUS
  <1>1. CASE CryptCommit
    <2>1. UNCHANGED <<commitNonce, stateSaved, savedCommits>>
      BY <1>1 DEF CryptCommit, commitNvVars
    <2> QED
      BY <1>1, <2>1, CryptCommitInv, SavedStays
  <1>2. ASSUME NEW c \in Count, SignEcdaa(c) PROVE CommitInv' /\ SavedIsExact'
    <2>1. UNCHANGED <<commitNonce, stateSaved, savedCommits>>
      BY <1>2 DEF SignEcdaa, commitNvVars
    <2> QED
      BY <1>2, <2>1, SignEcdaaInv, SavedStays
  <1>3. CASE CommitShutdown
    BY <1>3, CommitShutdownInv
  <1>4. CASE CommitClearOrderly
    <2>1. CommitTypeOK'
      <3>1. savedCommits' \in [counter : Nat, array : SUBSET Index, signed : Seq(Nat \X Nat)]
        BY <1>4, NoneSavedType DEF CommitClearOrderly
      <3> QED
        BY <1>4, <3>1 DEF CommitClearOrderly, CommitInv, CommitTypeOK
    <2>2. OneSignaturePerCommitment' /\ ArrayIsExact' /\ ~ stateSaved'
      BY <1>4 DEF CommitClearOrderly, CommitInv, OneSignaturePerCommitment, ArrayIsExact, Young,
                  Signed, BitOf
    <2> QED
      BY <2>1, <2>2 DEF CommitInv, SavedIsExact
  <1>5. CASE CommitReset
    <2>1. ~ stateSaved'
      BY <1>5 DEF CommitReset, commitNvVars
    <2> QED
      BY <1>5, <2>1, CommitResetInv DEF SavedIsExact
  <1>6. CASE CommitResume
    <2>1. ~ stateSaved'
      BY <1>6 DEF CommitResume
    <2> QED
      BY <1>6, <2>1, CommitResumeInv DEF SavedIsExact
  <1>7. CASE UNCHANGED commitVars
    <2>1. UNCHANGED <<commitNonce, stateSaved, savedCommits>>
      BY <1>7 DEF commitVars, commitNvVars
    <2>2. CommitInv'
      BY <1>7 DEF commitVars, commitNvVars, CommitInv, CommitTypeOK, OneSignaturePerCommitment,
                  ArrayIsExact, Young, Signed, BitOf
    <2> QED
      BY <2>1, <2>2, SavedStays
  <1> QED
    BY <1>1, <1>2, <1>3, <1>4, <1>5, <1>6, <1>7 DEF CommitNext

\* The array is exact in every reachable state, and so is what was saved of it.
THEOREM CommitInvariant == CommitSpec => [](CommitInv /\ SavedIsExact)
  BY CommitStep, CommitInitInv, PTL DEF CommitSpec

\* TPM2_Sign never makes two signatures from one commitment, whatever the
\* sizes of gr.commitArray and of the counts.
THEOREM OneSignature == CommitSpec => []OneSignaturePerCommitment
  BY CommitInvariant, PTL DEF CommitInv

\* Every variable of the commitments keeps its type.
THEOREM CommitTypes == CommitSpec => []CommitTypeOK
  BY CommitInvariant, PTL DEF CommitInv

\* A bit of gr.commitArray is SET exactly while its commitment is open.
THEOREM ExactArray == CommitSpec => []ArrayIsExact
  BY CommitInvariant, PTL DEF CommitInv

\* The count of an open commitment is accepted, and its counter rebuilt.
LEMMA OpenCount ==
    ASSUME CommitInv, NEW n \in Young, ~ Signed(n)
    PROVE  /\ n % CountRange \in Count
           /\ AcceptsCount(n % CountRange)
           /\ CommittedCount(n % CountRange) = n
  <1>1. n \in Int /\ CountRange \in Nat /\ CountRange > 0
    BY CommitAssumption DEF Young
  <1>2. n % CountRange \in Count
    BY <1>1, DivMod DEF Count
  <1>3. BitOf(n % CountRange) = BitOf(n)
    BY <1>1, BitOfTruncated
  <1>4. BitOf(n) \in commitArray
    BY DEF CommitInv, ArrayIsExact
  <1> QED
    BY <1>2, <1>3, <1>4, RebuiltCount DEF CommitInv, AcceptsCount

\* CryptGenerateR accepts exactly the counts of open commitments, and rebuilds
\* their counters.
THEOREM ExactCounts == CommitSpec => []CountsAreExact
  <1>1. CommitInv => RebuildsAnOpenCommitment
    BY AcceptedCount DEF RebuildsAnOpenCommitment
  <1>2. CommitInv => OpenCommitmentIsAccepted
    BY OpenCount DEF OpenCommitmentIsAccepted
  <1> QED
    BY <1>1, <1>2, CommitInvariant, PTL DEF CountsAreExact

-----------------------------------------------------------------------------
(* Sessions. *)

USE SessionsAssumption

\* A session is loaded, with a record of its own, or its handle is free.
LEMMA LoadedSession ==
    ASSUME SessionsTypeOK, NEW h \in SessionHandle
    PROVE  /\ Loaded(h) => sessions[h] \in Session
           /\ ~ Loaded(h) => sessions[h] = NoSession
  BY DEF SessionsTypeOK, Loaded

\* A record of a session is never that of a free handle.
LEMMA SessionIsLoaded ==
    ASSUME NEW s \in Session
    PROVE  s # NoSession
  BY DEF Session, NoSession, Digest

LEMMA InitInv == SessionsInit => SessionsInv
  <1> SUFFICES ASSUME SessionsInit PROVE SessionsInv
    OBVIOUS
  <1>1. SessionsTypeOK
    BY DEF SessionsInit, SessionsTypeOK
  <1>2. Len(consumed) = 0
    BY DEF SessionsInit
  <1>3. \A h \in SessionHandle : ~ Loaded(h)
    BY DEF SessionsInit, Loaded
  <1> QED
    BY <1>1, <1>2, <1>3 DEF SessionsInv, SignNeedsConsent, SignNeedsApprovedPcrs,
       NonceAuthorizesOnce, DigestIsProof, NoncesDiffer, ConsumedNoncesAreOld, PcrCounterPositive, SessionsInit

\* Steps that change one session: it is enough that the new record, if there
\* is one, has a nonce of its own and is as its digest says, and that the step
\* takes nothing away from what the digests of the other sessions prove.
LEMMA OneSessionStep ==
    ASSUME SessionsTypeOK, DigestIsProof,
           NEW h \in SessionHandle, NEW s \in Session \cup {NoSession},
           sessions' = [sessions EXCEPT ![h] = s],
           s # NoSession => DigestProves(s)',
           s # NoSession => \A g \in SessionHandle \ {h} :
                                Loaded(g) => sessions[g].nonce # s.nonce,
           \A t \in Session : DigestProves(t) /\ t.nonce # sessions[h].nonce => DigestProves(t)'
    PROVE  DigestIsProof'
  <1>1. /\ sessions'[h] = s
        /\ \A g \in SessionHandle \ {h} : sessions'[g] = sessions[g]
    BY DEF SessionsTypeOK
  <1>2. \A g \in SessionHandle \ {h} : Loaded(g)' <=> Loaded(g)
    BY <1>1 DEF Loaded
  <1>3. Loaded(h)' => s # NoSession
    BY <1>1 DEF Loaded
  <1>4. ASSUME NEW g \in SessionHandle \ {h}, Loaded(g)
        PROVE  sessions[g].nonce # sessions[h].nonce
    <2>1. CASE Loaded(h)
      BY <1>4, <2>1 DEF DigestIsProof, NoncesDiffer
    <2>2. CASE ~ Loaded(h)
      <3>1. sessions[h].nonce = 0
        BY <2>2, LoadedSession DEF NoSession, EmptyNonce
      <3>2. sessions[g].nonce \in 1 .. nonceCount
        BY <1>4 DEF DigestIsProof, DigestProves
      <3> QED
        BY <3>1, <3>2 DEF SessionsTypeOK
    <2> QED
      BY <2>1, <2>2
  <1>5. NoncesDiffer'
    <2> SUFFICES ASSUME NEW f \in SessionHandle, NEW g \in SessionHandle,
                        Loaded(f)', Loaded(g)', sessions'[f].nonce = sessions'[g].nonce
                 PROVE  f = g
      BY DEF NoncesDiffer
    <2> QED
      BY <1>1, <1>2, <1>3 DEF DigestIsProof, NoncesDiffer
  <1>6. ASSUME NEW g \in SessionHandle, Loaded(g)'
        PROVE  DigestProves(sessions[g])'
    <2>1. CASE g = h
      BY <1>1, <1>3, <1>6, <2>1 DEF DigestProves, PcrsChecked
    <2>2. CASE g # h
      <3>1. Loaded(g) /\ sessions'[g] = sessions[g] /\ sessions[g] \in Session
        BY <1>1, <1>2, <1>6, <2>2, LoadedSession
      <3>2. PICK t \in Session : t = sessions[g]
        BY <3>1
      <3>3. DigestProves(t) /\ t.nonce # sessions[h].nonce
        BY <1>4, <2>2, <3>1, <3>2 DEF DigestIsProof
      <3>4. DigestProves(t)'
        BY <3>3
      <3> QED
        BY <3>1, <3>2, <3>4 DEF DigestProves, PcrsChecked
    <2> QED
      BY <2>1, <2>2
  <1> QED
    BY <1>5, <1>6 DEF DigestIsProof

\* What the other conjuncts of the invariant say stays true when no session is
\* used and no nonce of the wallet's is lost.
LEMMA HistoryKept ==
    ASSUME SessionsInv, consumed' = consumed, walletSigned \subseteq walletSigned',
           nonceCount' \in Nat, nonceCount <= nonceCount', pcrCounter' > 0
    PROVE  SignNeedsConsent' /\ SignNeedsApprovedPcrs' /\ NonceAuthorizesOnce'
           /\ ConsumedNoncesAreOld' /\ PcrCounterPositive'
  <1>1. SignNeedsConsent'
    BY DEF SessionsInv, SignNeedsConsent, Consent
  <1>2. SignNeedsApprovedPcrs'
    BY DEF SessionsInv, SignNeedsApprovedPcrs
  <1>3. NonceAuthorizesOnce'
    BY DEF SessionsInv, NonceAuthorizesOnce
  <1>4. \A n \in 1 .. nonceCount : n \in 1 .. nonceCount'
    BY DEF SessionsInv, SessionsTypeOK
  <1>5. ConsumedNoncesAreOld'
    BY <1>4 DEF SessionsInv, ConsumedNoncesAreOld
  <1> QED
    BY <1>1, <1>2, <1>3, <1>5 DEF PcrCounterPositive

\* The commands that only move the policy of one session on.
LEMMA PolicyStep ==
    ASSUME SessionsInv, NEW h \in SessionHandle, Loaded(h), NEW s \in Session,
           s.nonce = sessions[h].nonce,
           DigestProves(s),
           sessions' = [sessions EXCEPT ![h] = s],
           UNCHANGED <<nonceCount, walletSigned, pcrs, pcrCounter, consumed>>
    PROVE  SessionsInv'
  <1> USE DEF SessionsInv
  <1>1. SessionsTypeOK'
    BY DEF SessionsTypeOK
  <1>2. \A t : DigestProves(t)' <=> DigestProves(t)
    BY DEF DigestProves, Consent, PcrsChecked
  <1>3. \A g \in SessionHandle \ {h} : Loaded(g) => sessions[g].nonce # s.nonce
    BY DEF DigestIsProof, NoncesDiffer
  <1>4. DigestIsProof'
    BY <1>2, <1>3, OneSessionStep
  <1> QED
    BY <1>1, <1>4, HistoryKept DEF SessionsTypeOK, PcrCounterPositive

-----------------------------------------------------------------------------
(* The actions. *)

LEMMA StartAuthSessionInv ==
    ASSUME SessionsInv, NEW h \in SessionHandle, StartAuthSession(h)
    PROVE  SessionsInv'
  <1> USE DEF SessionsInv
  <1>1. PICK n \in Nat : n = nonceCount + 1
    BY DEF SessionsTypeOK
  <1>2. PICK s \in Session : s = FreshSession(n)
    BY DEF FreshSession, Session, Digest
  <1>3. /\ s # NoSession
        /\ s.nonce = n /\ s.digest = "zero" /\ s.pcrCounter = 0
        /\ nonceCount \in Nat /\ pcrCounter \in Nat /\ n > nonceCount
    BY <1>1, <1>2, SessionIsLoaded DEF FreshSession, SessionsTypeOK
  <1>4. /\ sessions' = [sessions EXCEPT ![h] = s]
        /\ nonceCount' = n
        /\ UNCHANGED <<walletSigned, pcrs, pcrCounter, consumed>>
    BY <1>1, <1>2 DEF StartAuthSession
  <1>5. SessionsTypeOK'
    BY <1>4 DEF SessionsTypeOK
  <1>6. DigestProves(s)'
    <2>1. \A i \in 1 .. Len(consumed) : consumed[i].nonce # n
      BY <1>3 DEF ConsumedNoncesAreOld
    <2>2. n \in 1 .. nonceCount' /\ s.pcrCounter <= pcrCounter
      BY <1>3, <1>4
    <2> QED
      BY <1>3, <1>4, <2>1, <2>2 DEF DigestProves
  <1>7. \A g \in SessionHandle : Loaded(g) => sessions[g].nonce # s.nonce
    BY <1>3 DEF DigestIsProof, DigestProves
  <1>8. ASSUME NEW t \in Session, DigestProves(t)
        PROVE  DigestProves(t)'
    <2>1. t.nonce \in 1 .. nonceCount'
      BY <1>3, <1>4, <1>8 DEF DigestProves
    <2> QED
      BY <1>4, <1>8, <2>1 DEF DigestProves, Consent, PcrsChecked
  <1>9. DigestIsProof'
    BY <1>4, <1>6, <1>7, <1>8, OneSessionStep
  <1> QED
    BY <1>1, <1>3, <1>4, <1>5, <1>9, HistoryKept DEF SessionsTypeOK, PcrCounterPositive

LEMMA PolicySignedInv ==
    ASSUME SessionsInv, NEW h \in SessionHandle, NEW n \in Nat, NEW sig \in Nat,
           PolicySigned(h, n, sig)
    PROVE  SessionsInv'
  <1> USE DEF SessionsInv
  <1> DEFINE r == sessions[h]
             s == [r EXCEPT !.digest = Extend(@, "PolicySigned")]
  <1>1. Loaded(h) /\ r \in Session /\ DigestProves(r)
    BY LoadedSession DEF PolicySigned, CanPolicySigned, DigestIsProof
  <1>2. Consent(r.nonce)
    BY DEF PolicySigned, CanPolicySigned, Consent
  <1>3. /\ s \in Session
        /\ s.nonce = r.nonce /\ s.commandCode = r.commandCode /\ s.pcrCounter = r.pcrCounter
        /\ s.digest \in {"signed", "other"}
    BY <1>1 DEF Session, Extend, Digest
  <1>4. DigestProves(s)
    BY <1>1, <1>2, <1>3 DEF DigestProves
  <1>5. /\ sessions' = [sessions EXCEPT ![h] = s]
        /\ UNCHANGED <<nonceCount, walletSigned, pcrs, pcrCounter, consumed>>
    BY DEF PolicySigned, SessionsTypeOK
  <1> QED
    BY <1>1, <1>3, <1>4, <1>5, PolicyStep

LEMMA PolicyPCRInv ==
    ASSUME SessionsInv, NEW h \in SessionHandle, PolicyPCR(h)
    PROVE  SessionsInv'
  <1> USE DEF SessionsInv
  <1> DEFINE r == sessions[h]
             step == IF pcrs = "approved" THEN "PolicyPCR" ELSE "PolicyPCR of other values"
             s == [r EXCEPT !.digest = Extend(@, step), !.pcrCounter = pcrCounter]
  <1>1. Loaded(h) /\ r \in Session /\ DigestProves(r)
    BY LoadedSession DEF PolicyPCR, CanPolicyPCR, DigestIsProof
  <1>2. /\ s \in Session
        /\ s.nonce = r.nonce /\ s.commandCode = r.commandCode /\ s.pcrCounter = pcrCounter
        /\ s.digest \in {"signedPcr", "other"}
        /\ s.digest = "signedPcr" => r.digest = "signed" /\ pcrs = "approved"
    BY <1>1 DEF Session, Extend, Digest, SessionsTypeOK
  <1>3. pcrCounter \in Nat /\ pcrCounter # 0
    BY DEF SessionsTypeOK, PcrCounterPositive
  <1> HIDE DEF s
  <1>4. DigestProves(s)
    BY <1>1, <1>2, <1>3 DEF DigestProves, PcrsChecked
  <1>5. /\ sessions' = [sessions EXCEPT ![h] = s]
        /\ UNCHANGED <<nonceCount, walletSigned, pcrs, pcrCounter, consumed>>
    BY DEF s, PolicyPCR, SessionsTypeOK
  <1> QED
    BY <1>1, <1>2, <1>4, <1>5, PolicyStep

LEMMA PolicyCommandCodeInv ==
    ASSUME SessionsInv, NEW h \in SessionHandle, NEW c \in Command, PolicyCommandCode(h, c)
    PROVE  SessionsInv'
  <1> USE DEF SessionsInv
  <1> DEFINE r == sessions[h]
             step == IF c = "Commit" THEN "PolicyCommandCode" ELSE "another code"
             s == [r EXCEPT !.digest = Extend(@, step), !.commandCode = c]
  <1>1. Loaded(h) /\ r \in Session /\ DigestProves(r)
    BY LoadedSession DEF PolicyCommandCode, CanPolicyCommandCode, DigestIsProof
  <1>2. /\ s \in Session
        /\ s.nonce = r.nonce /\ s.commandCode = c /\ s.pcrCounter = r.pcrCounter
        /\ s.digest \in {"commitCode", "other"}
        /\ s.digest = "commitCode" => c = "Commit"
    BY <1>1 DEF Session, Extend, Digest, Command
  <1>3. DigestProves(s)
    BY <1>1, <1>2 DEF DigestProves
  <1>4. /\ sessions' = [sessions EXCEPT ![h] = s]
        /\ UNCHANGED <<nonceCount, walletSigned, pcrs, pcrCounter, consumed>>
    BY DEF PolicyCommandCode, SessionsTypeOK
  <1> QED
    BY <1>1, <1>2, <1>3, <1>4, PolicyStep

LEMMA PolicyAuthorizeInv ==
    ASSUME SessionsInv, NEW h \in SessionHandle, NEW d \in Digest, NEW t \in Digest,
           PolicyAuthorize(h, d, t)
    PROVE  SessionsInv'
  <1> USE DEF SessionsInv
  <1> DEFINE r == sessions[h]
             s == [r EXCEPT !.digest = "authorized"]
  <1>1. Loaded(h) /\ r \in Session /\ DigestProves(r) /\ r.digest \in Approved
    BY LoadedSession DEF PolicyAuthorize, CanPolicyAuthorize, DigestIsProof
  <1>2. /\ s \in Session
        /\ s.nonce = r.nonce /\ s.commandCode = r.commandCode /\ s.pcrCounter = r.pcrCounter
        /\ s.digest = "authorized"
    BY <1>1 DEF Session, Digest
  <1>3. r.commandCode # "Commit" => Consent(r.nonce) /\ PcrsChecked(r)
    BY <1>1 DEF DigestProves, Approved
  <1>4. DigestProves(s)
    BY <1>1, <1>2, <1>3 DEF DigestProves, PcrsChecked
  <1>5. /\ sessions' = [sessions EXCEPT ![h] = s]
        /\ UNCHANGED <<nonceCount, walletSigned, pcrs, pcrCounter, consumed>>
    BY DEF PolicyAuthorize, SessionsTypeOK
  <1> QED
    BY <1>1, <1>2, <1>4, <1>5, PolicyStep

\* The session that authorizes a command has all that the properties ask for;
\* afterwards its nonce is gone.
LEMMA UseSessionInv ==
    ASSUME SessionsInv, NEW h \in SessionHandle, NEW c \in Command, NEW b \in BOOLEAN,
           UseSession(h, c, b)
    PROVE  SessionsInv'
  <1> USE DEF SessionsInv
  <1> DEFINE r == sessions[h]
             e == [nonce |-> r.nonce, command |-> c, pcrs |-> pcrs]
  <1>1. /\ Loaded(h) /\ r \in Session /\ DigestProves(r)
        /\ PCRValueIsCurrent(r) /\ r.digest = "authorized" /\ r.commandCode \in {"none", c}
    <2>1. /\ Loaded(h) /\ PCRValueIsCurrent(r) /\ r.digest = "authorized"
          /\ r.commandCode \in {"none", c}
      BY DEF UseSession, CheckPolicyAuthSession
    <2>2. r \in Session /\ DigestProves(r)
      BY <2>1, LoadedSession DEF DigestIsProof
    <2> QED
      BY <2>1, <2>2
  <1>2. PICK n \in Nat, s \in Session \cup {NoSession} :
           /\ sessions' = [sessions EXCEPT ![h] = s]
           /\ nonceCount' = n /\ n >= nonceCount
           /\ s # NoSession => n = nonceCount + 1 /\ s = FreshSession(n)
    <2>1. nonceCount \in Nat
      BY DEF SessionsTypeOK
    <2>2. FreshSession(nonceCount + 1) \in Session
      BY <2>1 DEF FreshSession, Session, Digest
    <2>3. \/ /\ nonceCount' = nonceCount + 1
             /\ sessions' = [sessions EXCEPT ![h] = FreshSession(nonceCount + 1)]
          \/ sessions' = [sessions EXCEPT ![h] = NoSession] /\ nonceCount' = nonceCount
      BY DEF UseSession
    <2> HIDE DEF SessionsInv
    <2>4. CASE /\ nonceCount' = nonceCount + 1
               /\ sessions' = [sessions EXCEPT ![h] = FreshSession(nonceCount + 1)]
      <3>1. nonceCount + 1 \in Nat /\ FreshSession(nonceCount + 1) \in Session \cup {NoSession}
        BY <2>1, <2>2
      <3> USE <2>1, <3>1
      <3> WITNESS nonceCount + 1 \in Nat, FreshSession(nonceCount + 1) \in Session \cup {NoSession}
      <3> QED
        BY <2>1, <2>4
    <2>5. CASE sessions' = [sessions EXCEPT ![h] = NoSession] /\ nonceCount' = nonceCount
      <3> USE <2>1
      <3> WITNESS nonceCount \in Nat, NoSession \in Session \cup {NoSession}
      <3> QED
        BY <2>1, <2>5
    <2> QED
      BY <2>3, <2>4, <2>5
  <1>3. consumed' = Append(consumed, e) /\ UNCHANGED <<walletSigned, pcrs, pcrCounter>>
    BY DEF UseSession
  <1>4. c = "Sign" => Consent(r.nonce) /\ pcrs = "approved"
    BY <1>1 DEF DigestProves, PcrsChecked, PCRValueIsCurrent
  <1>5. /\ e \in [nonce : Nat, command : Command, pcrs : {"approved", "changed"}]
        /\ e.nonce = r.nonce /\ e.command = c /\ e.pcrs = pcrs
    BY <1>1 DEF Session, SessionsTypeOK
  <1> HIDE DEF e, r
  <1>6. /\ consumed \in Seq([nonce : Nat, command : Command, pcrs : {"approved", "changed"}])
        /\ nonceCount \in Nat /\ pcrCounter \in Nat
    BY DEF SessionsTypeOK
  <1>7. /\ Len(consumed) \in Nat
        /\ Len(consumed') = Len(consumed) + 1
        /\ \A i \in 1 .. Len(consumed) : consumed'[i] = consumed[i]
        /\ consumed'[Len(consumed) + 1] = e
        /\ \A i \in 1 .. Len(consumed') : i \in 1 .. Len(consumed) \/ i = Len(consumed) + 1
    BY <1>3, <1>5, <1>6
  <1>8. SessionsTypeOK'
    BY <1>2, <1>3, <1>5, <1>6 DEF SessionsTypeOK
  <1>9. SignNeedsConsent' /\ SignNeedsApprovedPcrs'
    <2>1. SignNeedsConsent'
      BY <1>3, <1>4, <1>5, <1>7 DEF SignNeedsConsent, Consent
    <2>2. SignNeedsApprovedPcrs'
      BY <1>4, <1>5, <1>7 DEF SignNeedsApprovedPcrs
    <2> QED
      BY <2>1, <2>2
  <1>10. \A i \in 1 .. Len(consumed) : consumed[i].nonce # r.nonce
    BY <1>1 DEF DigestProves
  <1>11. NonceAuthorizesOnce'
    BY <1>5, <1>7, <1>10 DEF NonceAuthorizesOnce
  <1>12. r.nonce \in 1 .. nonceCount
    BY <1>1 DEF DigestProves
  <1>13. ConsumedNoncesAreOld'
    <2>1. \A i \in 1 .. Len(consumed') : consumed'[i].nonce \in 1 .. nonceCount
      BY <1>5, <1>7, <1>12 DEF ConsumedNoncesAreOld
    <2>2. \A x \in 1 .. nonceCount : x \in 1 .. nonceCount'
      BY <1>2, <1>6
    <2> QED
      BY <2>1, <2>2 DEF ConsumedNoncesAreOld
  <1>14. s # NoSession => DigestProves(s)'
    <2> SUFFICES ASSUME s # NoSession PROVE DigestProves(s)'
      OBVIOUS
    <2>1. s.nonce = n /\ s.digest = "zero" /\ s.pcrCounter = 0 /\ n > nonceCount
      BY <1>2, <1>6 DEF FreshSession
    <2>2. \A i \in 1 .. Len(consumed') : consumed'[i].nonce # n
      BY <1>5, <1>7, <1>12, <1>6, <2>1 DEF ConsumedNoncesAreOld
    <2>3. n \in 1 .. nonceCount' /\ s.pcrCounter <= pcrCounter'
      BY <1>2, <1>3, <1>6, <2>1
    <2> QED
      BY <2>1, <2>2, <2>3 DEF DigestProves
  <1>15. s # NoSession => \A g \in SessionHandle \ {h} : Loaded(g) => sessions[g].nonce # s.nonce
    BY <1>2, <1>6 DEF DigestIsProof, DigestProves, FreshSession
  <1>16. ASSUME NEW t \in Session, DigestProves(t), t.nonce # sessions[h].nonce
         PROVE  DigestProves(t)'
    <2>1. t.nonce \in 1 .. nonceCount'
      BY <1>2, <1>6, <1>16 DEF DigestProves
    <2>2. \A i \in 1 .. Len(consumed') : consumed'[i].nonce # t.nonce
      BY <1>5, <1>7, <1>16 DEF DigestProves, r
    <2> QED
      BY <1>3, <1>16, <2>1, <2>2 DEF DigestProves, Consent, PcrsChecked
  <1>17. DigestIsProof'
    BY <1>2, <1>14, <1>15, <1>16, OneSessionStep
  <1> QED
    BY <1>3, <1>8, <1>9, <1>11, <1>13, <1>17 DEF PcrCounterPositive

LEMMA FlushSessionInv ==
    ASSUME SessionsInv, NEW h \in SessionHandle, FlushSession(h)
    PROVE  SessionsInv'
  <1> USE DEF SessionsInv
  <1>1. /\ sessions' = [sessions EXCEPT ![h] = NoSession]
        /\ UNCHANGED <<nonceCount, walletSigned, pcrs, pcrCounter, consumed>>
    BY DEF FlushSession
  <1>2. SessionsTypeOK'
    BY <1>1 DEF SessionsTypeOK
  <1>3. \A t : DigestProves(t)' <=> DigestProves(t)
    BY <1>1 DEF DigestProves, Consent, PcrsChecked
  <1>4. DigestIsProof'
    BY <1>1, <1>3, OneSessionStep
  <1> QED
    BY <1>1, <1>2, <1>4, HistoryKept DEF SessionsTypeOK, PcrCounterPositive

\* Steps that leave the sessions alone.
LEMMA EnvironmentStep ==
    ASSUME SessionsInv, sessions' = sessions,
           \A t \in Session : DigestProves(t) => DigestProves(t)'
    PROVE  DigestIsProof'
  <1>1. \A h \in SessionHandle : Loaded(h)' <=> Loaded(h)
    BY DEF Loaded
  <1>2. NoncesDiffer'
    BY <1>1 DEF SessionsInv, DigestIsProof, NoncesDiffer
  <1>3. ASSUME NEW h \in SessionHandle, Loaded(h)'
        PROVE  DigestProves(sessions[h])'
    <2>1. PICK t \in Session : t = sessions[h]
      BY <1>1, <1>3, LoadedSession DEF SessionsInv
    <2>2. DigestProves(t)'
      BY <1>1, <1>3, <2>1 DEF SessionsInv, DigestIsProof
    <2> QED
      BY <2>1, <2>2 DEF DigestProves, PcrsChecked
  <1> QED
    BY <1>2, <1>3 DEF DigestIsProof

\* No session has checked the PCRs at the new counter.
LEMMA PCRExtendInv ==
    ASSUME SessionsInv, NEW b \in BOOLEAN, PCRExtend(b)
    PROVE  SessionsInv'
  <1> USE DEF SessionsInv
  <1>1. /\ pcrCounter \in Nat /\ pcrCounter' = pcrCounter + 1
        /\ pcrs' \in {"approved", "changed"}
        /\ UNCHANGED <<sessions, nonceCount, walletSigned, consumed>>
    BY DEF PCRExtend, SessionsTypeOK
  <1>2. SessionsTypeOK'
    BY <1>1 DEF SessionsTypeOK
  <1>3. ASSUME NEW t \in Session, DigestProves(t)
        PROVE  DigestProves(t)'
    <2>1. t.pcrCounter \in Nat /\ t.pcrCounter <= pcrCounter
      BY <1>3 DEF DigestProves, Session
    <2>2. t.pcrCounter <= pcrCounter' /\ t.pcrCounter # pcrCounter'
      BY <1>1, <2>1
    <2> QED
      BY <1>1, <1>3, <2>2 DEF DigestProves, Consent, PcrsChecked
  <1>4. DigestIsProof'
    BY <1>1, <1>3, EnvironmentStep
  <1> QED
    BY <1>1, <1>2, <1>4, HistoryKept DEF SessionsTypeOK, PcrCounterPositive

LEMMA WalletSignInv ==
    ASSUME SessionsInv, NEW n \in 0 .. nonceCount, WalletSign(n)
    PROVE  SessionsInv'
  <1> USE DEF SessionsInv
  <1>1. /\ walletSigned' = walletSigned \cup {n} /\ n \in Nat
        /\ UNCHANGED <<sessions, nonceCount, pcrs, pcrCounter, consumed>>
    BY DEF WalletSign, SessionsTypeOK
  <1>2. SessionsTypeOK'
    BY <1>1 DEF SessionsTypeOK
  <1>3. \A t \in Session : DigestProves(t) => DigestProves(t)'
    BY <1>1 DEF DigestProves, Consent, PcrsChecked
  <1>4. DigestIsProof'
    BY <1>1, <1>3, EnvironmentStep
  <1> QED
    BY <1>1, <1>2, <1>4, HistoryKept DEF SessionsTypeOK, PcrCounterPositive

LEMMA SessionResetInv == SessionsInv /\ SessionReset => SessionsInv'
  <1> SUFFICES ASSUME SessionsInv, SessionReset PROVE SessionsInv'
    OBVIOUS
  <1> USE DEF SessionsInv
  <1>1. SessionsTypeOK'
    BY DEF SessionReset, SessionsTypeOK
  <1>2. \A h \in SessionHandle : ~ Loaded(h)'
    BY DEF SessionReset, Loaded
  <1>3. DigestIsProof'
    BY <1>2 DEF DigestIsProof, NoncesDiffer
  <1>4. pcrCounter' > 0 /\ UNCHANGED <<nonceCount, walletSigned, consumed>> /\ nonceCount \in Nat
    BY DEF SessionReset, SessionsTypeOK
  <1> QED
    BY <1>1, <1>3, <1>4, HistoryKept

\* Every step of the sessions keeps the invariant.
LEMMA SessionsStep == SessionsInv /\ [SessionsNext]_sessionVars => SessionsInv'
  <1> SUFFICES ASSUME SessionsInv, [SessionsNext]_sessionVars PROVE SessionsInv'
    OBVIOUS
  <1>1. ASSUME NEW h \in SessionHandle, StartAuthSession(h) PROVE SessionsInv'
    BY <1>1, StartAuthSessionInv
  <1>2. ASSUME NEW h \in SessionHandle, NEW n \in 0 .. nonceCount, NEW s \in 0 .. nonceCount,
               PolicySigned(h, n, s)
        PROVE  SessionsInv'
    <2>1. n \in Nat /\ s \in Nat
      BY DEF SessionsInv, SessionsTypeOK
    <2> QED
      BY <1>2, <2>1, PolicySignedInv
  <1>3. ASSUME NEW h \in SessionHandle, PolicyPCR(h) PROVE SessionsInv'
    BY <1>3, PolicyPCRInv
  <1>4. ASSUME NEW h \in SessionHandle, NEW c \in Command, PolicyCommandCode(h, c)
        PROVE  SessionsInv'
    BY <1>4, PolicyCommandCodeInv
  <1>5. ASSUME NEW h \in SessionHandle, NEW d \in Digest, NEW t \in Digest,
               PolicyAuthorize(h, d, t)
        PROVE  SessionsInv'
    BY <1>5, PolicyAuthorizeInv
  <1>6. ASSUME NEW h \in SessionHandle, NEW c \in Command, NEW b \in BOOLEAN,
               UseSession(h, c, b)
        PROVE  SessionsInv'
    BY <1>6, UseSessionInv
  <1>7. ASSUME NEW h \in SessionHandle, FlushSession(h) PROVE SessionsInv'
    BY <1>7, FlushSessionInv
  <1>8. ASSUME NEW b \in BOOLEAN, PCRExtend(b) PROVE SessionsInv'
    BY <1>8, PCRExtendInv
  <1>9. ASSUME NEW n \in 0 .. nonceCount, WalletSign(n) PROVE SessionsInv'
    BY <1>9, WalletSignInv
  <1>10. CASE SessionReset
    BY <1>10, SessionResetInv
  <1>11. CASE UNCHANGED sessionVars
    BY <1>11 DEF sessionVars, SessionsInv, SessionsTypeOK, SignNeedsConsent,
       SignNeedsApprovedPcrs, NonceAuthorizesOnce, DigestIsProof, NoncesDiffer,
       DigestProves, Consent, PcrsChecked, Loaded, PcrCounterPositive, ConsumedNoncesAreOld
  <1> QED
    BY <1>1, <1>2, <1>3, <1>4, <1>5, <1>6, <1>7, <1>8, <1>9, <1>10, <1>11
    DEF SessionsNext, LoadedSessions, FreeSessions, Approved, Digest

\* The invariant of the sessions holds in every reachable state.
THEOREM SessionsInvariant == SessionsSpec => []SessionsInv
  BY SessionsStep, InitInv, PTL DEF SessionsSpec

\* No signature of the attestation key without the consent of the wallet.
THEOREM Consented == SessionsSpec => []SignNeedsConsent
  BY SessionsInvariant, PTL DEF SessionsInv

\* No signature while the selected PCRs differ from what the issuer approved.
THEOREM ApprovedState == SessionsSpec => []SignNeedsApprovedPcrs
  BY SessionsInvariant, PTL DEF SessionsInv

\* A nonce, and so the wallet's signature on it, authorizes one command.
THEOREM AuthorizesOnce == SessionsSpec => []NonceAuthorizesOnce
  BY SessionsInvariant, PTL DEF SessionsInv

\* What the digest of a session says of the policy commands it has met is true,
\* whatever their order: PolicyContextUpdate never forgets a mark it folded in.
THEOREM ProvenDigest == SessionsSpec => []DigestIsProof
  BY SessionsInvariant, PTL DEF SessionsInv

\* Sessions, counters and PCRs hold what the code can store in them.
THEOREM SessionsTypes == SessionsSpec => []SessionsTypeOK
  BY SessionsInvariant, PTL DEF SessionsInv

-----------------------------------------------------------------------------
(* The TPM keeps the promise of the attestation key. *)

\* The bound on the nonces is the range of the uses in the abstract specification.
NonceBound == nonceCount \in 0 .. MaxNonces

LEMMA NoncesAreBounded == SessionsSpec => []NonceBound
  <1>1. SessionsInit => NonceBound
    BY SessionsAssumption DEF SessionsInit, NonceBound
  <1>2. NonceBound /\ [SessionsNext]_sessionVars => NonceBound'
    <2>1. ASSUME NonceBound, nonceCount' = nonceCount \/ (nonceCount < MaxNonces /\ nonceCount' = nonceCount + 1)
          PROVE  NonceBound'
      BY <2>1, SessionsAssumption DEF NonceBound
    <2>2. ASSUME NEW h \in SessionHandle, NEW n, NEW s,
                 \/ PolicySigned(h, n, s)
                 \/ PolicyPCR(h)
                 \/ PolicyCommandCode(h, n)
                 \/ PolicyAuthorize(h, n, s)
                 \/ FlushSession(h)
          PROVE  nonceCount' = nonceCount
      BY <2>2, Zenon DEF PolicySigned, PolicyPCR, PolicyCommandCode, PolicyAuthorize, FlushSession
    <2>3. ASSUME NEW n, PCRExtend(n) \/ WalletSign(n) \/ SessionReset \/ UNCHANGED sessionVars
          PROVE  nonceCount' = nonceCount
      BY <2>3 DEF PCRExtend, WalletSign, SessionReset, sessionVars
    <2>4. ASSUME NEW h \in SessionHandle, NEW c, NEW b \in BOOLEAN,
                 StartAuthSession(h) \/ UseSession(h, c, b)
          PROVE  nonceCount' = nonceCount \/ (nonceCount < MaxNonces /\ nonceCount' = nonceCount + 1)
      BY <2>4 DEF StartAuthSession, CanStartAuthSession, UseSession
    <2> QED
      BY <2>1, <2>2, <2>3, <2>4 DEF SessionsNext, LoadedSessions, FreeSessions
  <1> QED
    BY <1>1, <1>2, PTL DEF SessionsSpec

\* A history with one more entry has granted one more use if that was TPM2_Sign.
LEMMA IssuedGrows ==
    ASSUME NEW T, consumed \in Seq(T), NEW e \in T, consumed' = Append(consumed, e)
    PROVE  Issued' = IF e.command = "Sign" THEN Issued \cup {e.nonce} ELSE Issued
  <1>1. /\ Len(consumed) \in Nat
        /\ Len(consumed') = Len(consumed) + 1
        /\ \A i \in 1 .. Len(consumed) : consumed'[i] = consumed[i]
        /\ consumed'[Len(consumed) + 1] = e
        /\ 1 .. Len(consumed') = (1 .. Len(consumed)) \cup {Len(consumed) + 1}
    OBVIOUS
  <1> DEFINE Granted(n) == \E i \in 1 .. Len(consumed) :
                              consumed[i].command = "Sign" /\ consumed[i].nonce = n
  <1>2. \A n : n \in Issued <=> Granted(n)
    BY DEF Issued
  <1>3. \A n : n \in Issued' <=> \E i \in 1 .. Len(consumed') :
                                    consumed'[i].command = "Sign" /\ consumed'[i].nonce = n
    BY DEF Issued
  <1>4. \A n : n \in Issued' <=> Granted(n) \/ (e.command = "Sign" /\ e.nonce = n)
    BY <1>1, <1>3
  <1> HIDE DEF Granted
  <1> QED
    BY <1>2, <1>4

\* A command that a session authorizes is a use the wallet agreed to, if it is
\* TPM2_Sign, and nothing at all for the promise if it is TPM2_Commit.
LEMMA UseKeepsPromise ==
    ASSUME SessionsInv, NonceBound, NEW h \in SessionHandle, NEW c \in Command,
           NEW b \in BOOLEAN, UseSession(h, c, b)
    PROVE  [Promise!AttestationNext]_(Promise!attestationVars)
  <1> DEFINE r == sessions[h]
             e == [nonce |-> r.nonce, command |-> c, pcrs |-> pcrs]
             T == [nonce : Nat, command : Command, pcrs : {"approved", "changed"}]
  <1>1. /\ Loaded(h) /\ r \in Session /\ DigestProves(r)
        /\ PCRValueIsCurrent(r) /\ r.digest = "authorized" /\ r.commandCode \in {"none", c}
    BY LoadedSession DEF UseSession, CheckPolicyAuthSession, DigestIsProof, SessionsInv
  <1>2. /\ consumed' = Append(consumed, e)
        /\ UNCHANGED <<walletSigned, pcrs>>
    BY DEF UseSession
  <1>3. /\ e \in T /\ consumed \in Seq(T)
        /\ e.nonce = r.nonce /\ e.command = c
    BY <1>1 DEF Session, SessionsTypeOK, SessionsInv
  <1>4. Issued' = IF c = "Sign" THEN Issued \cup {r.nonce} ELSE Issued
    <2> HIDE DEF e, T
    <2> QED
      BY <1>2, <1>3, IssuedGrows
  <1>5. CASE c = "Commit"
    BY <1>2, <1>4, <1>5 DEF Promise!attestationVars
  <1>6. CASE c = "Sign"
    <2>1. r.nonce \in 0 .. MaxNonces
      BY <1>1 DEF DigestProves, NonceBound, SessionsInv, SessionsTypeOK
    <2>2. pcrs = "approved"
      BY <1>1, <1>6 DEF DigestProves, PcrsChecked, PCRValueIsCurrent
    <2>3. {r.nonce, EmptyNonce} \cap walletSigned # {}
      BY <1>1, <1>6 DEF DigestProves, Consent
    <2>4. r.nonce \notin Issued
      BY <1>1 DEF DigestProves, Issued
    <2>5. Promise!Issue(r.nonce)
      BY <1>2, <1>4, <1>6, <2>2, <2>3, <2>4 DEF Promise!Issue
    <2> QED
      BY <2>1, <2>5 DEF Promise!AttestationNext
  <1> QED
    BY <1>5, <1>6 DEF Command

\* Every command of the TPM is a step of the promise or none.
LEMMA StepKeepsPromise ==
    ASSUME SessionsInv, NonceBound, [SessionsNext]_sessionVars
    PROVE  [Promise!AttestationNext]_(Promise!attestationVars)
  <1>1. ASSUME UNCHANGED <<walletSigned, pcrs, consumed>>
        PROVE  UNCHANGED Promise!attestationVars
    BY <1>1 DEF Promise!attestationVars, Issued
  <1>2. ASSUME NEW h \in SessionHandle, StartAuthSession(h)
        PROVE  UNCHANGED Promise!attestationVars
    BY <1>1, <1>2 DEF StartAuthSession
  <1>3. ASSUME NEW h \in SessionHandle, NEW n, NEW s, PolicySigned(h, n, s)
        PROVE  UNCHANGED Promise!attestationVars
    BY <1>1, <1>3 DEF PolicySigned
  <1>4. ASSUME NEW h \in SessionHandle,
               \/ PolicyPCR(h)
               \/ \E c \in Command : PolicyCommandCode(h, c)
               \/ \E d \in Digest, t \in Digest : PolicyAuthorize(h, d, t)
               \/ FlushSession(h)
        PROVE  UNCHANGED Promise!attestationVars
    BY <1>1, <1>4 DEF PolicyPCR, PolicyCommandCode, PolicyAuthorize, FlushSession
  <1>5. ASSUME NEW h \in SessionHandle, NEW c \in Command, NEW b \in BOOLEAN,
               UseSession(h, c, b)
        PROVE  [Promise!AttestationNext]_(Promise!attestationVars)
    BY <1>5, UseKeepsPromise
  <1>6. ASSUME NEW selected \in BOOLEAN, PCRExtend(selected)
        PROVE  [Promise!AttestationNext]_(Promise!attestationVars)
    <2>1. UNCHANGED <<walletSigned, Issued>>
      BY <1>6 DEF PCRExtend, Issued
    <2>2. CASE selected
      BY <1>6, <2>1, <2>2 DEF PCRExtend, Promise!AttestationNext, Promise!Change
    <2>3. CASE ~ selected
      BY <1>6, <2>1, <2>3 DEF PCRExtend, Promise!attestationVars
    <2> QED
      BY <2>2, <2>3
  <1>7. ASSUME NEW n \in 0 .. nonceCount, WalletSign(n)
        PROVE  [Promise!AttestationNext]_(Promise!attestationVars)
    <2>1. n \in 0 .. MaxNonces
      BY DEF NonceBound
    <2>2. Promise!Agree(n)
      BY <1>7 DEF WalletSign, Promise!Agree, Issued
    <2> QED
      BY <2>1, <2>2 DEF Promise!AttestationNext
  <1>8. CASE SessionReset
    BY <1>8 DEF SessionReset, Promise!AttestationNext, Promise!Restart, Issued
  <1>9. CASE UNCHANGED sessionVars
    BY <1>1, <1>9 DEF sessionVars
  <1> QED
    BY <1>2, <1>3, <1>4, <1>5, <1>6, <1>7, <1>8, <1>9
    DEF SessionsNext, LoadedSessions, FreeSessions, Approved, Digest

\* The sessions of the TPM implement the promise of the attestation key.
THEOREM KeepsPromise == SessionsSpec => AttestationSpec
  <1>1. SessionsInit => Promise!AttestationInit
    BY DEF SessionsInit, Promise!AttestationInit, Issued
  <1>2. SessionsInv /\ NonceBound /\ [SessionsNext]_sessionVars
           => [Promise!AttestationNext]_(Promise!attestationVars)
    BY StepKeepsPromise
  <1> QED
    BY <1>1, <1>2, SessionsInvariant, NoncesAreBounded, PTL
       DEF SessionsSpec, AttestationSpec, Promise!Spec
=============================================================================

--------------------------- MODULE CommitCounter ---------------------------
(***************************************************************************)
(* The commitments of the TPM's split signing schemes (ECDAA).             *)
(*                                                                         *)
(* TPM2_Commit derives a secret r from (commitNonce, commitCounter, name), *)
(* answers with points computed from r, and later TPM2_Sign derives the    *)
(* same r again from the 16 low bits of the counter that the caller hands  *)
(* back.  Two signatures made with one r reveal the private key, so the    *)
(* TPM keeps one bit for each recent commitment (gr.commitArray) and       *)
(* clears it once the commitment is used.                                  *)
(*                                                                         *)
(* The bits are few (COMMIT_INDEX_MASK + 1), the count a caller sees has   *)
(* CountRange values and the counter itself is wider: CryptGenerateR must  *)
(* rebuild the whole counter from the truncated count, and it must refuse  *)
(* every count whose bit was taken over by a later commitment.             *)
(*                                                                         *)
(* TPM2_Shutdown(STATE) saves all of it in NV, for a Resume or a Restart.  *)
(* The commands that make and use commitments do not take the note of the  *)
(* shutdown back, so what they do after it is undone by the next startup.  *)
(***************************************************************************)
EXTENDS Integers, Sequences, FiniteSets

CONSTANTS
    IndexSize,      \* bits of gr.commitArray: COMMIT_INDEX_MASK + 1, 128 in the build
    CountRange,     \* values of the UINT16 count of a commitment, 65536 in the build
    MaxCommits,     \* bound: commitments made between two resets
    MaxResets,      \* bound: TPM Resets
    MaxUndone       \* bound: signatures that startups undo

ASSUME CommitAssumption ==
    /\ IndexSize \in Nat /\ IndexSize > 0
    /\ CountRange \in Nat
    /\ \E k \in 1 .. CountRange : CountRange = k * IndexSize
    /\ MaxCommits \in Nat
    /\ MaxResets \in Nat
    /\ MaxUndone \in Nat

VARIABLES
    commitCounter,  \* gr.commitCounter
    commitArray,    \* gr.commitArray: the indices whose bit is SET
    commitNonce,    \* gr.commitNonce: a number, fresh at every TPM Reset
    stateSaved,     \* gp.orderlyState is TPM_SU_STATE
    savedCommits,   \* these in NV_STATE_RESET_DATA, which is only read if stateSaved
    signedWith,     \* history: the <<commitNonce, counter>> of each signature made,
                    \* but for those that a startup has undone
    undone          \* history: these others

commitNvVars == <<stateSaved, savedCommits>>
commitVars == <<commitCounter, commitArray, commitNonce, commitNvVars, signedWith, undone>>

Index == 0 .. (IndexSize - 1)
Count == 0 .. (CountRange - 1)

CommitTypeOK ==
    /\ commitCounter \in Nat
    /\ commitArray \subseteq Index
    /\ commitNonce \in Nat
    /\ stateSaved \in BOOLEAN
    /\ savedCommits \in [counter : Nat, array : SUBSET Index, signed : Seq(Nat \X Nat)]
    /\ signedWith \in Seq(Nat \X Nat)
    /\ undone \subseteq Nat \X Nat

-----------------------------------------------------------------------------
(* CryptGenerateR in the sign phase. *)

BitOf(c) == c % IndexSize

\* Mutant of TurnOf: a count on the counter's own bit is taken for this turn.
TurnOfThisTurn(c) ==
    IF BitOf(c) > BitOf(commitCounter % CountRange)
    THEN commitCounter - IndexSize
    ELSE commitCounter

\* The current count, moved back by one turn of the array when the bits of c
\* are not behind those of the counter: c then belongs to the previous turn.
TurnOf(c) ==
    IF BitOf(c) >= BitOf(commitCounter % CountRange)
    THEN commitCounter - IndexSize
    ELSE commitCounter

\* The bit must be SET, and the upper bits of c must be those of its turn.
AcceptsCount(c) ==
    /\ BitOf(c) \in commitArray
    /\ (TurnOf(c) % CountRange) \div IndexSize = c \div IndexSize

\* The counter as it was when the commitment was made.
CommittedCount(c) == (TurnOf(c) \div CountRange) * CountRange + c

-----------------------------------------------------------------------------

NoCommitsSaved == [counter |-> 0, array |-> {}, signed |-> <<>>]

CommitInit ==
    /\ commitCounter = 0
    /\ commitArray = {}
    /\ commitNonce = 0
    /\ stateSaved = FALSE
    /\ savedCommits = NoCommitsSaved
    /\ signedWith = <<>>
    /\ undone = {}

\* CryptCommit: the last step of TPM2_Commit and of TPM2_EC_Ephemeral.
CryptCommit ==
    /\ commitCounter < MaxCommits
    /\ commitCounter' = commitCounter + 1
    /\ commitArray' = commitArray \cup {BitOf(commitCounter % CountRange)}
    /\ UNCHANGED <<commitNonce, commitNvVars, signedWith, undone>>

\* Mutant of SignEcdaa: CryptEndCommit is not called.
SignEcdaaKeepsBit(c) ==
    /\ AcceptsCount(c)
    /\ signedWith' = Append(signedWith, <<commitNonce, CommittedCount(c)>>)
    /\ Len(signedWith) < MaxCommits
    /\ UNCHANGED <<commitArray, commitCounter, commitNonce, commitNvVars, undone>>

\* BnSignEcdaa: r is rebuilt from the count of the caller, and the bit is
\* cleared by CryptEndCommit because the signature was made.  TPM2_ZGen_2Phase
\* uses a commitment in the same way.
SignEcdaa(c) ==
    /\ AcceptsCount(c)
    /\ commitArray' = commitArray \ {BitOf(c)}
    /\ signedWith' = Append(signedWith, <<commitNonce, CommittedCount(c)>>)
    /\ UNCHANGED <<commitCounter, commitNonce, commitNvVars, undone>>

\* TPM2_Shutdown(STATE)
CommitShutdown ==
    /\ stateSaved' = TRUE
    /\ savedCommits' = [counter |-> commitCounter, array |-> commitArray, signed |-> signedWith]
    /\ UNCHANGED <<commitCounter, commitArray, commitNonce, signedWith, undone>>

\* TPM2_Shutdown(CLEAR), or a command that takes the note of the shutdown back.
CommitClearOrderly ==
    /\ stateSaved
    /\ stateSaved' = FALSE
    /\ savedCommits' = NoCommitsSaved
    /\ UNCHANGED <<commitCounter, commitArray, commitNonce, signedWith, undone>>

\* A loss of power, and CryptStartup in the TPM Reset that follows.
CommitReset ==
    /\ ~ stateSaved
    /\ commitNonce < MaxResets
    /\ commitNonce' = commitNonce + 1
    /\ commitCounter' = 0
    /\ commitArray' = {}
    /\ UNCHANGED <<commitNvVars, signedWith, undone>>

\* A loss of power, and TPM2_Startup as a Resume or a Restart: gr is read from NV.
CommitResume ==
    /\ stateSaved
    /\ commitCounter' = savedCommits.counter
    /\ commitArray' = savedCommits.array
    /\ stateSaved' = FALSE
    /\ savedCommits' = NoCommitsSaved
    /\ signedWith' = savedCommits.signed
    /\ undone' = undone \cup { signedWith[i] : i \in (Len(savedCommits.signed) + 1) .. Len(signedWith) }
    /\ Cardinality(undone') <= MaxUndone
    /\ UNCHANGED commitNonce

CommitNext ==
    \/ CryptCommit
    \/ \E c \in Count : SignEcdaa(c)
    \/ CommitShutdown
    \/ CommitClearOrderly
    \/ CommitReset
    \/ CommitResume

CommitSpec == CommitInit /\ [][CommitNext]_commitVars

-----------------------------------------------------------------------------
(* Properties. *)

\* The commitments of this reset that the array has not taken over yet.
Young == { n \in 0 .. (commitCounter - 1) : n >= commitCounter - IndexSize }

\* A signature was made with commitment n of this reset.
Signed(n) == \E i \in 1 .. Len(signedWith) : signedWith[i] = <<commitNonce, n>>

\* One commitment answers at most one signature: no two signatures are ever
\* made with the same r, whatever counts the callers of TPM2_Sign hand back.
\* Signatures that a startup has undone are left out.
OneSignaturePerCommitment ==
    \A i, j \in 1 .. Len(signedWith) : signedWith[i] = signedWith[j] => i = j

\* The same with them: a commitment that was ended stays ended.  CryptEndCommit
\* "clears the gr.commitArray bit associated with the count value so that it
\* can't be used again".
EndedCommitmentIsNotUsedAgain ==
    \A i \in 1 .. Len(signedWith) : signedWith[i] \notin undone

RebuildsAnOpenCommitment ==
    \A c \in Count : AcceptsCount(c) =>
        /\ CommittedCount(c) \in Young
        /\ CommittedCount(c) % CountRange = c
        /\ ~ Signed(CommittedCount(c))

OpenCommitmentIsAccepted ==
    \A n \in Young : ~ Signed(n) =>
        /\ AcceptsCount(n % CountRange)
        /\ CommittedCount(n % CountRange) = n

\* CryptGenerateR accepts a truncated count exactly if it stands for a young
\* commitment that no signature has used, and then rebuilds its counter: it
\* never takes r of another commitment, and refuses none without a reason.
CountsAreExact == RebuildsAnOpenCommitment /\ OpenCommitmentIsAccepted

\* The array is exact: a bit is SET when the young commitment it stands for is
\* open, and only then; and every signature used a commitment that was made.
\* With CommitTypeOK and OneSignaturePerCommitment this is inductive.
ArrayIsExact ==
    /\ \A i \in 1 .. Len(signedWith) :
          /\ signedWith[i][1] <= commitNonce
          /\ signedWith[i][1] = commitNonce => signedWith[i][2] < commitCounter
    /\ \A b \in commitArray : \E n \in Young : BitOf(n) = b /\ ~ Signed(n)
    /\ \A n \in Young : ~ Signed(n) => BitOf(n) \in commitArray

CommitInv == CommitTypeOK /\ OneSignaturePerCommitment /\ ArrayIsExact
=============================================================================

---------------------------- MODULE Credentials ----------------------------
(***************************************************************************)
(* What a join promises: the issuer takes in keys that its policy binds,   *)
(* issues credentials for these keys only, and a client holds at most the  *)
(* credential of a key of its own.                                         *)
(***************************************************************************)

CONSTANTS Client, NoKey

VARIABLES
    accepted,       \* keys that the issuer has taken in
    issued,         \* keys for which it has issued a credential
    holds           \* for each client the key whose credential it holds, if any

Policy == {"issuer", "other"}
Key == [owner : Client, policy : Policy]

Init ==
    /\ accepted = {}
    /\ issued = {}
    /\ holds = [c \in Client |-> NoKey]

Accept(k) ==
    /\ k.policy = "issuer"
    /\ accepted' = accepted \cup {k}
    /\ UNCHANGED <<issued, holds>>

Issue(k) ==
    /\ k \in accepted
    /\ issued' = issued \cup {k}
    /\ UNCHANGED <<accepted, holds>>

Obtain(c, k) ==
    /\ k \in issued
    /\ k.owner = c
    /\ holds' = [holds EXCEPT ![c] = k]
    /\ UNCHANGED <<accepted, issued>>

\* A credential is replaced by one that is of no use, or dies with the process.
Lose(c) ==
    /\ holds' = [holds EXCEPT ![c] = NoKey]
    /\ UNCHANGED <<accepted, issued>>

Next ==
    \/ \E k \in Key : Accept(k) \/ Issue(k)
    \/ \E c \in Client : Lose(c) \/ \E k \in Key : Obtain(c, k)

Spec == Init /\ [][Next]_<<accepted, issued, holds>>
=============================================================================

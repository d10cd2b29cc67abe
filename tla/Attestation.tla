---------------------------- MODULE Attestation ----------------------------
(***************************************************************************)
(* What the attestation key promises, whoever talks to the TPM and in      *)
(* whatever order: the wallet agrees to single uses of the key, a use is   *)
(* granted once, and only while the machine is as the issuer approved it.  *)
(*                                                                         *)
(* A use is named by the nonce of the session it goes through.  A wallet   *)
(* that ever agreed to Blank has agreed to every use.                      *)
(***************************************************************************)
CONSTANTS
    Nonce,      \* the names of uses
    Blank       \* the name that stands for all of them

VARIABLES
    agreed,     \* what the wallet agreed to
    machine,    \* "approved" or "changed"
    issued      \* the uses that were granted

attestationVars == <<agreed, machine, issued>>

AttestationInit ==
    /\ agreed = {}
    /\ machine = "approved"
    /\ issued = {}

Agree(n) ==
    /\ agreed' = agreed \cup {n}
    /\ UNCHANGED <<machine, issued>>

Change ==
    /\ machine' = "changed"
    /\ UNCHANGED <<agreed, issued>>

\* Only a restart brings the machine back.
Restart ==
    /\ machine' = "approved"
    /\ UNCHANGED <<agreed, issued>>

Issue(n) ==
    /\ machine = "approved"
    /\ n \notin issued
    /\ {n, Blank} \cap agreed # {}
    /\ issued' = issued \cup {n}
    /\ UNCHANGED <<agreed, machine>>

AttestationNext ==
    \/ \E n \in Nonce : Agree(n) \/ Issue(n)
    \/ Change
    \/ Restart

Spec == AttestationInit /\ [][AttestationNext]_attestationVars
=============================================================================

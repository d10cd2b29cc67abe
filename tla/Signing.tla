------------------------------ MODULE Signing ------------------------------
(***************************************************************************)
(* What a signature takes: the commitments, the parts of a policy session, *)
(* which are its digest, nonces and PCRs (Sessions), its deadlines         *)
(* (Tickets) and its notes (Policies), and the arithmetic (Daa).  They are *)
(* joined for TLC: each behaviour is one of one part, on which any caller  *)
(* sends the TPM any commands.  Tpm composes CommitCounter and Sessions as *)
(* the bridge uses them.                                                   *)
(***************************************************************************)
EXTENDS CommitCounter, Sessions, Tickets, Policies, Daa

CONSTANT UsedParts      \* the parts that are checked

VARIABLE part

signingVars == <<part, commitVars, sessionVars, ticketsVars, policiesVars, daaVars>>

SigningInit ==
    /\ part \in UsedParts
    /\ CommitInit
    /\ SessionsInit
    /\ TicketsInit
    /\ PoliciesInit
    /\ DaaInit

SigningNext ==
    /\ UNCHANGED part
    /\ \/ /\ part = "CommitCounter"
          /\ CommitNext
          /\ UNCHANGED <<sessionVars, ticketsVars, policiesVars, daaVars>>
       \/ /\ part = "Sessions"
          /\ SessionsNext
          /\ UNCHANGED <<commitVars, ticketsVars, policiesVars, daaVars>>
       \/ /\ part = "Tickets"
          /\ TicketsNext
          /\ UNCHANGED <<commitVars, sessionVars, policiesVars, daaVars>>
       \/ /\ part = "Policies"
          /\ PoliciesNext
          /\ UNCHANGED <<commitVars, sessionVars, ticketsVars, daaVars>>
       \/ /\ part = "Daa"
          /\ DaaNext
          /\ UNCHANGED <<commitVars, sessionVars, ticketsVars, policiesVars>>

SigningSpec == SigningInit /\ [][SigningNext]_signingVars
=============================================================================

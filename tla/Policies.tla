----------------------------- MODULE Policies ------------------------------
(***************************************************************************)
(* The assertions of a policy that are checked late.                       *)
(*                                                                         *)
(* A policy command either finds its condition true at once, or leaves a   *)
(* note in the session for the command that the session will authorize     *)
(* (EACommands.c); then only the digest says that it was asserted.  Notes  *)
(* are merged: localities are intersected, PolicyAuthValue and             *)
(* PolicyPassword are one assertion with two notes, and the hashes of      *)
(* parameters, names and template share one field, u1, that two flags tell *)
(* apart.  CheckPolicyAuthSession reads the notes and compares the digest; *)
(* it can not read from the digest what was asserted.  So for each         *)
(* sequence of policy commands the notes must say neither less nor more    *)
(* than the digest.                                                        *)
(*                                                                         *)
(* The digest, PCRs and nonces are in Sessions, deadlines in Tickets.      *)
(* PolicyOR and PolicyAuthorize replace the digest by one that stands for  *)
(* what it was, and leave the notes: what was asserted still was.  A trial *)
(* session stays one until it is flushed, and no command takes it.         *)
(***************************************************************************)
EXTENDS Naturals, FiniteSets

CONSTANTS
    Code,           \* bound: command codes
    Duplicate,      \* TPM_CC_Duplicate
    PolicySecret,   \* TPM_CC_PolicySecret
    CreateCode,     \* the commands that create: those whose template can be hashed
    Name,           \* bound: names of the entities that a command is given
    Parameters,     \* bound: parameters; those of a creation are its template
    NormalLocality, \* bound: localities below 5
    ExtendedLocality    \* bound: localities above 31

NoCode == "no code"

ASSUME PoliciesAssumption ==
    /\ NoCode \notin Code
    /\ {Duplicate, PolicySecret} \subseteq Code
    /\ CreateCode \subseteq Code \ {Duplicate, PolicySecret}
    /\ NormalLocality \subseteq 0 .. 4
    /\ ExtendedLocality \subseteq 32 .. 255

VARIABLES
    policy,         \* the policy session: the notes that policy commands left
    asserted        \* history: what was asserted since the digest was last zero

policiesVars == <<policy, asserted>>

\* A command that asks for the authorization of an entity.  It is given names
\* and parameters; the entity is an NV index, written or not, or none.
Use == [code : Code, names : Name, parameters : Parameters, role : {"USER", "ADMIN"},
        locality : NormalLocality \cup ExtendedLocality, physicalPresence : BOOLEAN,
        authValueGiven : BOOLEAN, nvIndex : {"NONE", "WRITTEN", "UNWRITTEN"}]

\* The hashes of a use.  Hashes do not collide, whatever they are hashes of.
CpHash(use) == <<"cpHash", use.code, use.names, use.parameters>>
NameHash(use) == <<"nameHash", use.names>>
TemplateHash(use) == <<"templateHash", use.parameters>>

CpHashes == { <<"cpHash", code, names, parameters>> :
                 code \in Code, names \in Name, parameters \in Parameters }
NameHashes == { <<"nameHash", names>> : names \in Name }
TemplateHashes == { <<"templateHash", parameters>> : parameters \in Parameters }
HashValue == CpHashes \cup NameHashes \cup TemplateHashes

EmptyHash == <<>>

PoliciesTypeOK ==
    policy \in [open : BOOLEAN,
                commandCode : Code \cup {NoCode},
                commandLocality : SUBSET (NormalLocality \cup ExtendedLocality),
                isPPRequired : BOOLEAN,
                isAuthValueNeeded : BOOLEAN,
                isPasswordNeeded : BOOLEAN,
                u1 : HashValue \cup {EmptyHash},
                isCpHashDefined : BOOLEAN,
                isTemplateSet : BOOLEAN,
                checkNvWritten : BOOLEAN,
                nvWrittenState : BOOLEAN]

\* The notes of a session without any.
NoNotes ==
    [open |-> TRUE, commandCode |-> NoCode, commandLocality |-> {}, isPPRequired |-> FALSE,
     isAuthValueNeeded |-> FALSE, isPasswordNeeded |-> FALSE, u1 |-> EmptyHash, isCpHashDefined |-> FALSE, isTemplateSet |-> FALSE,
     checkNvWritten |-> FALSE, nvWrittenState |-> FALSE]

Closed == [NoNotes EXCEPT !.open = FALSE]

-----------------------------------------------------------------------------
(* Assertions, as the digest has them.  The argument of PolicyPassword's is  *)
(* that of PolicyAuthValue: the digests are the same.                        *)

Assertion(kind, argument) == [kind |-> kind, argument |-> argument]

AssertionHolds(a, use) ==
    CASE a.kind = "CommandCode" -> use.code = a.argument
      [] a.kind = "Locality" -> use.locality \in a.argument
      [] a.kind = "PhysicalPresence" -> use.physicalPresence
      [] a.kind = "AuthValue" -> use.authValueGiven
      [] a.kind = "CpHash" -> CpHash(use) = a.argument
      [] a.kind = "NameHash" -> NameHash(use) = a.argument
      [] a.kind = "Template" -> use.code \in CreateCode /\ TemplateHash(use) = a.argument
      [] a.kind = "DuplicationSelect" -> use.code = Duplicate /\ NameHash(use) = a.argument
      [] a.kind = "NvWritten" -> use.nvIndex = IF a.argument THEN "WRITTEN" ELSE "UNWRITTEN"

-----------------------------------------------------------------------------
(* The policy commands. *)

\* A policy command succeeds: the session takes a note, the digest the assertion.
Assert(kind, argument, notes) ==
    /\ policy.open
    /\ policy' = notes
    /\ asserted' = asserted \cup {Assertion(kind, argument)}

\* TPM2_PolicyCommandCode
TPM2_PolicyCommandCode(code) ==
    /\ policy.commandCode \in {NoCode, code}
    /\ Assert("CommandCode", code, [policy EXCEPT !.commandCode = code])

\* Normal localities are intersected with those asserted before, an extended
\* one must be asserted again; the two kinds do not mix, and one must be left.
LocalityLeft(localities) ==
    IF policy.commandLocality = {} THEN localities
    ELSE IF localities \subseteq NormalLocality
         THEN policy.commandLocality \cap localities
         ELSE IF policy.commandLocality = localities THEN localities ELSE {}

\* TPM2_PolicyLocality
TPM2_PolicyLocality(localities) ==
    /\ LocalityLeft(localities) # {}
    /\ Assert("Locality", localities,
              [policy EXCEPT !.commandLocality = LocalityLeft(localities)])

\* TPM2_PolicyPhysicalPresence
TPM2_PolicyPhysicalPresence ==
    Assert("PhysicalPresence", TRUE, [policy EXCEPT !.isPPRequired = TRUE])

\* Mutant of TPM2_PolicyPassword: the note of PolicyAuthValue goes, none comes.
TPM2_PolicyPasswordDropped ==
    Assert("AuthValue", TRUE, [policy EXCEPT !.isAuthValueNeeded = FALSE])

\* TPM2_PolicyAuthValue and TPM2_PolicyPassword: the later one says how the
\* authValue has to be given.
TPM2_PolicyAuthValue ==
    Assert("AuthValue", TRUE,
           [policy EXCEPT !.isAuthValueNeeded = TRUE, !.isPasswordNeeded = FALSE])

TPM2_PolicyPassword ==
    Assert("AuthValue", TRUE,
           [policy EXCEPT !.isPasswordNeeded = TRUE, !.isAuthValueNeeded = FALSE])

\* TPM2_PolicyCpHash
TPM2_PolicyCpHash(cpHashA) ==
    /\ policy.u1 # EmptyHash => policy.isCpHashDefined /\ policy.u1 = cpHashA
    /\ Assert("CpHash", cpHashA, [policy EXCEPT !.u1 = cpHashA, !.isCpHashDefined = TRUE])

\* TPM2_PolicyNameHash
TPM2_PolicyNameHash(nameHash) ==
    /\ policy.u1 = EmptyHash
    /\ ~ policy.isCpHashDefined
    /\ ~ policy.isTemplateSet
    /\ Assert("NameHash", nameHash, [policy EXCEPT !.u1 = nameHash])

\* Mutant of TPM2_PolicyTemplate: only another template is refused.
TPM2_PolicyTemplateOverwrites(templateHash) ==
    /\ policy.isTemplateSet => policy.u1 = templateHash
    /\ Assert("Template", templateHash,
              [policy EXCEPT !.u1 = templateHash, !.isTemplateSet = TRUE])

\* TPM2_PolicyTemplate
TPM2_PolicyTemplate(templateHash) ==
    /\ IF policy.isTemplateSet THEN policy.u1 = templateHash ELSE policy.u1 = EmptyHash
    /\ Assert("Template", templateHash,
              [policy EXCEPT !.u1 = templateHash, !.isTemplateSet = TRUE])

\* TPM2_PolicyDuplicationSelect: the command and its names.
TPM2_PolicyDuplicationSelect(nameHash) ==
    /\ policy.u1 = EmptyHash
    /\ policy.commandCode = NoCode
    /\ Assert("DuplicationSelect", nameHash,
              [policy EXCEPT !.u1 = nameHash, !.commandCode = Duplicate])

\* TPM2_PolicySigned and TPM2_PolicySecret with a cpHashA, which is any value
\* that the authorizing party chose.
PolicySignedCpHash(cpHashA) ==
    /\ policy.u1 \in {EmptyHash, cpHashA}
    /\ Assert("CpHash", cpHashA, [policy EXCEPT !.u1 = cpHashA, !.isCpHashDefined = TRUE])

\* TPM2_PolicyNvWritten
TPM2_PolicyNvWritten(writtenSet) ==
    /\ policy.checkNvWritten => policy.nvWrittenState = writtenSet
    /\ Assert("NvWritten", writtenSet,
              [policy EXCEPT !.checkNvWritten = TRUE, !.nvWrittenState = writtenSet])

-----------------------------------------------------------------------------
(* The use of the session. *)

\* The note on u1: which hash of the command it is to be compared with.
U1Holds(use) ==
    CASE policy.u1 = EmptyHash -> TRUE
      [] policy.u1 # EmptyHash /\ policy.isCpHashDefined -> policy.u1 = CpHash(use)
      [] policy.u1 # EmptyHash /\ ~ policy.isCpHashDefined /\ policy.isTemplateSet ->
            use.code \in CreateCode /\ policy.u1 = TemplateHash(use)
      [] OTHER -> policy.u1 = NameHash(use)

\* CheckPolicyAuthSession, once the digest is that of the entity, and the test
\* of the authValue in CheckAuthSession.
CheckPolicyAuthSessionNotes(use) ==
    /\ policy.open
    /\ use.code = PolicySecret => policy.isAuthValueNeeded \/ policy.isPasswordNeeded
    /\ IF policy.commandCode = NoCode THEN use.role = "USER" ELSE use.code = policy.commandCode
    /\ policy.commandLocality # {} => use.locality \in policy.commandLocality
    /\ policy.isPPRequired => use.physicalPresence
    /\ U1Holds(use)
    /\ policy.checkNvWritten =>
          use.nvIndex = IF policy.nvWrittenState THEN "WRITTEN" ELSE "UNWRITTEN"
    /\ policy.isAuthValueNeeded \/ policy.isPasswordNeeded => use.authValueGiven

-----------------------------------------------------------------------------
(* The life of the session. *)

PoliciesInit ==
    /\ policy = Closed
    /\ asserted = {}

\* TPM2_StartAuthSession
StartPolicy ==
    /\ ~ policy.open
    /\ policy' = NoNotes
    /\ UNCHANGED asserted

\* Mutant of ResetNotes: the flags of what was asserted stay.
ResetNotesKeepsFlags ==
    [policy EXCEPT !.commandCode = NoCode, !.commandLocality = {}, !.u1 = EmptyHash]

\* SessionResetPolicyData
ResetNotes == NoNotes

\* TPM2_PolicyRestart, and the response to a command with continueSession.
ResetPolicy ==
    /\ policy.open
    /\ policy' = ResetNotes
    /\ asserted' = {}

\* TPM2_FlushContext, and the response to a command without continueSession.
ClosePolicy ==
    /\ policy.open
    /\ policy' = Closed
    /\ asserted' = {}

PoliciesNext ==
    \/ StartPolicy
    \/ \E code \in Code : TPM2_PolicyCommandCode(code)
    \/ \E localities \in (SUBSET NormalLocality \ {{}}) \cup { {l} : l \in ExtendedLocality } :
          TPM2_PolicyLocality(localities)
    \/ TPM2_PolicyPhysicalPresence
    \/ TPM2_PolicyAuthValue
    \/ TPM2_PolicyPassword
    \/ \E hash \in CpHashes : TPM2_PolicyCpHash(hash)
    \/ \E hash \in NameHashes : TPM2_PolicyNameHash(hash) \/ TPM2_PolicyDuplicationSelect(hash)
    \/ \E hash \in TemplateHashes : TPM2_PolicyTemplate(hash)
    \/ \E hash \in HashValue : PolicySignedCpHash(hash)
    \/ \E writtenSet \in BOOLEAN : TPM2_PolicyNvWritten(writtenSet)
    \/ ResetPolicy
    \/ ClosePolicy

PoliciesSpec == PoliciesInit /\ [][PoliciesNext]_policiesVars

-----------------------------------------------------------------------------
(* Properties. *)

\* The session authorizes a command exactly if everything that was asserted is
\* true of it, whatever commands asserted it in whatever order, and after any
\* use of the session before.  An ADMIN role needs the code of the command, and
\* TPM2_PolicySecret an authValue to show.
PolicyIsExact ==
    policy.open =>
        \A use \in Use :
            CheckPolicyAuthSessionNotes(use) <=>
                /\ \A a \in asserted : AssertionHolds(a, use)
                /\ use.role = "ADMIN" =>
                      \E a \in asserted : a.kind \in {"CommandCode", "DuplicationSelect"}
                /\ use.code = PolicySecret => \E a \in asserted : a.kind = "AuthValue"
=============================================================================

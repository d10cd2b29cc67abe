-------------------------------- MODULE Pcrs --------------------------------
(***************************************************************************)
(* The PCRs over shutdowns, startups and dynamic launches (PCR.c,          *)
(* IntegrityCommands.c).                                                   *)
(*                                                                         *)
(* What a PCR holds is where it started and what was extended into it; the *)
(* start value tells how the machine started (PCR 0) and whether there was *)
(* a dynamic launch (PCR 17).  The PCRs 0 to 15 are saved by               *)
(* TPM2_Shutdown(STATE); the others start anew with every startup.  A      *)
(* policy session that checked PCRs keeps no values but the generation     *)
(* counter, so that every change of a PCR has to count, and no two states  *)
(* of the PCRs may have one count, also when the counter comes back from a *)
(* shutdown.                                                               *)
(***************************************************************************)
EXTENDS Power, Sequences, FiniteSets

CONSTANTS
    Pcr,            \* the PCRs, 0 .. 23 in the build
    MaxMeasured,    \* bound: measurements
    MaxPcrCounter   \* bound: the generation counter, 2^32 in the build

HCRTM_PCR == 0
DRTM_PCR == 17

ASSUME PcrsAssumption ==
    /\ Pcr \subseteq 0 .. 23 /\ {HCRTM_PCR, DRTM_PCR} \subseteq Pcr
    /\ {MaxMeasured, MaxPcrCounter} \subseteq Nat

VARIABLES
    pcrs,               \* s_pcrs, of one bank
    pcrCounter,         \* gr.pcrCounter
    pcrAuth,            \* gc.pcrAuthValues: the group of PCRs has an authValue
    gcPcrSave,          \* gc.pcrSave in RAM, but for PCRs that the next shutdown overwrites
    pcrSave,            \* what TPM2_Shutdown(STATE) wrote to NV
    allocated,          \* gp.pcrAllocated in RAM
    nvAllocated,        \* the same in NV
    pcrReConfig,        \* g_pcrReConfig
    drtmSequence,       \* g_DRTMHandle is assigned
    drtmPreStartup,     \* g_DrtmPreStartup
    startupLocality3,   \* g_StartupLocality3
    policySession,      \* one policy session: where it is and what it checked
    measurements,       \* history: how many there were, each has its number
    measured,           \* history: what was extended since the machine started
    promisedAuth,       \* history: the authValue is set
    intact,             \* history: no command came since _TPM_Hash_Start
    launches,           \* history: the measurements of launches since power-on
    startedHow          \* history: what came before the last startup

pcrHistory == <<measurements, measured, promisedAuth, intact, launches, startedHow>>
drtmVars == <<drtmSequence, drtmPreStartup, intact, launches>>
pcrOwn == <<pcrs, pcrCounter, pcrAuth, gcPcrSave, pcrSave, allocated, nvAllocated, pcrReConfig,
            drtmSequence, drtmPreStartup, startupLocality3, policySession, pcrHistory>>
pcrVars == <<powerVars, pcrOwn>>

\* The start values: all bytes 00, all FF, or 00 but for the last one.
StartValue == {"zeros", "ones", "locality3", "hcrtm"}
How == {"zeros", "locality3", "hcrtm"}
PcrValue == [start : StartValue, log : Seq(1 .. MaxMeasured)]
Fresh(start) == [start |-> start, log |-> <<>>]

NoPolicySession == [place |-> "none", counter |-> 0, seen |-> <<>>]
NothingSavedOfPcrs == [pcrs |-> <<>>, counter |-> 0, auth |-> FALSE, how |-> "zeros",
                       session |-> NoPolicySession]

\* s_initAttributes: the PCRs that TPM2_Shutdown saves ...
StateSaved(p) == p <= 15
SavedPcrs == {p \in Pcr : StateSaved(p)}

\* ... and the localities that may reset and extend each.
ResetLocality(p) ==
    CASE p <= 15       -> {}
      [] p \in {16,23} -> 0 .. 3
      [] p \in 17 .. 19 -> {4}
      [] OTHER         -> {2, 4}

ExtendLocality(p) ==
    CASE p <= 16 \/ p = 23 -> 0 .. 4
      [] p \in {17, 18}    -> {2, 3, 4}
      [] p = 19            -> {2, 3}
      [] p = 20            -> {1, 2, 3}
      [] OTHER             -> {2}

\* PCRBelongsTCBGroup: a change of these does not count.
PCRBelongsTCBGroup(p) == p \in {16, 21, 22, 23}
PCRBelongsAuthGroup(p) == p \in 20 .. 22

\* PCRIsResetAllowed: never at locality 4, which has the dynamic launch.
PCRIsResetAllowed(p, locality) == locality # 4 /\ locality \in ResetLocality(p)

\* PCRChanged, for some PCRs.
Changes(S) == Cardinality({p \in S : ~ PCRBelongsTCBGroup(p)})

PcrsTypeOK ==
    /\ PowerTypeOK
    /\ pcrs \in [Pcr -> PcrValue] /\ gcPcrSave \in [SavedPcrs \ allocated -> PcrValue]
    /\ pcrCounter \in 0 .. MaxPcrCounter
    /\ {allocated, nvAllocated} \subseteq SUBSET Pcr
    /\ {pcrAuth, pcrReConfig, drtmSequence, drtmPreStartup, startupLocality3,
        promisedAuth, intact} \subseteq BOOLEAN
    /\ policySession.place \in {"none", "loaded", "saved"}
    /\ policySession.counter \in 0 .. MaxPcrCounter
    /\ pcrSave # NothingSavedOfPcrs => orderlyState = "STATE"
    /\ measurements \in 0 .. MaxMeasured
    /\ launches \subseteq 1 .. measurements
    /\ startedHow \in How

-----------------------------------------------------------------------------
(* Parts of the commands. *)

\* Mutant of EndsSequence: a command leaves a sequence as it is.
EndsSequenceNot ==
    /\ intact' = FALSE
    /\ UNCHANGED <<drtmSequence, drtmPreStartup, launches>>

\* ExecuteCommand: any command ends a launch sequence, also one that is refused.
EndsSequence ==
    /\ drtmSequence' = FALSE
    /\ intact' = FALSE
    /\ UNCHANGED <<drtmPreStartup, launches>>

\* RETURN_IF_ORDERLY: the note is taken back, and what was saved with it.
ReturnIfOrderly ==
    /\ NvClearOrderly
    /\ pcrSave' = NothingSavedOfPcrs

KeepsNote == UNCHANGED <<powerVars, pcrSave>>

\* Mutant of UpdatesPcr: a change of a saved PCR leaves the note.
UpdatesPcrUnnoted(p) == KeepsNote

UpdatesPcr(p) == IF StateSaved(p) THEN ReturnIfOrderly ELSE KeepsNote

\* What a session checks: the PCRs whose change counts.
CountedValues == [p \in {q \in allocated : ~ PCRBelongsTCBGroup(q)} |-> pcrs[p]]

-----------------------------------------------------------------------------
(* The commands. *)

\* What RAM holds before TPM2_Startup is not read: let it be what that writes.
Unstarted == [p \in Pcr |-> Fresh(IF 4 \in ResetLocality(p) THEN "ones" ELSE "zeros")]

PcrsInit ==
    /\ PowerInit
    /\ pcrs = Unstarted
    /\ pcrCounter = 0
    /\ pcrAuth = FALSE
    /\ gcPcrSave = <<>>
    /\ pcrSave = NothingSavedOfPcrs
    /\ allocated = Pcr /\ nvAllocated = Pcr
    /\ pcrReConfig = FALSE
    /\ drtmSequence = FALSE /\ drtmPreStartup = FALSE /\ startupLocality3 = FALSE
    /\ policySession = NoPolicySession
    /\ measurements = 0
    /\ measured = [p \in SavedPcrs |-> <<>>]
    /\ promisedAuth = FALSE
    /\ intact = FALSE
    /\ launches = {}
    /\ startedHow = "zeros"

\* TPM2_PCR_Extend and TPM2_PCR_Event: a PCR that is not allocated is skipped.
PcrExtend(p, locality) ==
    /\ started
    /\ locality \in ExtendLocality(p)
    /\ measurements < MaxMeasured
    /\ pcrCounter < MaxPcrCounter
    /\ UpdatesPcr(p)
    /\ EndsSequence
    /\ measurements' = measurements + 1
    /\ IF p \in allocated
       THEN /\ pcrs' = [pcrs EXCEPT ![p].log = Append(@, measurements')]
            /\ pcrCounter' = pcrCounter + Changes({p})
            /\ measured' = [q \in SavedPcrs |-> IF q = p THEN Append(measured[q], measurements')
                                                       ELSE measured[q]]
       ELSE UNCHANGED <<pcrs, pcrCounter, measured>>
    /\ UNCHANGED <<pcrAuth, allocated, nvAllocated, pcrReConfig, startupLocality3,
                   policySession, gcPcrSave, promisedAuth, startedHow>>

\* TPM2_PCR_Reset: the reset counts also when the PCR is not allocated.
PcrReset(p, locality) ==
    /\ started
    /\ PCRIsResetAllowed(p, locality)
    /\ pcrCounter < MaxPcrCounter
    /\ UpdatesPcr(p)
    /\ EndsSequence
    /\ pcrs' = IF p \in allocated THEN [pcrs EXCEPT ![p] = Fresh("zeros")] ELSE pcrs
    /\ pcrCounter' = pcrCounter + Changes({p})
    /\ UNCHANGED <<pcrAuth, allocated, nvAllocated, pcrReConfig, startupLocality3,
                   policySession, gcPcrSave, measurements, measured, promisedAuth, startedHow>>

\* TPM2_PCR_SetAuthValue, for the group of the PCRs 20 to 22.
PcrSetAuthValue ==
    /\ started
    /\ \E p \in Pcr : PCRBelongsAuthGroup(p)
    /\ ReturnIfOrderly
    /\ EndsSequence
    /\ pcrAuth' \in BOOLEAN
    /\ promisedAuth' = pcrAuth'
    /\ UNCHANGED <<pcrs, pcrCounter, allocated, nvAllocated, pcrReConfig, startupLocality3,
                   policySession, gcPcrSave, measurements, measured, startedHow>>

\* TPM2_PCR_Allocate: to NV only, and the note of a shutdown stays.  Both special
\* PCRs have to be allocated.
PcrAllocate(S) ==
    /\ started
    /\ nvAvailable
    /\ {HCRTM_PCR, DRTM_PCR} \subseteq S
    /\ EndsSequence
    /\ nvAllocated' = S
    /\ pcrReConfig' = TRUE
    /\ UNCHANGED <<powerVars, pcrs, pcrCounter, pcrAuth, pcrSave, allocated, startupLocality3,
                   policySession, gcPcrSave, measurements, measured, promisedAuth, startedHow>>

\* TPM2_Clear: the authValue goes, the change counts, and writing all of gp
\* takes a new allocation back.
PcrClear ==
    /\ started
    /\ nvAvailable
    /\ pcrCounter < MaxPcrCounter
    /\ ReturnIfOrderly
    /\ EndsSequence
    /\ pcrAuth' = FALSE /\ promisedAuth' = FALSE
    /\ pcrCounter' = pcrCounter + 1
    /\ nvAllocated' = allocated
    /\ UNCHANGED <<pcrs, allocated, pcrReConfig, startupLocality3, policySession, gcPcrSave, measurements,
                   measured, startedHow>>

\* Any other command, and any that is refused: it may take the note back.
PcrOtherCommand ==
    /\ EndsSequence
    /\ \/ KeepsNote
       \/ started /\ Orderly /\ ReturnIfOrderly
    /\ UNCHANGED <<pcrs, pcrCounter, pcrAuth, allocated, nvAllocated, pcrReConfig, startupLocality3,
                   policySession, gcPcrSave, measurements, measured, promisedAuth, startedHow>>

-----------------------------------------------------------------------------
(* One policy session. *)

SessionCommand ==
    /\ started
    /\ EndsSequence
    /\ UNCHANGED <<pcrs, pcrCounter, pcrAuth, allocated, nvAllocated, pcrReConfig,
                   startupLocality3, gcPcrSave, measurements, measured, promisedAuth, startedHow>>

PcrStartSession ==
    /\ policySession.place = "none"
    /\ SessionCommand
    /\ KeepsNote
    /\ policySession' = [NoPolicySession EXCEPT !.place = "loaded"]

\* TPM2_PolicyPCR: a second check has to find the PCRs of the first one.
PcrPolicy ==
    /\ policySession.place = "loaded"
    /\ policySession.counter \in {0, pcrCounter}
    /\ SessionCommand
    /\ KeepsNote
    /\ policySession' = [policySession EXCEPT !.counter = pcrCounter, !.seen = CountedValues]

\* TPM2_ContextSave and TPM2_ContextLoad
PcrContextSave ==
    /\ policySession.place = "loaded"
    /\ SessionCommand
    /\ ReturnIfOrderly
    /\ policySession' = [policySession EXCEPT !.place = "saved"]

PcrContextLoad ==
    /\ policySession.place = "saved"
    /\ SessionCommand
    /\ ReturnIfOrderly
    /\ policySession' = [policySession EXCEPT !.place = "loaded"]

\* The end of the session: flushed, or used to authorize a command.
PcrFlushSession ==
    /\ policySession.place # "none"
    /\ SessionCommand
    /\ KeepsNote
    /\ policySession' = NoPolicySession

-----------------------------------------------------------------------------
(* Shutdown, startup and the signals of the platform. *)

\* How the TPM was started, as TPM2_Shutdown notes it.
StartupFlags ==
    IF drtmPreStartup THEN "hcrtm" ELSE IF startupLocality3 THEN "locality3" ELSE "zeros"

PcrShutdown(shutdownType) ==
    /\ shutdownType = "STATE" => ~ pcrReConfig
    /\ PowerShutdown(shutdownType)
    /\ EndsSequence
    /\ pcrSave' =
         IF shutdownType = "STATE"
         THEN [pcrs    |-> [p \in SavedPcrs |-> IF p \in allocated THEN pcrs[p] ELSE gcPcrSave[p]],
               counter |-> pcrCounter,
               auth    |-> pcrAuth,
               how     |-> StartupFlags,
               session |-> IF policySession.place = "saved" THEN policySession
                                                            ELSE NoPolicySession]
         ELSE NothingSavedOfPcrs
    /\ UNCHANGED <<pcrs, pcrCounter, pcrAuth, allocated, nvAllocated, pcrReConfig, startupLocality3,
                   policySession, gcPcrSave, measurements, measured, promisedAuth, startedHow>>

\* A startup at locality 3 counts only if there was no H-CRTM event.
AtLocality3(locality) == locality = 3 /\ ~ drtmPreStartup

\* A Resume needs the H-CRTM event and the locality of the startup before.
StartsAsBefore(locality) ==
    /\ drtmPreStartup = (pcrSave.how = "hcrtm")
    /\ AtLocality3(locality) = (pcrSave.how = "locality3")

\* The PCRs whose values PCRStartup brings back.
Restored(type) == IF type = "RESUME" THEN SavedPcrs ELSE {}

\* Mutant of CounterAtStartup: only a startup that is no Resume counts.
CounterAtStartupUncounted(type) ==
    (IF type = "RESET" THEN 0 ELSE pcrSave.counter)
        + (IF type = "RESUME" THEN 0 ELSE Changes(Pcr))

\* Every PCR that starts anew counts.
CounterAtStartup(type) ==
    (IF type = "RESET" THEN 0 ELSE pcrSave.counter) + Changes(Pcr \ Restored(type))

\* The value that a PCR has after PCRStartup; an H-CRTM event stays in PCR 0.
ValueAtStartup(p, type, locality) ==
    CASE p \notin allocated      -> pcrs[p]
      [] p \in Restored(type)    -> pcrSave.pcrs[p]
      [] p = HCRTM_PCR /\ p \notin Restored(type) /\ drtmPreStartup -> pcrs[p]
      [] 4 \in ResetLocality(p)  -> Fresh("ones")
      [] OTHER -> Fresh(IF p = HCRTM_PCR /\ AtLocality3(locality) THEN "locality3" ELSE "zeros")

PcrStartup(startupType, locality) ==
    LET type == StartupType(startupType)
    IN  /\ locality \in {0, 3}
        /\ startupType = "STATE" => StartsAsBefore(locality)
        /\ CounterAtStartup(type) <= MaxPcrCounter
        /\ PowerStartup(startupType)
        /\ EndsSequence
        /\ pcrs' = [p \in Pcr |-> ValueAtStartup(p, type, locality)]
        /\ pcrCounter' = CounterAtStartup(type)
        /\ pcrAuth' = (type = "RESUME" /\ pcrSave.auth)
        /\ gcPcrSave' = IF type = "RESUME" THEN [p \in SavedPcrs \ allocated |-> pcrSave.pcrs[p]]
                        ELSE gcPcrSave
        /\ pcrSave' = NothingSavedOfPcrs
        /\ pcrReConfig' = FALSE
        /\ startupLocality3' = AtLocality3(locality)
        /\ policySession' = IF type = "RESET" THEN NoPolicySession ELSE pcrSave.session
        /\ promisedAuth' = (type = "RESUME" /\ promisedAuth)
        /\ measured' = IF type = "RESUME" THEN measured
                       ELSE [p \in SavedPcrs |-> IF p = HCRTM_PCR THEN pcrs'[p].log ELSE <<>>]
        /\ startedHow' = IF launches # {} THEN "hcrtm"
                         ELSE IF locality = 3 THEN "locality3" ELSE "zeros"
        /\ UNCHANGED <<allocated, nvAllocated, measurements>>

\* _TPM_Init: RAM is as at the start of the process, the allocation is that of
\* NV.  The histories go with it where no Resume can follow.
PcrPowerLost ==
    /\ PowerLoss
    /\ pcrs' = Unstarted
    /\ pcrCounter' = 0
    /\ pcrAuth' = FALSE
    /\ gcPcrSave' = [p \in SavedPcrs \ nvAllocated |-> Fresh("zeros")]
    /\ allocated' = nvAllocated
    /\ pcrReConfig' = FALSE
    /\ drtmSequence' = FALSE /\ drtmPreStartup' = FALSE /\ startupLocality3' = FALSE
    /\ policySession' = NoPolicySession
    /\ intact' = FALSE
    /\ launches' = {}
    /\ startedHow' = "zeros"
    /\ IF orderlyState = "STATE" THEN UNCHANGED <<measured, promisedAuth>>
       ELSE /\ measured' = [p \in SavedPcrs |-> <<>>]
            /\ promisedAuth' = FALSE
    /\ UNCHANGED <<pcrSave, nvAllocated, measurements>>

PcrNvSignal ==
    /\ NvSignal
    /\ UNCHANGED <<pcrs, pcrCounter, pcrAuth, pcrSave, allocated, nvAllocated, pcrReConfig,
                   startupLocality3, policySession, gcPcrSave, drtmVars, measurements, measured,
                   promisedAuth, startedHow>>

\* _TPM_Hash_Start: a sequence that was open is dropped.
HashStart ==
    /\ drtmSequence' = TRUE
    /\ intact' = TRUE
    /\ UNCHANGED <<powerVars, pcrs, pcrCounter, pcrAuth, pcrSave, allocated, nvAllocated, pcrReConfig,
                   startupLocality3, policySession, gcPcrSave, drtmPreStartup, launches, measurements,
                   measured, promisedAuth, startedHow>>

\* _TPM_Hash_End after TPM2_Startup: PCRResetDynamics, then the launch is
\* extended into PCR 17.  The note of a shutdown stays.
DrtmEnd ==
    /\ started
    /\ pcrs' = [p \in Pcr |->
                  CASE p \notin allocated \/ 4 \notin ResetLocality(p) -> pcrs[p]
                    [] p = DRTM_PCR -> [start |-> "zeros", log |-> <<measurements'>>]
                    [] OTHER        -> Fresh("zeros")]
    /\ pcrCounter' = pcrCounter + Changes({DRTM_PCR})
    /\ UNCHANGED drtmPreStartup

\* _TPM_Hash_End before TPM2_Startup: the H-CRTM event in PCR 0.
HcrtmEnd ==
    /\ ~ started
    /\ pcrs' = [pcrs EXCEPT ![HCRTM_PCR] = [start |-> "hcrtm", log |-> <<measurements'>>]]
    /\ pcrCounter' = pcrCounter + Changes({HCRTM_PCR})
    /\ drtmPreStartup' = TRUE

HashEnd ==
    /\ drtmSequence
    /\ measurements < MaxMeasured
    /\ pcrCounter < MaxPcrCounter
    /\ drtmSequence' = FALSE
    /\ intact' = FALSE
    /\ measurements' = measurements + 1
    /\ launches' = IF intact THEN launches \cup {measurements'} ELSE launches
    /\ DrtmEnd \/ HcrtmEnd
    /\ UNCHANGED <<powerVars, pcrAuth, pcrSave, allocated, nvAllocated, pcrReConfig, startupLocality3,
                   policySession, gcPcrSave, measured, promisedAuth, startedHow>>

PcrsNext ==
    \/ \E p \in Pcr, locality \in 0 .. 4 : PcrExtend(p, locality) \/ PcrReset(p, locality)
    \/ PcrSetAuthValue
    \/ \E S \in SUBSET Pcr : PcrAllocate(S)
    \/ PcrClear
    \/ PcrOtherCommand
    \/ PcrStartSession \/ PcrPolicy \/ PcrContextSave \/ PcrContextLoad \/ PcrFlushSession
    \/ \E type \in StartupArgument : PcrShutdown(type)
    \/ \E type \in StartupArgument, locality \in 0 .. 4 : PcrStartup(type, locality)
    \/ PcrPowerLost
    \/ PcrNvSignal
    \/ HashStart
    \/ HashEnd

PcrsSpec == PcrsInit /\ [][PcrsNext]_pcrVars

-----------------------------------------------------------------------------
(* Properties *)

\* A session whose check of the PCRs counts as current (SessionPCRValueIsCurrent)
\* was shown the values that the PCRs have now, but for the PCRs of the TCB
\* group: over resets and launches, saved contexts, shutdowns and startups, and
\* although the counter comes back from NV with every Resume and Restart.
CurrentCheckHolds ==
    started /\ policySession.place # "none" /\ policySession.counter \in {pcrCounter} \ {0}
        => policySession.seen = CountedValues

\* Nothing that was extended into a PCR that survives a Resume gets lost, and
\* nor does the authValue of the PCRs, until a startup that is no Resume: a
\* change after TPM2_Shutdown(STATE) prevents the Resume.
MeasurementsAreKept ==
    started => /\ \A p \in allocated \cap SavedPcrs : pcrs[p].log = measured[p]
               /\ pcrAuth = promisedAuth

\* The start values say what happened.  PCR 0 tells how the TPM was started, at
\* which locality or after which event, and a Resume does not hide that it was
\* started in another way than before.  PCR 17 starts from zeros only with the
\* measurement of a launch since the last startup that no command interrupted.
StartValuesTell ==
    started => /\ pcrs[HCRTM_PCR].start = startedHow
               /\ pcrs[DRTM_PCR].start = "zeros" => Head(pcrs[DRTM_PCR].log) \in launches
=============================================================================

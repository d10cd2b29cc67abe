--------------------------- MODULE Startup_proofs ---------------------------
(***************************************************************************)
(* What a startup of the TPM keeps and what it ends.                       *)
(*                                                                         *)
(* Measurements are kept, checks get stale and start values tell the truth, *)
(* for any set of PCRs that has the two special ones, and any number of     *)
(* measurements.  No object outlives its hierarchy or its time, for any     *)
(* number of slots, persistent handles, contexts, clearings and startups.  *)
(***************************************************************************)
EXTENDS Objects, Pcrs, FiniteSetTheorems, SequenceTheorems, TLAPS

-----------------------------------------------------------------------------
(* PCRs: the inductive invariant.                                          *)

IsPolicySession(s) ==
    /\ s = [place |-> s.place, counter |-> s.counter, seen |-> s.seen]
    /\ s.place \in {"none", "loaded", "saved"}
    /\ s.counter \in 0 .. MaxPcrCounter

\* What a Resume or a Restart may find.
SavedTypeOK ==
    orderlyState = "STATE" =>
        /\ pcrSave.pcrs \in [SavedPcrs -> PcrValue]
        /\ pcrSave.counter \in 0 .. MaxPcrCounter
        /\ pcrSave.auth \in BOOLEAN
        /\ pcrSave.how \in How
        /\ IsPolicySession(pcrSave.session)

TypesFit ==
    /\ PcrsTypeOK
    /\ IsPolicySession(policySession)
    /\ measured \in [SavedPcrs -> Seq(1 .. MaxMeasured)]
    /\ {HCRTM_PCR, DRTM_PCR} \subseteq allocated \cap nvAllocated
    /\ SavedTypeOK

\* A check has no count that is still to come, and one of the present count saw
\* what is there; a session that was saved stays behind the count that was.
ChecksFit ==
    /\ ~ started => policySession = NoPolicySession
    /\ policySession.counter <= pcrCounter
    /\ policySession.counter = pcrCounter /\ pcrCounter # 0 => policySession.seen = CountedValues
    /\ orderlyState = "STATE" => pcrSave.session.counter <= pcrSave.counter

\* Measurements are where the next Resume will look for them, also those of a
\* PCR that is not allocated now.
MeasurementsFit ==
    /\ MeasurementsAreKept
    /\ \A p \in SavedPcrs \ allocated :
          gcPcrSave[p].log = IF started THEN measured[p] ELSE <<>>
    /\ orderlyState = "STATE" =>
          /\ \A p \in SavedPcrs : pcrSave.pcrs[p].log = measured[p]
          /\ pcrSave.auth = promisedAuth

\* The flags know how the TPM was started, or how it will be.
StartsFit ==
    /\ drtmSequence = intact
    /\ started => StartupFlags = startedHow /\ pcrs[HCRTM_PCR].start = startedHow
    /\ ~ started => /\ drtmPreStartup <=> launches # {}
                    /\ drtmPreStartup => pcrs[HCRTM_PCR].start = "hcrtm"
    /\ orderlyState = "STATE" => pcrSave.pcrs[HCRTM_PCR].start = pcrSave.how

LaunchIsFirst ==
    started /\ pcrs[DRTM_PCR].start = "zeros" =>
        pcrs[DRTM_PCR].log # <<>> /\ Head(pcrs[DRTM_PCR].log) \in launches

PcrsInv == TypesFit /\ ChecksFit /\ MeasurementsFit /\ StartsFit /\ LaunchIsFirst

-----------------------------------------------------------------------------
(* Counting changes.                                                       *)

LEMMA SpecialPcrs ==
    /\ Pcr \subseteq 0 .. 23 /\ IsFiniteSet(Pcr)
    /\ HCRTM_PCR \in Pcr /\ DRTM_PCR \in Pcr
    /\ HCRTM_PCR = 0 /\ DRTM_PCR = 17
    /\ HCRTM_PCR \in SavedPcrs /\ DRTM_PCR \notin SavedPcrs
    /\ MaxMeasured \in Nat /\ MaxPcrCounter \in Nat
  <1>1. IsFiniteSet(Pcr)
    <2>1. IsFiniteSet(0 .. 23)
      <3>1. 0 \in Int /\ 23 \in Int
        OBVIOUS
      <3> QED
        BY ONLY <3>1, FS_Interval, Zenon
    <2> QED
      BY <2>1, PcrsAssumption, FS_Subset
  <1> QED
    BY <1>1, PcrsAssumption DEF HCRTM_PCR, DRTM_PCR, SavedPcrs, StateSaved

\* A PCR that is saved is never reset by a command or a launch.
LEMMA SavedIsNotReset ==
    \A p \in SavedPcrs : ResetLocality(p) = {}
  BY SpecialPcrs DEF SavedPcrs, StateSaved, ResetLocality

\* PCRExtend: another measurement in a log.
LEMMA AppendMeasurement ==
    ASSUME NEW s \in Seq(1 .. MaxMeasured), NEW m \in 1 .. MaxMeasured
    PROVE  /\ Append(s, m) \in Seq(1 .. MaxMeasured)
           /\ Append(s, m) # <<>>
           /\ s # <<>> => Head(Append(s, m)) = Head(s)
  <1>1. Append(s, m) \in Seq(1 .. MaxMeasured) /\ Append(s, m) # <<>>
    BY AppendProperties
  <1>2. ASSUME s # <<>> PROVE Head(Append(s, m)) = Head(s)
    <2>1. 1 \in 1 .. Len(s)
      BY <1>2
    <2> QED
      BY <1>1, <1>2, <2>1, AppendProperties
  <1> QED
    BY <1>1, <1>2

\* PCRChanged for one PCR counts one at most.
LEMMA OneChange ==
    \A p \in Pcr : Changes({p}) = IF PCRBelongsTCBGroup(p) THEN 0 ELSE 1
  <1>1. SUFFICES ASSUME NEW p \in Pcr
                 PROVE  Changes({p}) = IF PCRBelongsTCBGroup(p) THEN 0 ELSE 1
    OBVIOUS
  <1>2. {q \in {p} : ~ PCRBelongsTCBGroup(q)} = IF PCRBelongsTCBGroup(p) THEN {} ELSE {p}
    OBVIOUS
  <1> QED
    BY <1>2, FS_EmptySet, FS_Singleton DEF Changes

\* With PCR 17 among them some changes count.
LEMMA ManyChanges ==
    \A S \in SUBSET Pcr : Changes(S) \in Nat /\ (DRTM_PCR \in S => Changes(S) > 0)
  <1>1. SUFFICES ASSUME NEW S \in SUBSET Pcr
                 PROVE  Changes(S) \in Nat /\ (DRTM_PCR \in S => Changes(S) > 0)
    OBVIOUS
  <1> DEFINE C == {p \in S : ~ PCRBelongsTCBGroup(p)}
  <1>2. IsFiniteSet(C)
    BY SpecialPcrs, FS_Subset
  <1>3. Cardinality(C) \in Nat
    BY <1>2, FS_CardinalityType
  <1>4. ASSUME DRTM_PCR \in S PROVE Cardinality(C) # 0
    <2>1. DRTM_PCR \in C
      BY <1>4 DEF DRTM_PCR, PCRBelongsTCBGroup
    <2> QED
      BY <1>2, <2>1, FS_EmptySet
  <1> QED
    BY <1>3, <1>4 DEF Changes

-----------------------------------------------------------------------------
(* The commands.                                                           *)

\* The note of a shutdown stays with all that it stands for, or it is gone.
NoteFits ==
    /\ PowerTypeOK' /\ started' = started
    /\ pcrSave' # NothingSavedOfPcrs => orderlyState' = "STATE"
    /\ orderlyState' = "STATE" => orderlyState = "STATE" /\ pcrSave' = pcrSave

LEMMA NoteStep ==
    ASSUME PcrsInv, KeepsNote \/ ReturnIfOrderly
    PROVE  NoteFits
  <1>1. CASE KeepsNote
    BY <1>1 DEF NoteFits, PcrsInv, TypesFit, PcrsTypeOK, PowerTypeOK, KeepsNote, powerVars
  <1>2. CASE ReturnIfOrderly
    BY <1>2 DEF NoteFits, PcrsInv, TypesFit, PcrsTypeOK, PowerTypeOK, ReturnIfOrderly, NvClearOrderly
  <1> QED
    BY <1>1, <1>2

LEMMA UpdateStep ==
    ASSUME NEW p \in Pcr, UpdatesPcr(p)
    PROVE  /\ KeepsNote \/ ReturnIfOrderly
           /\ p \in SavedPcrs => orderlyState' = "NONE"
  BY DEF UpdatesPcr, ReturnIfOrderly, NvClearOrderly, SavedPcrs

\* A step that changes no PCR, no count and no history of them: all that is to
\* be shown of it is what it does to the session, the note and the sequence.
LEMMA QuietStep ==
    ASSUME PcrsInv, NoteFits,
           UNCHANGED <<pcrs, pcrCounter, pcrAuth, allocated, startupLocality3, gcPcrSave, measurements,
                       measured, promisedAuth, startedHow, drtmPreStartup, launches>>,
           nvAllocated' \in SUBSET Pcr, {HCRTM_PCR, DRTM_PCR} \subseteq nvAllocated',
           pcrReConfig' \in BOOLEAN, drtmSequence' \in BOOLEAN, intact' = drtmSequence',
           IsPolicySession(policySession'),
           ~ started => policySession' = NoPolicySession,
           policySession'.counter <= pcrCounter,
           policySession'.counter = pcrCounter /\ pcrCounter # 0 =>
               policySession'.seen = CountedValues
    PROVE  PcrsInv'
  <1>1. TypesFit'
    <2>1. {pcrAuth, pcrReConfig, drtmSequence, drtmPreStartup, startupLocality3,
           promisedAuth, intact}' \subseteq BOOLEAN
      BY Zenon DEF PcrsInv, TypesFit, PcrsTypeOK
    <2>2. SavedTypeOK'
      BY DEF NoteFits, PcrsInv, TypesFit, SavedTypeOK, IsPolicySession
    <2>3. PcrsTypeOK'
      BY <2>1 DEF NoteFits, PcrsInv, TypesFit, PcrsTypeOK, IsPolicySession
    <2> QED
      BY <2>2, <2>3 DEF PcrsInv, TypesFit, IsPolicySession
  <1>2. CountedValues' = CountedValues
    BY DEF CountedValues
  <1>3. ChecksFit'
    BY <1>2 DEF NoteFits, PcrsInv, ChecksFit
  <1>4. MeasurementsFit'
    BY DEF NoteFits, PcrsInv, MeasurementsFit, MeasurementsAreKept
  <1>5. StartsFit' /\ LaunchIsFirst'
    BY DEF NoteFits, PcrsInv, StartsFit, LaunchIsFirst, StartupFlags
  <1> QED
    BY <1>1, <1>3, <1>4, <1>5 DEF PcrsInv

LEMMA PcrExtendKeeps ==
    ASSUME PcrsInv, NEW p \in Pcr, NEW locality \in 0 .. 4, PcrExtend(p, locality)
    PROVE  PcrsInv'
  <1>1. /\ PowerTypeOK' /\ started /\ started'
        /\ pcrSave' # NothingSavedOfPcrs => orderlyState' = "STATE"
        /\ orderlyState' = "STATE" => orderlyState = "STATE" /\ pcrSave' = pcrSave
        /\ p \in SavedPcrs => orderlyState' = "NONE"
    BY NoteStep, UpdateStep DEF PcrExtend, NoteFits
  <1>2. measurements' \in 1 .. MaxMeasured /\ measurements <= measurements'
    BY SpecialPcrs DEF PcrExtend, PcrsInv, TypesFit, PcrsTypeOK
  <1>3. /\ UNCHANGED <<pcrAuth, allocated, nvAllocated, pcrReConfig, startupLocality3, policySession,
                       gcPcrSave, promisedAuth, startedHow, drtmPreStartup, launches>>
        /\ drtmSequence' = FALSE /\ intact' = FALSE
    BY DEF PcrExtend, EndsSequence
  <1>4. /\ pcrs \in [Pcr -> PcrValue] /\ measured \in [SavedPcrs -> Seq(1 .. MaxMeasured)]
        /\ pcrCounter \in 0 .. MaxPcrCounter /\ allocated \subseteq Pcr
    BY DEF PcrsInv, TypesFit, PcrsTypeOK
  <1>5. CASE p \in allocated
    <2>1. /\ pcrs' = [pcrs EXCEPT ![p].log = Append(@, measurements')]
          /\ pcrCounter' = pcrCounter + (IF PCRBelongsTCBGroup(p) THEN 0 ELSE 1)
          /\ measured' = [q \in SavedPcrs |-> IF q = p THEN Append(measured[q], measurements')
                                                        ELSE measured[q]]
      BY <1>5, OneChange DEF PcrExtend
    <2>2. pcrs' \in [Pcr -> PcrValue] /\ \A q \in Pcr : pcrs'[q].start = pcrs[q].start
      BY <1>2, <1>4, <2>1, AppendMeasurement DEF PcrValue
    <2>3. measured' \in [SavedPcrs -> Seq(1 .. MaxMeasured)]
      BY <1>2, <1>4, <2>1, AppendMeasurement
    <2>4. pcrCounter' \in 0 .. MaxPcrCounter /\ pcrCounter' >= pcrCounter
      BY <1>4, <2>1, SpecialPcrs DEF PcrExtend
    <2>5. TypesFit'
      <3>1. {pcrAuth, pcrReConfig, drtmSequence, drtmPreStartup, startupLocality3,
             promisedAuth, intact}' \subseteq BOOLEAN
        BY <1>3, Zenon DEF PcrsInv, TypesFit, PcrsTypeOK
      <3>2. /\ policySession.place' \in {"none", "loaded", "saved"}
            /\ policySession.counter' \in 0 .. MaxPcrCounter
        BY <1>3 DEF PcrsInv, TypesFit, PcrsTypeOK
      <3>3. launches' \subseteq 1 .. measurements'
        BY <1>2, <1>3, SpecialPcrs DEF PcrsInv, TypesFit, PcrsTypeOK
      <3>4. gcPcrSave' \in [SavedPcrs \ allocated' -> PcrValue] /\ startedHow' \in How
        BY <1>3 DEF PcrsInv, TypesFit, PcrsTypeOK
      <3>5. {allocated', nvAllocated'} \subseteq SUBSET Pcr
        BY <1>3 DEF PcrsInv, TypesFit, PcrsTypeOK
      <3>6. PcrsTypeOK'
        BY <1>1, <1>2, <2>2, <2>4, <3>1, <3>2, <3>3, <3>4, <3>5 DEF PcrsTypeOK
      <3>7. SavedTypeOK' /\ IsPolicySession(policySession)'
        BY <1>1, <1>3 DEF PcrsInv, TypesFit, SavedTypeOK, IsPolicySession
      <3> QED
        BY <1>3, <2>3, <3>6, <3>7 DEF PcrsInv, TypesFit
    <2>6. ChecksFit'
      <3>1. CASE PCRBelongsTCBGroup(p)
        <4>1. pcrCounter' = pcrCounter /\ CountedValues' = CountedValues
          BY <1>3, <1>4, <2>1, <3>1 DEF CountedValues
        <4> QED
          BY <1>1, <1>3, <4>1 DEF PcrsInv, ChecksFit
      <3>2. CASE ~ PCRBelongsTCBGroup(p)
        BY <1>1, <1>3, <1>4, <2>1, <3>2 DEF PcrsInv, ChecksFit, TypesFit, IsPolicySession
      <3> QED
        BY <3>1, <3>2
    <2>7. MeasurementsFit'
      BY <1>1, <1>3, <1>4, <1>5, <2>1 DEF PcrsInv, MeasurementsFit, MeasurementsAreKept, PcrValue, SavedPcrs
    <2>8. StartsFit'
      BY <1>1, <1>3, <2>2, SpecialPcrs DEF PcrsInv, StartsFit, StartupFlags
    <2>9. LaunchIsFirst'
      <3>1. /\ pcrs[DRTM_PCR].log \in Seq(1 .. MaxMeasured)
            /\ pcrs'[DRTM_PCR].log = IF p = DRTM_PCR THEN Append(pcrs[DRTM_PCR].log, measurements')
                                     ELSE pcrs[DRTM_PCR].log
        BY <1>4, <2>1, SpecialPcrs DEF PcrValue
      <3>2. pcrs[DRTM_PCR].log # <<>> =>
               pcrs'[DRTM_PCR].log # <<>> /\ Head(pcrs'[DRTM_PCR].log) = Head(pcrs[DRTM_PCR].log)
        BY <1>2, <3>1, AppendProperties, HeadTailAppend
      <3>3. pcrs'[DRTM_PCR].start = pcrs[DRTM_PCR].start
        BY <2>2, SpecialPcrs
      <3> QED
        BY <1>1, <1>3, <3>2, <3>3 DEF PcrsInv, LaunchIsFirst
    <2> QED
      BY <2>5, <2>6, <2>7, <2>8, <2>9 DEF PcrsInv
  <1>6. CASE p \notin allocated
    <2>1. UNCHANGED <<pcrs, pcrCounter, measured>>
      BY <1>6 DEF PcrExtend
    <2>2. TypesFit'
      <3>1. {pcrAuth, pcrReConfig, drtmSequence, drtmPreStartup, startupLocality3,
             promisedAuth, intact}' \subseteq BOOLEAN
        BY <1>3, Zenon DEF PcrsInv, TypesFit, PcrsTypeOK
      <3>2. launches' \subseteq 1 .. measurements'
        BY <1>2, <1>3, SpecialPcrs DEF PcrsInv, TypesFit, PcrsTypeOK
      <3>3. PcrsTypeOK'
        BY <1>1, <1>2, <1>3, <2>1, <3>1, <3>2 DEF PcrsInv, TypesFit, PcrsTypeOK
      <3>4. SavedTypeOK' /\ IsPolicySession(policySession)'
        BY <1>1, <1>3 DEF PcrsInv, TypesFit, SavedTypeOK, IsPolicySession
      <3> QED
        BY <1>3, <2>1, <3>3, <3>4 DEF PcrsInv, TypesFit
    <2>3. ChecksFit' /\ LaunchIsFirst'
      BY <1>1, <1>3, <2>1 DEF PcrsInv, ChecksFit, CountedValues, LaunchIsFirst
    <2>4. MeasurementsFit'
      BY <1>1, <1>3, <2>1 DEF PcrsInv, MeasurementsFit, MeasurementsAreKept
    <2>5. StartsFit'
      BY <1>1, <1>3, <2>1 DEF PcrsInv, StartsFit, StartupFlags
    <2> QED
      BY <2>2, <2>3, <2>4, <2>5 DEF PcrsInv
  <1> QED
    BY <1>5, <1>6

LEMMA PcrResetKeeps ==
    ASSUME PcrsInv, NEW p \in Pcr, NEW locality \in 0 .. 4, PcrReset(p, locality)
    PROVE  PcrsInv'
  <1>1. p \in {16, 20, 21, 22, 23}
    BY SpecialPcrs DEF PcrReset, PCRIsResetAllowed, ResetLocality
  <1>2. p \notin SavedPcrs /\ p # HCRTM_PCR /\ p # DRTM_PCR
    BY <1>1, SpecialPcrs DEF SavedPcrs, StateSaved
  <1>3. NoteFits /\ started
    BY NoteStep, UpdateStep DEF PcrReset
  <1>4. /\ UNCHANGED <<pcrAuth, allocated, nvAllocated, pcrReConfig, startupLocality3, policySession,
                       gcPcrSave, measurements, measured, promisedAuth, startedHow, drtmPreStartup,
                       launches>>
        /\ drtmSequence' = FALSE /\ intact' = FALSE
    BY DEF PcrReset, EndsSequence
  <1>5. /\ pcrs \in [Pcr -> PcrValue]
        /\ pcrCounter \in 0 .. MaxPcrCounter /\ allocated \subseteq Pcr
    BY DEF PcrsInv, TypesFit, PcrsTypeOK
  <1>6. /\ pcrs' = IF p \in allocated THEN [pcrs EXCEPT ![p] = Fresh("zeros")] ELSE pcrs
        /\ pcrCounter' = pcrCounter + (IF PCRBelongsTCBGroup(p) THEN 0 ELSE 1)
    BY OneChange DEF PcrReset
  <1>7. pcrs' \in [Pcr -> PcrValue] /\ \A q \in Pcr \ {p} : pcrs'[q] = pcrs[q]
    BY <1>5, <1>6 DEF PcrValue, Fresh, StartValue
  <1>8. pcrCounter' \in 0 .. MaxPcrCounter
    BY <1>5, <1>6, SpecialPcrs DEF PcrReset
  <1>9. TypesFit'
    <2>1. {pcrAuth, pcrReConfig, drtmSequence, drtmPreStartup, startupLocality3,
           promisedAuth, intact}' \subseteq BOOLEAN
      BY <1>4, Zenon DEF PcrsInv, TypesFit, PcrsTypeOK
    <2>2. PcrsTypeOK'
      BY <1>3, <1>4, <1>7, <1>8, <2>1 DEF NoteFits, PcrsInv, TypesFit, PcrsTypeOK
    <2>3. SavedTypeOK' /\ IsPolicySession(policySession)'
      BY <1>3, <1>4 DEF NoteFits, PcrsInv, TypesFit, SavedTypeOK, IsPolicySession
    <2> QED
      BY <1>4, <2>2, <2>3 DEF PcrsInv, TypesFit
  <1>10. ChecksFit'
    <2>1. CASE PCRBelongsTCBGroup(p)
      <3>1. pcrCounter' = pcrCounter /\ CountedValues' = CountedValues
        BY <1>4, <1>5, <1>6, <1>7, <2>1 DEF CountedValues
      <3> QED
        BY <1>3, <1>4, <3>1 DEF NoteFits, PcrsInv, ChecksFit
    <2>2. CASE ~ PCRBelongsTCBGroup(p)
      BY <1>3, <1>4, <1>5, <1>6, <2>2 DEF NoteFits, PcrsInv, ChecksFit, TypesFit, IsPolicySession
    <2> QED
      BY <2>1, <2>2
  <1>11. MeasurementsFit'
    BY <1>2, <1>3, <1>4, <1>5, <1>7 DEF NoteFits, PcrsInv, MeasurementsFit, MeasurementsAreKept
  <1>12. StartsFit' /\ LaunchIsFirst'
    BY <1>2, <1>3, <1>4, <1>7, SpecialPcrs
    DEF NoteFits, PcrsInv, StartsFit, LaunchIsFirst, StartupFlags
  <1> QED
    BY <1>9, <1>10, <1>11, <1>12 DEF PcrsInv

\* TPM2_PCR_SetAuthValue and TPM2_Clear: the note is gone with what it stood for.
LEMMA PcrSetAuthValueKeeps ==
    ASSUME PcrsInv, PcrSetAuthValue
    PROVE  PcrsInv'
  <1>1. NoteFits /\ started /\ orderlyState' = "NONE"
    BY NoteStep DEF PcrSetAuthValue, ReturnIfOrderly, NvClearOrderly
  <1>2. /\ UNCHANGED <<pcrs, pcrCounter, allocated, nvAllocated, pcrReConfig, startupLocality3,
                       policySession, gcPcrSave, measurements, measured, startedHow, drtmPreStartup,
                       launches>>
        /\ drtmSequence' = FALSE /\ intact' = FALSE
        /\ pcrAuth' \in BOOLEAN /\ promisedAuth' = pcrAuth'
    BY DEF PcrSetAuthValue, EndsSequence
  <1>3. TypesFit'
    <2>1. {pcrAuth, pcrReConfig, drtmSequence, drtmPreStartup, startupLocality3,
           promisedAuth, intact}' \subseteq BOOLEAN
      BY <1>2, Zenon DEF PcrsInv, TypesFit, PcrsTypeOK
    <2> QED
      BY <1>1, <1>2, <2>1 DEF NoteFits, PcrsInv, TypesFit, PcrsTypeOK, SavedTypeOK, IsPolicySession
  <1>4. ChecksFit'
    BY <1>1, <1>2 DEF NoteFits, PcrsInv, ChecksFit, CountedValues
  <1>5. MeasurementsFit'
    BY <1>1, <1>2 DEF NoteFits, PcrsInv, MeasurementsFit, MeasurementsAreKept
  <1>6. StartsFit' /\ LaunchIsFirst'
    BY <1>1, <1>2 DEF NoteFits, PcrsInv, StartsFit, LaunchIsFirst, StartupFlags
  <1> QED
    BY <1>3, <1>4, <1>5, <1>6 DEF PcrsInv

LEMMA PcrClearKeeps ==
    ASSUME PcrsInv, PcrClear
    PROVE  PcrsInv'
  <1>1. NoteFits /\ started /\ orderlyState' = "NONE"
    BY NoteStep DEF PcrClear, ReturnIfOrderly, NvClearOrderly
  <1>2. /\ UNCHANGED <<pcrs, allocated, pcrReConfig, startupLocality3, policySession, gcPcrSave,
                       measurements, measured, startedHow, drtmPreStartup, launches>>
        /\ drtmSequence' = FALSE /\ intact' = FALSE
        /\ pcrAuth' = FALSE /\ promisedAuth' = FALSE
        /\ pcrCounter' = pcrCounter + 1
        /\ nvAllocated' = allocated
    BY DEF PcrClear, EndsSequence
  <1>3. pcrCounter \in 0 .. MaxPcrCounter /\ pcrCounter' \in 0 .. MaxPcrCounter
    BY <1>2, SpecialPcrs DEF PcrClear, PcrsInv, TypesFit, PcrsTypeOK
  <1>4. TypesFit'
    <2>1. {pcrAuth, pcrReConfig, drtmSequence, drtmPreStartup, startupLocality3,
           promisedAuth, intact}' \subseteq BOOLEAN
      BY <1>2, Zenon DEF PcrsInv, TypesFit, PcrsTypeOK
    <2> QED
      BY <1>1, <1>2, <1>3, <2>1
      DEF NoteFits, PcrsInv, TypesFit, PcrsTypeOK, SavedTypeOK, IsPolicySession
  <1>5. ChecksFit'
    BY <1>1, <1>2, <1>3 DEF NoteFits, PcrsInv, ChecksFit, TypesFit, IsPolicySession
  <1>6. MeasurementsFit'
    BY <1>1, <1>2 DEF NoteFits, PcrsInv, MeasurementsFit, MeasurementsAreKept
  <1>7. StartsFit' /\ LaunchIsFirst'
    BY <1>1, <1>2 DEF NoteFits, PcrsInv, StartsFit, LaunchIsFirst, StartupFlags
  <1> QED
    BY <1>4, <1>5, <1>6, <1>7 DEF PcrsInv

\* What the invariant says of a session that a quiet step leaves alone.
LEMMA SessionStays ==
    ASSUME PcrsInv, policySession' = policySession
    PROVE  /\ IsPolicySession(policySession')
           /\ ~ started => policySession' = NoPolicySession
           /\ policySession'.counter <= pcrCounter
           /\ policySession'.counter = pcrCounter /\ pcrCounter # 0 =>
                 policySession'.seen = CountedValues
  BY DEF PcrsInv, TypesFit, ChecksFit, IsPolicySession

LEMMA AllocationStays ==
    ASSUME PcrsInv, UNCHANGED <<nvAllocated, pcrReConfig>>
    PROVE  /\ nvAllocated' \in SUBSET Pcr /\ {HCRTM_PCR, DRTM_PCR} \subseteq nvAllocated'
           /\ pcrReConfig' \in BOOLEAN
  <1>1. pcrReConfig' \in BOOLEAN
    BY Zenon DEF PcrsInv, TypesFit, PcrsTypeOK
  <1> QED
    BY <1>1 DEF PcrsInv, TypesFit, PcrsTypeOK

LEMMA PcrAllocateKeeps ==
    ASSUME PcrsInv, NEW S \in SUBSET Pcr, PcrAllocate(S)
    PROVE  PcrsInv'
  <1>1. NoteFits
    BY NoteStep DEF PcrAllocate, KeepsNote
  <1>2. /\ nvAllocated' = S /\ {HCRTM_PCR, DRTM_PCR} \subseteq S
        /\ pcrReConfig' = TRUE /\ drtmSequence' = FALSE /\ intact' = FALSE
        /\ policySession' = policySession
        /\ UNCHANGED <<pcrs, pcrCounter, pcrAuth, allocated, startupLocality3, gcPcrSave, measurements,
                       measured, promisedAuth, startedHow, drtmPreStartup, launches>>
    BY DEF PcrAllocate, EndsSequence
  <1> QED
    BY <1>1, <1>2, SessionStays, QuietStep

LEMMA PcrOtherCommandKeeps ==
    ASSUME PcrsInv, PcrOtherCommand
    PROVE  PcrsInv'
  <1>1. NoteFits
    BY NoteStep DEF PcrOtherCommand
  <1>2. /\ drtmSequence' = FALSE /\ intact' = FALSE
        /\ UNCHANGED <<policySession, nvAllocated, pcrReConfig>>
        /\ UNCHANGED <<pcrs, pcrCounter, pcrAuth, allocated, startupLocality3, gcPcrSave, measurements,
                       measured, promisedAuth, startedHow, drtmPreStartup, launches>>
    BY DEF PcrOtherCommand, EndsSequence
  <1> QED
    BY <1>1, <1>2, SessionStays, AllocationStays, QuietStep

\* The commands of the policy session: what is to be shown of what they leave.
LEMMA SessionCommandKeeps ==
    ASSUME PcrsInv, SessionCommand, KeepsNote \/ ReturnIfOrderly,
           IsPolicySession(policySession'),
           policySession'.counter <= pcrCounter,
           policySession'.counter = pcrCounter /\ pcrCounter # 0 =>
               policySession'.seen = CountedValues
    PROVE  PcrsInv'
  <1>1. NoteFits
    BY NoteStep
  <1>2. /\ started /\ drtmSequence' = FALSE /\ intact' = FALSE
        /\ UNCHANGED <<nvAllocated, pcrReConfig>>
        /\ UNCHANGED <<pcrs, pcrCounter, pcrAuth, allocated, startupLocality3, gcPcrSave, measurements,
                       measured, promisedAuth, startedHow, drtmPreStartup, launches>>
    BY DEF SessionCommand, EndsSequence
  <1> QED
    BY <1>1, <1>2, AllocationStays, QuietStep

LEMMA SessionCommandsKeep ==
    ASSUME PcrsInv,
           \/ PcrStartSession \/ PcrPolicy \/ PcrContextSave \/ PcrContextLoad \/ PcrFlushSession
    PROVE  PcrsInv'
  <1>1. /\ pcrCounter \in 0 .. MaxPcrCounter
        /\ IsPolicySession(policySession)
        /\ policySession.counter <= pcrCounter
        /\ policySession.counter = pcrCounter /\ pcrCounter # 0 => policySession.seen = CountedValues
    BY DEF PcrsInv, TypesFit, PcrsTypeOK, ChecksFit
  <1>2. CASE PcrStartSession
    <2>1. policySession' = [place |-> "loaded", counter |-> 0, seen |-> <<>>]
      BY <1>2 DEF PcrStartSession, NoPolicySession
    <2>2. IsPolicySession(policySession')
      BY <2>1, SpecialPcrs DEF IsPolicySession
    <2> QED
      BY <1>1, <1>2, <2>1, <2>2, SessionCommandKeeps DEF PcrStartSession
  <1>3. CASE PcrPolicy
    <2>1. policySession' = [place |-> policySession.place, counter |-> pcrCounter,
                            seen |-> CountedValues]
      BY <1>1, <1>3 DEF PcrPolicy, IsPolicySession
    <2>2. IsPolicySession(policySession')
      BY <1>1, <2>1 DEF IsPolicySession
    <2> QED
      BY <1>1, <1>3, <2>1, <2>2, SessionCommandKeeps DEF PcrPolicy
  <1>4. CASE PcrContextSave
    <2>1. policySession' = [place |-> "saved", counter |-> policySession.counter,
                            seen |-> policySession.seen]
      BY <1>1, <1>4 DEF PcrContextSave, IsPolicySession
    <2>2. IsPolicySession(policySession')
      BY <1>1, <2>1 DEF IsPolicySession
    <2> QED
      BY <1>1, <1>4, <2>1, <2>2, SessionCommandKeeps DEF PcrContextSave
  <1>5. CASE PcrContextLoad
    <2>1. policySession' = [place |-> "loaded", counter |-> policySession.counter,
                            seen |-> policySession.seen]
      BY <1>1, <1>5 DEF PcrContextLoad, IsPolicySession
    <2>2. IsPolicySession(policySession')
      BY <1>1, <2>1 DEF IsPolicySession
    <2> QED
      BY <1>1, <1>5, <2>1, <2>2, SessionCommandKeeps DEF PcrContextLoad
  <1>6. CASE PcrFlushSession
    <2>1. policySession' = [place |-> "none", counter |-> 0, seen |-> <<>>]
      BY <1>6 DEF PcrFlushSession, NoPolicySession
    <2>2. IsPolicySession(policySession')
      BY <2>1, SpecialPcrs DEF IsPolicySession
    <2> QED
      BY <1>1, <1>6, <2>1, <2>2, SessionCommandKeeps DEF PcrFlushSession
  <1> QED
    BY <1>2, <1>3, <1>4, <1>5, <1>6

-----------------------------------------------------------------------------
(* Shutdown, startup and the signals of the platform.                      *)

LEMMA PcrNvSignalKeeps ==
    ASSUME PcrsInv, PcrNvSignal
    PROVE  PcrsInv'
  <1>1. NoteFits
    BY DEF NoteFits, PcrNvSignal, NvSignal, PcrsInv, TypesFit, PcrsTypeOK, PowerTypeOK
  <1>2. /\ UNCHANGED <<policySession, nvAllocated, pcrReConfig, drtmSequence, intact>>
        /\ UNCHANGED <<pcrs, pcrCounter, pcrAuth, allocated, startupLocality3, gcPcrSave, measurements,
                       measured, promisedAuth, startedHow, drtmPreStartup, launches>>
    BY DEF PcrNvSignal, drtmVars
  <1>3. drtmSequence' \in BOOLEAN
    BY <1>2, Zenon DEF PcrsInv, TypesFit, PcrsTypeOK
  <1>4. intact' = drtmSequence'
    BY <1>2 DEF PcrsInv, StartsFit
  <1> QED
    BY <1>1, <1>2, <1>3, <1>4, SessionStays, AllocationStays, QuietStep

LEMMA HashStartKeeps ==
    ASSUME PcrsInv, HashStart
    PROVE  PcrsInv'
  <1>1. NoteFits
    BY NoteStep DEF HashStart, KeepsNote
  <1>2. /\ drtmSequence' = TRUE /\ intact' = TRUE
        /\ UNCHANGED <<policySession, nvAllocated, pcrReConfig>>
        /\ UNCHANGED <<pcrs, pcrCounter, pcrAuth, allocated, startupLocality3, gcPcrSave, measurements,
                       measured, promisedAuth, startedHow, drtmPreStartup, launches>>
    BY DEF HashStart
  <1> QED
    BY <1>1, <1>2, SessionStays, AllocationStays, QuietStep

LEMMA NoStepKeeps ==
    ASSUME PcrsInv, UNCHANGED pcrVars
    PROVE  PcrsInv'
  <1>1. NoteFits
    BY NoteStep DEF KeepsNote, pcrVars, pcrOwn
  <1>2. /\ UNCHANGED <<policySession, nvAllocated, pcrReConfig, drtmSequence, intact>>
        /\ UNCHANGED <<pcrs, pcrCounter, pcrAuth, allocated, startupLocality3, gcPcrSave, measurements,
                       measured, promisedAuth, startedHow, drtmPreStartup, launches>>
    BY DEF pcrVars, pcrOwn, pcrHistory
  <1>3. drtmSequence' \in BOOLEAN
    BY <1>2, Zenon DEF PcrsInv, TypesFit, PcrsTypeOK
  <1>4. intact' = drtmSequence'
    BY <1>2 DEF PcrsInv, StartsFit
  <1> QED
    BY <1>1, <1>2, <1>3, <1>4, SessionStays, AllocationStays, QuietStep

LEMMA PcrShutdownKeeps ==
    ASSUME PcrsInv, NEW shutdownType \in StartupArgument, PcrShutdown(shutdownType)
    PROVE  PcrsInv'
  <1>1. /\ PowerTypeOK' /\ started /\ started' /\ orderlyState' = shutdownType
        /\ shutdownType = "STATE" \/ pcrSave' = NothingSavedOfPcrs
    BY DEF PcrShutdown, PowerShutdown, StartupArgument, PcrsInv, TypesFit, PcrsTypeOK, PowerTypeOK
  <1>2. /\ UNCHANGED <<pcrs, pcrCounter, pcrAuth, allocated, nvAllocated, pcrReConfig,
                       startupLocality3, policySession, gcPcrSave, measurements, measured,
                       promisedAuth, startedHow, drtmPreStartup, launches>>
        /\ drtmSequence' = FALSE /\ intact' = FALSE
    BY DEF PcrShutdown, EndsSequence
  <1>3. /\ pcrs \in [Pcr -> PcrValue] /\ gcPcrSave \in [SavedPcrs \ allocated -> PcrValue]
        /\ pcrCounter \in 0 .. MaxPcrCounter /\ startedHow \in How
        /\ IsPolicySession(policySession)
    BY DEF PcrsInv, TypesFit, PcrsTypeOK
  <1>4. ASSUME shutdownType = "STATE"
        PROVE  /\ pcrSave'.pcrs = [p \in SavedPcrs |-> IF p \in allocated THEN pcrs[p]
                                                       ELSE gcPcrSave[p]]
               /\ pcrSave'.counter = pcrCounter
               /\ pcrSave'.auth = pcrAuth
               /\ pcrSave'.how = StartupFlags
               /\ pcrSave'.session = IF policySession.place = "saved" THEN policySession
                                     ELSE NoPolicySession
    BY <1>4 DEF PcrShutdown
  <1>5. IsPolicySession(NoPolicySession)
    BY SpecialPcrs DEF IsPolicySession, NoPolicySession
  <1>6. TypesFit'
    <2>1. {pcrAuth, pcrReConfig, drtmSequence, drtmPreStartup, startupLocality3,
           promisedAuth, intact}' \subseteq BOOLEAN
      BY <1>2, Zenon DEF PcrsInv, TypesFit, PcrsTypeOK
    <2>2. PcrsTypeOK'
      BY <1>1, <1>2, <2>1 DEF PcrsInv, TypesFit, PcrsTypeOK
    <2>3. pcrAuth \in BOOLEAN
      BY Zenon DEF PcrsInv, TypesFit, PcrsTypeOK
    <2>4. StartupFlags \in How
      BY DEF StartupFlags, How
    <2>5. SavedTypeOK'
      <3>1. [p \in SavedPcrs |-> IF p \in allocated THEN pcrs[p] ELSE gcPcrSave[p]]
              \in [SavedPcrs -> PcrValue]
        BY <1>3 DEF SavedPcrs
      <3>2. IsPolicySession(IF policySession.place = "saved" THEN policySession
                            ELSE NoPolicySession)
        BY <1>3, <1>5
      <3> QED
        BY <1>1, <1>3, <1>4, <2>3, <2>4, <3>1, <3>2 DEF SavedTypeOK, IsPolicySession
    <2> QED
      BY <1>2, <2>2, <2>5 DEF PcrsInv, TypesFit, IsPolicySession
  <1>7. ChecksFit'
    <2>1. CountedValues' = CountedValues
      BY <1>2 DEF CountedValues
    <2>2. NoPolicySession.counter = 0
      BY DEF NoPolicySession
    <2> QED
      BY <1>1, <1>2, <1>3, <1>4, <2>1, <2>2 DEF PcrsInv, ChecksFit
  <1>8. MeasurementsFit'
    <2>1. \A p \in SavedPcrs : p \in Pcr
      BY DEF SavedPcrs
    <2>2. ASSUME shutdownType = "STATE"
          PROVE  /\ \A p \in SavedPcrs : pcrSave'.pcrs[p].log = measured[p]
                 /\ pcrSave'.auth = promisedAuth
      BY <1>1, <1>3, <1>4, <2>1, <2>2 DEF PcrsInv, MeasurementsFit, MeasurementsAreKept
    <2> QED
      BY <1>1, <1>2, <2>2 DEF PcrsInv, MeasurementsFit, MeasurementsAreKept
  <1>9. StartsFit'
    <2>1. StartupFlags' = StartupFlags /\ HCRTM_PCR \in allocated
      BY <1>2, Zenon DEF StartupFlags, PcrsInv, TypesFit
    <2>2. shutdownType = "STATE" => pcrSave'.pcrs[HCRTM_PCR].start = pcrSave'.how
      BY <1>1, <1>4, <2>1, SpecialPcrs DEF PcrsInv, StartsFit
    <2> QED
      BY <1>1, <1>2, <2>1, <2>2 DEF PcrsInv, StartsFit
  <1>10. LaunchIsFirst'
    BY <1>1, <1>2 DEF PcrsInv, LaunchIsFirst
  <1> QED
    BY <1>6, <1>7, <1>8, <1>9, <1>10 DEF PcrsInv

\* A value that comes with a startup: its PCR's own, the saved one or a fresh one.
LEMMA ValueAtStartupType ==
    ASSUME PcrsInv, NEW startupType \in StartupArgument, NEW locality \in {0, 3}, NEW p \in Pcr,
           startupType = "STATE" => orderlyState = "STATE"
    PROVE  ValueAtStartup(p, StartupType(startupType), locality) \in PcrValue
  <1>1. pcrs[p] \in PcrValue
    BY DEF PcrsInv, TypesFit, PcrsTypeOK
  <1>2. p \in Restored(StartupType(startupType)) => pcrSave.pcrs[p] \in PcrValue
    BY DEF PcrsInv, TypesFit, SavedTypeOK, Restored, StartupType
  <1>3. Fresh("ones") \in PcrValue /\ Fresh("zeros") \in PcrValue /\ Fresh("locality3") \in PcrValue
    BY DEF Fresh, PcrValue, StartValue
  <1> QED
    BY <1>1, <1>2, <1>3, Zenon DEF ValueAtStartup

LEMMA PcrStartupKeeps ==
    ASSUME PcrsInv, NEW startupType \in StartupArgument, NEW locality \in 0 .. 4,
           PcrStartup(startupType, locality)
    PROVE  PcrsInv'
  <1> DEFINE type == StartupType(startupType)
  <1>1. /\ locality \in {0, 3} /\ ~ started /\ started' /\ orderlyState' = "NONE" /\ PowerTypeOK'
        /\ startupType = "STATE" => orderlyState = "STATE" /\ StartsAsBefore(locality)
    BY DEF PcrStartup, PowerStartup, PcrsInv, TypesFit, PcrsTypeOK, PowerTypeOK
  <1>2. /\ type \in {"RESUME", "RESTART", "RESET"}
        /\ type = "RESUME" => startupType = "STATE" /\ orderlyState = "STATE"
        /\ type # "RESET" => orderlyState = "STATE"
    BY <1>1 DEF StartupType, StartupArgument
  <1>3. /\ pcrs' = [p \in Pcr |-> ValueAtStartup(p, type, locality)]
        /\ pcrCounter' = CounterAtStartup(type) /\ CounterAtStartup(type) <= MaxPcrCounter
        /\ pcrAuth' = (type = "RESUME" /\ pcrSave.auth)
        /\ gcPcrSave' = IF type = "RESUME" THEN [p \in SavedPcrs \ allocated |-> pcrSave.pcrs[p]]
                        ELSE gcPcrSave
        /\ pcrSave' = NothingSavedOfPcrs /\ pcrReConfig' = FALSE
        /\ startupLocality3' = AtLocality3(locality)
        /\ policySession' = IF type = "RESET" THEN NoPolicySession ELSE pcrSave.session
        /\ promisedAuth' = (type = "RESUME" /\ promisedAuth)
        /\ measured' = IF type = "RESUME" THEN measured
                       ELSE [p \in SavedPcrs |-> IF p = HCRTM_PCR THEN pcrs'[p].log ELSE <<>>]
        /\ startedHow' = IF launches # {} THEN "hcrtm"
                         ELSE IF locality = 3 THEN "locality3" ELSE "zeros"
        /\ drtmSequence' = FALSE /\ intact' = FALSE
        /\ UNCHANGED <<allocated, nvAllocated, measurements, drtmPreStartup, launches>>
    BY DEF PcrStartup, EndsSequence
  <1>4. pcrs' \in [Pcr -> PcrValue]
    BY <1>1, <1>3, ValueAtStartupType
  <1>5. \A p \in SavedPcrs : p \in Pcr
    BY DEF SavedPcrs
  <1>6. HCRTM_PCR \in allocated /\ DRTM_PCR \in allocated
    BY Zenon DEF PcrsInv, TypesFit
  <1>7. TypesFit'
    <2>1. promisedAuth \in BOOLEAN /\ drtmPreStartup \in BOOLEAN
      BY Zenon DEF PcrsInv, TypesFit, PcrsTypeOK
    <2>2. /\ pcrAuth' \in BOOLEAN /\ promisedAuth' \in BOOLEAN /\ startupLocality3' \in BOOLEAN
          /\ drtmPreStartup' \in BOOLEAN
      BY <1>3, <2>1, Zenon DEF AtLocality3
    <2>3. {pcrAuth, pcrReConfig, drtmSequence, drtmPreStartup, startupLocality3,
           promisedAuth, intact}' \subseteq BOOLEAN
      BY <1>3, <2>2, Zenon
    <2>4. measured' \in [SavedPcrs -> Seq(1 .. MaxMeasured)]
      <3>1. pcrs'[HCRTM_PCR].log \in Seq(1 .. MaxMeasured)
        BY <1>4, SpecialPcrs DEF PcrValue
      <3>2. measured \in [SavedPcrs -> Seq(1 .. MaxMeasured)]
        BY DEF PcrsInv, TypesFit
      <3>3. <<>> \in Seq(1 .. MaxMeasured)
        OBVIOUS
      <3> QED
        BY <1>3, <3>1, <3>2, <3>3
    <2>5. gcPcrSave' \in [SavedPcrs \ allocated' -> PcrValue]
      BY <1>2, <1>3, <1>5 DEF PcrsInv, TypesFit, PcrsTypeOK, SavedTypeOK
    <2>6. IsPolicySession(policySession')
      <3>1. IsPolicySession(NoPolicySession)
        BY SpecialPcrs DEF IsPolicySession, NoPolicySession
      <3>2. type # "RESET" => IsPolicySession(pcrSave.session)
        BY <1>2 DEF PcrsInv, TypesFit, SavedTypeOK
      <3> QED
        BY <1>3, <3>1, <3>2
    <2>7. pcrCounter' \in 0 .. MaxPcrCounter
      <3>1. type # "RESET" => pcrSave.counter \in 0 .. MaxPcrCounter
        BY <1>2 DEF PcrsInv, TypesFit, SavedTypeOK
      <3>2. Changes(Pcr \ Restored(type)) \in Nat
        BY ManyChanges
      <3> QED
        BY <1>3, <3>1, <3>2, SpecialPcrs DEF CounterAtStartup
    <2>8. startedHow' \in How
      BY <1>3 DEF How
    <2>9. PcrsTypeOK'
      BY <1>1, <1>3, <1>4, <2>3, <2>5, <2>6, <2>7, <2>8
      DEF PcrsInv, TypesFit, PcrsTypeOK, IsPolicySession
    <2> QED
      BY <1>1, <1>3, <2>4, <2>6, <2>9 DEF PcrsInv, TypesFit, SavedTypeOK, IsPolicySession
  <1>8. ChecksFit'
    <2>1. CASE type = "RESET"
      <3>1. policySession' = NoPolicySession /\ NoPolicySession.counter = 0
        BY <1>3, <2>1 DEF NoPolicySession
      <3> QED
        BY <1>1, <1>7, <3>1 DEF ChecksFit, TypesFit, PcrsTypeOK
    <2>2. CASE type # "RESET"
      <3>1. policySession' = pcrSave.session /\ pcrSave.session.counter <= pcrSave.counter
        BY <1>2, <1>3, <2>2 DEF PcrsInv, ChecksFit
      <3>2. /\ pcrSave.session.counter \in Nat /\ pcrSave.counter \in Nat
        BY <1>2, <2>2, SpecialPcrs DEF PcrsInv, TypesFit, SavedTypeOK, IsPolicySession
      <3>3. Changes(Pcr \ Restored(type)) > 0 /\ Changes(Pcr \ Restored(type)) \in Nat
        BY ManyChanges, SpecialPcrs DEF Restored
      <3>4. pcrCounter' = pcrSave.counter + Changes(Pcr \ Restored(type))
        BY <1>3, <2>2 DEF CounterAtStartup
      <3> QED
        BY <1>1, <3>1, <3>2, <3>3, <3>4 DEF ChecksFit
    <2> QED
      BY <2>1, <2>2
  <1>9. MeasurementsFit'
    <2>1. CASE type = "RESUME"
      <3>1. \A p \in SavedPcrs : pcrSave.pcrs[p].log = measured[p]
        BY <1>2, <2>1 DEF PcrsInv, MeasurementsFit
      <3>2. \A p \in allocated \cap SavedPcrs : pcrs'[p] = pcrSave.pcrs[p]
        BY <1>3, <1>5, <2>1, SavedIsNotReset DEF ValueAtStartup, Restored
      <3>3. \A p \in SavedPcrs \ allocated : gcPcrSave'[p] = pcrSave.pcrs[p]
        BY <1>3, <2>1
      <3>4. pcrAuth' = promisedAuth'
        BY <1>2, <1>3, <2>1 DEF PcrsInv, MeasurementsFit
      <3> QED
        BY <1>1, <1>3, <2>1, <3>1, <3>2, <3>3, <3>4 DEF MeasurementsFit, MeasurementsAreKept
    <2>2. CASE type # "RESUME"
      <3>1. measured' = [p \in SavedPcrs |-> IF p = HCRTM_PCR THEN pcrs'[p].log ELSE <<>>]
        BY <1>3, <2>2
      <3>2. \A p \in SavedPcrs \ allocated : gcPcrSave'[p].log = <<>>
        BY <1>1, <1>3, <2>2 DEF PcrsInv, MeasurementsFit
      <3>3. ASSUME NEW p \in allocated \cap SavedPcrs, p # HCRTM_PCR
            PROVE  pcrs'[p].log = <<>>
        BY <1>3, <1>5, <2>2, <3>3 DEF ValueAtStartup, Restored, Fresh
      <3>4. pcrAuth' = promisedAuth'
        BY <1>3, <2>2
      <3>5. \A p \in allocated' \cap SavedPcrs : pcrs'[p].log = measured'[p]
        BY <1>3, <3>1, <3>3
      <3>6. \A p \in SavedPcrs \ allocated' : gcPcrSave'[p].log = measured'[p]
        BY <1>3, <1>6, <3>1, <3>2
      <3> QED
        BY <1>1, <3>4, <3>5, <3>6 DEF MeasurementsFit, MeasurementsAreKept
    <2> QED
      BY <2>1, <2>2
  <1>10. StartsFit'
    <2>1. StartupFlags' = startedHow'
      BY <1>1, <1>3 DEF PcrsInv, StartsFit, StartupFlags, AtLocality3
    <2>2. pcrs'[HCRTM_PCR] = ValueAtStartup(HCRTM_PCR, type, locality)
      BY <1>3, SpecialPcrs
    <2>3. CASE type = "RESUME"
      <3>1. pcrs'[HCRTM_PCR].start = pcrSave.how
        BY <1>2, <1>6, <2>2, <2>3, SpecialPcrs, SavedIsNotReset
        DEF ValueAtStartup, Restored, PcrsInv, StartsFit
      <3>2. pcrSave.how \in How
        BY <1>2, <2>3 DEF PcrsInv, TypesFit, SavedTypeOK
      <3>3. drtmPreStartup <=> launches # {}
        BY <1>1 DEF PcrsInv, StartsFit
      <3>4. pcrSave.how = startedHow'
        BY <1>1, <1>2, <1>3, <2>3, <3>2, <3>3 DEF StartsAsBefore, AtLocality3, How
      <3> QED
        BY <1>1, <1>3, <2>1, <3>1, <3>4 DEF StartsFit
    <2>4. CASE type # "RESUME"
      <3>1. drtmPreStartup <=> launches # {}
        BY <1>1 DEF PcrsInv, StartsFit
      <3>2. CASE drtmPreStartup
        <4>1. pcrs'[HCRTM_PCR] = pcrs[HCRTM_PCR]
          BY <1>6, <2>2, <2>4, <3>2, SpecialPcrs, SavedIsNotReset DEF ValueAtStartup, Restored
        <4> QED
          BY <1>1, <1>3, <2>1, <3>1, <3>2, <4>1, Zenon DEF PcrsInv, StartsFit
      <3>3. CASE ~ drtmPreStartup
        <4>1. 4 \notin ResetLocality(HCRTM_PCR)
          BY DEF HCRTM_PCR, ResetLocality
        <4>2. pcrs'[HCRTM_PCR] = Fresh(IF locality = 3 THEN "locality3" ELSE "zeros")
          BY <1>6, <2>2, <2>4, <3>3, <4>1 DEF ValueAtStartup, Restored, AtLocality3
        <4>3. pcrs'[HCRTM_PCR].start = startedHow'
          BY <1>3, <3>1, <3>3, <4>2 DEF Fresh
        <4> QED
          BY <1>1, <1>3, <2>1, <4>3, Zenon DEF StartsFit
      <3> QED
        BY <3>2, <3>3
    <2> QED
      BY <2>3, <2>4
  <1>11. LaunchIsFirst'
    <2>1. DRTM_PCR \notin Restored(type) /\ DRTM_PCR # HCRTM_PCR
      BY SpecialPcrs DEF Restored
    <2>2. 4 \in ResetLocality(DRTM_PCR)
      BY DEF DRTM_PCR, ResetLocality
    <2>3. pcrs'[DRTM_PCR] = Fresh("ones")
      BY <1>3, <1>6, <2>1, <2>2, SpecialPcrs DEF ValueAtStartup
    <2> QED
      BY <2>3 DEF LaunchIsFirst, Fresh
  <1> QED
    BY <1>7, <1>8, <1>9, <1>10, <1>11 DEF PcrsInv

LEMMA PcrPowerLostKeeps ==
    ASSUME PcrsInv, PcrPowerLost
    PROVE  PcrsInv'
  <1>1. PowerTypeOK' /\ started /\ ~ started' /\ orderlyState' = orderlyState
    BY DEF PcrPowerLost, PowerLoss, PcrsInv, TypesFit, PcrsTypeOK, PowerTypeOK
  <1>2. /\ pcrs' = Unstarted /\ pcrCounter' = 0 /\ pcrAuth' = FALSE
        /\ gcPcrSave' = [p \in SavedPcrs \ nvAllocated |-> Fresh("zeros")]
        /\ allocated' = nvAllocated /\ pcrReConfig' = FALSE
        /\ drtmSequence' = FALSE /\ drtmPreStartup' = FALSE /\ startupLocality3' = FALSE
        /\ policySession' = NoPolicySession /\ intact' = FALSE
        /\ launches' = {} /\ startedHow' = "zeros"
        /\ UNCHANGED <<pcrSave, nvAllocated, measurements>>
    BY DEF PcrPowerLost
  <1>3. /\ orderlyState = "STATE" => UNCHANGED <<measured, promisedAuth>>
        /\ orderlyState # "STATE" => measured' = [p \in SavedPcrs |-> <<>>] /\ promisedAuth' = FALSE
    BY DEF PcrPowerLost
  <1>4. Fresh("zeros") \in PcrValue /\ Fresh("ones") \in PcrValue
    BY DEF Fresh, PcrValue, StartValue
  <1>5. TypesFit'
    <2>1. promisedAuth' \in BOOLEAN
      BY <1>3, Zenon DEF PcrsInv, TypesFit, PcrsTypeOK
    <2>2. {pcrAuth, pcrReConfig, drtmSequence, drtmPreStartup, startupLocality3,
           promisedAuth, intact}' \subseteq BOOLEAN
      BY <1>2, <2>1, Zenon
    <2>3. pcrs' \in [Pcr -> PcrValue]
      BY <1>2, <1>4 DEF Unstarted
    <2>4. gcPcrSave' \in [SavedPcrs \ allocated' -> PcrValue]
      BY <1>2, <1>4
    <2>5. measured' \in [SavedPcrs -> Seq(1 .. MaxMeasured)]
      <3>1. measured \in [SavedPcrs -> Seq(1 .. MaxMeasured)]
        BY DEF PcrsInv, TypesFit
      <3>2. <<>> \in Seq(1 .. MaxMeasured)
        OBVIOUS
      <3> QED
        BY <1>3, <3>1, <3>2
    <2>6. IsPolicySession(policySession')
      BY <1>2, SpecialPcrs DEF IsPolicySession, NoPolicySession
    <2>7. PcrsTypeOK'
      BY <1>1, <1>2, <2>2, <2>3, <2>4, <2>6, SpecialPcrs
      DEF PcrsInv, TypesFit, PcrsTypeOK, IsPolicySession, How
    <2>8. SavedTypeOK'
      BY <1>1, <1>2 DEF PcrsInv, TypesFit, SavedTypeOK, IsPolicySession
    <2> QED
      BY <1>2, <2>5, <2>6, <2>7, <2>8 DEF PcrsInv, TypesFit, IsPolicySession
  <1>6. ChecksFit'
    BY <1>1, <1>2 DEF PcrsInv, ChecksFit, NoPolicySession
  <1>7. MeasurementsFit'
    <2>1. \A p \in SavedPcrs \ allocated' : gcPcrSave'[p].log = <<>>
      BY <1>2 DEF Fresh
    <2> QED
      BY <1>1, <1>2, <1>3, <2>1 DEF PcrsInv, MeasurementsFit, MeasurementsAreKept
  <1>8. StartsFit' /\ LaunchIsFirst'
    BY <1>1, <1>2 DEF PcrsInv, StartsFit, LaunchIsFirst
  <1> QED
    BY <1>5, <1>6, <1>7, <1>8 DEF PcrsInv

\* The number of a measurement that is taken alone.
LEMMA FirstMeasurement ==
    ASSUME NEW m \in 1 .. MaxMeasured
    PROVE  <<m>> \in Seq(1 .. MaxMeasured) /\ <<m>> # <<>> /\ Head(<<m>>) = m
  OBVIOUS

LEMMA HashEndKeeps ==
    ASSUME PcrsInv, HashEnd
    PROVE  PcrsInv'
  <1>1. NoteFits
    BY NoteStep DEF HashEnd, KeepsNote
  <1>2. /\ drtmSequence' = FALSE /\ intact' = FALSE
        /\ measurements' = measurements + 1
        /\ UNCHANGED <<pcrAuth, pcrSave, allocated, nvAllocated, pcrReConfig, startupLocality3,
                       policySession, gcPcrSave, measured, promisedAuth, startedHow>>
    BY DEF HashEnd
  <1>3. launches' = launches \cup {measurements'}
    BY DEF HashEnd, PcrsInv, StartsFit
  <1>4. measurements' \in 1 .. MaxMeasured /\ measurements <= measurements'
    BY <1>2, SpecialPcrs DEF HashEnd, PcrsInv, TypesFit, PcrsTypeOK
  <1>5. /\ pcrs \in [Pcr -> PcrValue] /\ pcrCounter \in 0 .. MaxPcrCounter
        /\ {HCRTM_PCR, DRTM_PCR} \subseteq allocated /\ allocated \subseteq Pcr
        /\ IsPolicySession(policySession)
    BY DEF PcrsInv, TypesFit, PcrsTypeOK
  <1>6. pcrCounter' = pcrCounter + 1 /\ pcrCounter' \in 0 .. MaxPcrCounter
    <2>1. pcrCounter' = pcrCounter + 1
      BY OneChange, SpecialPcrs DEF HashEnd, DrtmEnd, HcrtmEnd, PCRBelongsTCBGroup
    <2> QED
      BY <1>5, <2>1, SpecialPcrs DEF HashEnd
  <1>7. launches' \subseteq 1 .. measurements'
    <2>1. launches \subseteq 1 .. measurements /\ measurements \in Nat
      BY SpecialPcrs DEF PcrsInv, TypesFit, PcrsTypeOK
    <2>2. measurements' \in Nat /\ measurements' >= 1
      BY <1>2, <2>1
    <2> QED
      BY ONLY <1>2, <1>3, <2>1, <2>2
  <1>8. ASSUME pcrs' \in [Pcr -> PcrValue], drtmPreStartup' \in BOOLEAN
        PROVE  TypesFit'
    <2>1. {pcrAuth, pcrReConfig, drtmSequence, drtmPreStartup, startupLocality3,
           promisedAuth, intact}' \subseteq BOOLEAN
      BY <1>2, <1>8, Zenon DEF PcrsInv, TypesFit, PcrsTypeOK
    <2>2. PcrsTypeOK'
      BY <1>1, <1>2, <1>4, <1>6, <1>7, <1>8, <2>1 DEF NoteFits, PcrsInv, TypesFit, PcrsTypeOK
    <2>3. SavedTypeOK'
      BY <1>1, <1>2 DEF NoteFits, PcrsInv, TypesFit, SavedTypeOK, IsPolicySession
    <2> QED
      BY <1>2, <2>2, <2>3 DEF PcrsInv, TypesFit, IsPolicySession
  <1>9. ChecksFit'
    BY <1>1, <1>2, <1>5, <1>6 DEF NoteFits, PcrsInv, ChecksFit, IsPolicySession
  <1>10. CASE DrtmEnd
    <2>1. /\ started /\ drtmPreStartup' = drtmPreStartup
          /\ pcrs' = [p \in Pcr |->
                       CASE p \notin allocated \/ 4 \notin ResetLocality(p) -> pcrs[p]
                         [] p = DRTM_PCR -> [start |-> "zeros", log |-> <<measurements'>>]
                         [] OTHER        -> Fresh("zeros")]
      BY <1>10 DEF DrtmEnd
    <2>2. pcrs' \in [Pcr -> PcrValue]
      <3>1. Fresh("zeros") \in PcrValue
        BY DEF Fresh, PcrValue, StartValue
      <3>2. [start |-> "zeros", log |-> <<measurements'>>] \in PcrValue
        BY <1>4, FirstMeasurement DEF PcrValue, StartValue
      <3> QED
        BY <1>5, <2>1, <3>1, <3>2
    <2>3. \A p \in SavedPcrs : pcrs'[p] = pcrs[p]
      <3> TAKE p \in SavedPcrs
      <3>1. p \in Pcr /\ 4 \notin ResetLocality(p) /\ p # DRTM_PCR
        BY SavedIsNotReset, SpecialPcrs DEF SavedPcrs
      <3> QED
        BY <2>1, <3>1
    <2>4. pcrs'[DRTM_PCR] = [start |-> "zeros", log |-> <<measurements'>>]
      <3>1. 4 \in ResetLocality(DRTM_PCR)
        BY DEF DRTM_PCR, ResetLocality
      <3> QED
        BY <1>5, <2>1, <3>1, SpecialPcrs
    <2>5. drtmPreStartup' \in BOOLEAN
      BY <2>1, Zenon DEF PcrsInv, TypesFit, PcrsTypeOK
    <2>6. TypesFit'
      BY <1>8, <2>2, <2>5
    <2>7. MeasurementsFit'
      BY <1>1, <1>2, <2>1, <2>3 DEF NoteFits, PcrsInv, MeasurementsFit, MeasurementsAreKept
    <2>8. StartsFit'
      BY <1>1, <1>2, <2>1, <2>3, SpecialPcrs DEF NoteFits, PcrsInv, StartsFit, StartupFlags
    <2>9. LaunchIsFirst'
      BY <1>3, <1>4, <2>4, FirstMeasurement DEF LaunchIsFirst
    <2> QED
      BY <1>9, <2>6, <2>7, <2>8, <2>9 DEF PcrsInv
  <1>11. CASE HcrtmEnd
    <2>1. /\ ~ started /\ drtmPreStartup' = TRUE
          /\ pcrs' = [pcrs EXCEPT ![HCRTM_PCR] = [start |-> "hcrtm", log |-> <<measurements'>>]]
      BY <1>11 DEF HcrtmEnd
    <2>2. [start |-> "hcrtm", log |-> <<measurements'>>] \in PcrValue
      BY <1>4, FirstMeasurement DEF PcrValue, StartValue
    <2>3. pcrs' \in [Pcr -> PcrValue] /\ pcrs'[HCRTM_PCR].start = "hcrtm"
      BY <1>5, <2>1, <2>2, SpecialPcrs
    <2>4. TypesFit'
      BY <1>8, <2>1, <2>3
    <2>5. MeasurementsFit'
      BY <1>1, <1>2, <2>1 DEF NoteFits, PcrsInv, MeasurementsFit, MeasurementsAreKept
    <2>6. StartsFit' /\ LaunchIsFirst'
      BY <1>1, <1>2, <1>3, <2>1, <2>3 DEF NoteFits, PcrsInv, StartsFit, LaunchIsFirst
    <2> QED
      BY <1>9, <2>4, <2>5, <2>6 DEF PcrsInv
  <1> QED
    BY <1>10, <1>11 DEF HashEnd

-----------------------------------------------------------------------------
(* The theorems.                                                           *)

LEMMA PcrsStarts == PcrsInit => PcrsInv
  <1> SUFFICES ASSUME PcrsInit
               PROVE  PcrsInv
    OBVIOUS
  <1>1. TypesFit
    <2>1. Fresh("zeros") \in PcrValue /\ Fresh("ones") \in PcrValue
      BY DEF Fresh, PcrValue, StartValue
    <2>2. pcrs \in [Pcr -> PcrValue]
      BY <2>1 DEF PcrsInit, Unstarted
    <2>3. gcPcrSave \in [SavedPcrs \ allocated -> PcrValue]
      <3>1. SavedPcrs \ allocated = {}
        BY DEF PcrsInit, SavedPcrs
      <3>2. gcPcrSave = [p \in {} |-> Fresh("zeros")]
        BY DEF PcrsInit
      <3> QED
        BY <3>1, <3>2
    <2>4. {pcrAuth, pcrReConfig, drtmSequence, drtmPreStartup, startupLocality3,
           promisedAuth, intact} \subseteq BOOLEAN
      BY Zenon DEF PcrsInit
    <2>5. IsPolicySession(policySession)
      BY SpecialPcrs DEF PcrsInit, IsPolicySession, NoPolicySession
    <2>6. PcrsTypeOK
      BY <2>2, <2>3, <2>4, <2>5, SpecialPcrs
      DEF PcrsInit, PowerInit, PcrsTypeOK, PowerTypeOK, StartupArgument, How, IsPolicySession
    <2>7. measured \in [SavedPcrs -> Seq(1 .. MaxMeasured)]
      BY DEF PcrsInit
    <2> QED
      BY <2>5, <2>6, <2>7, SpecialPcrs DEF PcrsInit, PowerInit, TypesFit, SavedTypeOK
  <1>2. ChecksFit
    BY DEF PcrsInit, PowerInit, ChecksFit, NoPolicySession
  <1>3. MeasurementsFit
    BY DEF PcrsInit, PowerInit, MeasurementsFit, MeasurementsAreKept, SavedPcrs
  <1>4. StartsFit /\ LaunchIsFirst
    BY DEF PcrsInit, PowerInit, StartsFit, LaunchIsFirst
  <1> QED
    BY <1>1, <1>2, <1>3, <1>4 DEF PcrsInv

LEMMA PcrsStep == PcrsInv /\ [PcrsNext]_pcrVars => PcrsInv'
  <1> SUFFICES ASSUME PcrsInv, [PcrsNext]_pcrVars
               PROVE  PcrsInv'
    OBVIOUS
  <1>1. CASE \E p \in Pcr, locality \in 0 .. 4 : PcrExtend(p, locality) \/ PcrReset(p, locality)
    BY <1>1, PcrExtendKeeps, PcrResetKeeps
  <1>2. CASE PcrSetAuthValue
    BY <1>2, PcrSetAuthValueKeeps
  <1>3. CASE \E S \in SUBSET Pcr : PcrAllocate(S)
    BY <1>3, PcrAllocateKeeps
  <1>4. CASE PcrClear
    BY <1>4, PcrClearKeeps
  <1>5. CASE PcrOtherCommand
    BY <1>5, PcrOtherCommandKeeps
  <1>6. CASE PcrStartSession \/ PcrPolicy \/ PcrContextSave \/ PcrContextLoad \/ PcrFlushSession
    BY <1>6, SessionCommandsKeep
  <1>7. CASE \E type \in StartupArgument : PcrShutdown(type)
    BY <1>7, PcrShutdownKeeps
  <1>8. CASE \E type \in StartupArgument, locality \in 0 .. 4 : PcrStartup(type, locality)
    BY <1>8, PcrStartupKeeps
  <1>9. CASE PcrPowerLost
    BY <1>9, PcrPowerLostKeeps
  <1>10. CASE PcrNvSignal
    BY <1>10, PcrNvSignalKeeps
  <1>11. CASE HashStart
    BY <1>11, HashStartKeeps
  <1>12. CASE HashEnd
    BY <1>12, HashEndKeeps
  <1>13. CASE UNCHANGED pcrVars
    BY <1>13, NoStepKeeps
  <1> QED
    BY <1>1, <1>2, <1>3, <1>4, <1>5, <1>6, <1>7, <1>8, <1>9, <1>10, <1>11, <1>12, <1>13
    DEF PcrsNext

\* The invariant of the PCRs holds of every history of extends, resets,
\* launches, shutdowns and startups.
THEOREM PcrsInvariant == PcrsSpec => []PcrsInv
  <1> QED
    BY PcrsStarts, PcrsStep, PTL DEF PcrsSpec

\* A session whose check counts as current saw what the PCRs hold: no change of a
\* PCR and no startup gives a count again that a session may have kept.
THEOREM CurrentChecks == PcrsSpec => []CurrentCheckHolds
  <1>1. PcrsInv => CurrentCheckHolds
    BY DEF PcrsInv, ChecksFit, CurrentCheckHolds
  <1> QED
    BY <1>1, PcrsInvariant, PTL

\* TPM2_Shutdown(STATE) and the Resume after it lose no measurement and no authValue.
THEOREM MeasurementsKept == PcrsSpec => []MeasurementsAreKept
  <1>1. PcrsInv => MeasurementsAreKept
    BY DEF PcrsInv, MeasurementsFit
  <1> QED
    BY <1>1, PcrsInvariant, PTL

\* PCR 0 tells how the TPM was started and PCR 17 that a launch came first.
THEOREM StartValuesTrue == PcrsSpec => []StartValuesTell
  <1>1. PcrsInv => StartValuesTell
    BY DEF PcrsInv, StartsFit, LaunchIsFirst, StartValuesTell
  <1> QED
    BY <1>1, PcrsInvariant, PTL

-----------------------------------------------------------------------------
(* Objects: the inductive invariant.                                       *)

\* An object in a slot is no persistent one, was made since its hierarchy was
\* last cleared and, while the TPM is up, in this period.
SlotFits(o) ==
    /\ ~ o.evict
    /\ o.born.cleared = cleared[o.hierarchy]
    /\ started =>
          /\ enable[o.hierarchy]
          /\ o.born.reset = resetCount
          /\ o.stClear /\ o.hierarchy \in {"OWNER", "ENDORSEMENT"} => o.born.period = period

\* A persistent object is marked as one, so that a copy of it leaves its slot,
\* and its handle tells which hierarchies have to be enabled.
PersistentFits(p, o) ==
    /\ o.evict
    /\ o.hierarchy # "NULL"
    /\ o.hierarchy = "PLATFORM" <=> p \in PlatformHandles
    /\ o.born.cleared = cleared[o.hierarchy]

\* A context tells when its object was made: which proof its hierarchy had, and
\* which Reset it was.  The count of restarts tells the period only as long as
\* the proof is the same, since TPM2_Clear sets that count back.
ContextFits(c) ==
    /\ ~ c.object.evict
    /\ c.reset <= resetCount
    /\ c.object.born.reset = c.reset
    /\ IF c.object.hierarchy = "NULL" THEN c.object.born.cleared = 0
       ELSE c.object.born.cleared = c.proof /\ c.proof <= proofs[c.object.hierarchy]
    /\ /\ c.object.stClear /\ c.object.hierarchy \in {"OWNER", "ENDORSEMENT"}
       /\ c.reset = resetCount
       /\ c.proof = proofs[c.object.hierarchy]
       => c.object.born.period - c.clear = period - clearCount

ProofsCountClears ==
    \A h \in Hierarchy : IF h = "NULL" THEN cleared[h] = 0 ELSE proofs[h] = cleared[h]

\* What TPM2_Shutdown saved is true as long as it can be read.
SavedIsCurrent == orderlyState = "STATE" => savedClearCount = clearCount

ObjectsInv ==
    /\ ObjectsTypeOK
    /\ \A i \in ObjectSlot : slots[i] # Empty => SlotFits(slots[i])
    /\ \A p \in PersistentHandle : persistent[p] # Empty => PersistentFits(p, persistent[p])
    /\ \A c \in contexts : ContextFits(c)
    /\ ProofsCountClears
    /\ SavedIsCurrent

-----------------------------------------------------------------------------
(* Objects and slots.                                                      *)

USE ObjectsAssumption

LEMMA EmptyIsNoObject == Empty \notin Object /\ Empty.hierarchy \notin Hierarchy
  BY DEF Empty, Object, Hierarchy

\* An object that is not there belongs to no hierarchy.
LEMMA ObjectOrEmpty ==
    ASSUME NEW o \in Object \cup {Empty}
    PROVE  o # Empty <=> o \in Object
  BY EmptyIsNoObject

\* A new object takes a slot, or none, and leaves the others alone.
LEMMA InFreeSlotFits ==
    ASSUME NEW S, NEW s \in [ObjectSlot -> S], NEW o \in S
    PROVE  /\ InFreeSlot(s, o) \in [ObjectSlot -> S]
           /\ \A i \in ObjectSlot : InFreeSlot(s, o)[i] \in {s[i], o}
  BY DEF InFreeSlot

LEMMA CleanupFits ==
    ASSUME NEW s \in [ObjectSlot -> Object \cup {Empty}]
    PROVE  /\ ObjectCleanupEvict(s) \in [ObjectSlot -> Object \cup {Empty}]
           /\ \A i \in ObjectSlot :
                 ObjectCleanupEvict(s)[i] # Empty =>
                     ObjectCleanupEvict(s)[i] = s[i] /\ ~ s[i].evict
  BY DEF ObjectCleanupEvict

LEMMA NewObjectFits ==
    ASSUME ObjectsInv, NEW h \in Hierarchy, NEW stClear \in BOOLEAN
    PROVE  /\ NewObject(h, stClear) \in Object
           /\ ~ NewObject(h, stClear).evict
           /\ started /\ enable[h] => SlotFits(NewObject(h, stClear))
  <1>1. cleared[h] \in Nat /\ resetCount \in Nat /\ period \in Nat
    BY DEF ObjectsInv, ObjectsTypeOK
  <1> QED
    BY <1>1 DEF NewObject, Object, SlotFits

LEMMA ChildFits ==
    ASSUME ObjectsInv, NEW parent \in Object, NEW stClear \in BOOLEAN
    PROVE  /\ Child(parent, stClear) \in Object
           /\ enable[parent.hierarchy] => SlotFits(Child(parent, stClear))
  <1>1. parent.hierarchy \in Hierarchy /\ parent.stClear \in BOOLEAN
    BY DEF Object
  <1>2. cleared[parent.hierarchy] \in Nat /\ resetCount \in Nat /\ period \in Nat
    BY <1>1 DEF ObjectsInv, ObjectsTypeOK
  <1>3. Child(parent, stClear) \in Object
    BY <1>1, <1>2 DEF Child, Object
  <1>4. /\ Child(parent, stClear).hierarchy = parent.hierarchy
        /\ Child(parent, stClear).evict = FALSE
        /\ Child(parent, stClear).born =
               [cleared |-> cleared[parent.hierarchy], reset |-> resetCount, period |-> period]
    BY DEF Child, Object
  <1> QED
    BY <1>3, <1>4 DEF SlotFits

\* What the marks of a persistent object say of its hierarchy.
LEMMA UsableEvictIsEnabled ==
    ASSUME ObjectsInv, NEW p \in PersistentHandle, EvictIsUsable(p)
    PROVE  persistent[p] \in Object /\ enable[persistent[p].hierarchy]
  <1>1. persistent[p] \in Object /\ PersistentFits(p, persistent[p])
    BY ObjectOrEmpty DEF ObjectsInv, ObjectsTypeOK, EvictIsUsable
  <1> QED
    BY <1>1 DEF EvictIsUsable, EvictRangeIsEnabled, PersistentFits, PersistentHandle, Object, Hierarchy

\* A command that looks at slots and persistent objects only.
LEMMA ObjectCommandStep ==
    ASSUME ObjectsInv,
           UNCHANGED <<powerVars, contexts, hierarchyVars, countVars, savedEnable, savedClearCount>>,
           slots' \in [ObjectSlot -> Object \cup {Empty}],
           \A i \in ObjectSlot :
               slots'[i] # Empty => slots'[i] = slots[i] \/ SlotFits(slots'[i]),
           persistent' \in [PersistentHandle -> Object \cup {Empty}],
           \A p \in PersistentHandle :
               persistent'[p] # Empty =>
                   persistent'[p] = persistent[p] \/ PersistentFits(p, persistent'[p])
    PROVE  ObjectsInv'
  <1>1. \A i \in ObjectSlot : slots'[i] # Empty => SlotFits(slots'[i])
    BY DEF ObjectsInv
  <1>2. \A i \in ObjectSlot : slots'[i] # Empty => SlotFits(slots[i])'
    BY <1>1 DEF SlotFits, powerVars, hierarchyVars, countVars
  <1>4. \A p \in PersistentHandle : persistent'[p] # Empty => PersistentFits(p, persistent[p])'
    BY DEF ObjectsInv, PersistentFits, hierarchyVars
  <1>5. \A c \in contexts' : ContextFits(c)'
    BY DEF ObjectsInv, ContextFits, hierarchyVars, countVars
  <1>6. ObjectsTypeOK'
    BY <1>1 DEF ObjectsInv, ObjectsTypeOK, PowerTypeOK, powerVars, hierarchyVars, countVars, SlotFits
  <1>7. ProofsCountClears' /\ SavedIsCurrent'
    BY DEF ObjectsInv, ProofsCountClears, SavedIsCurrent, powerVars, hierarchyVars, countVars
  <1> QED
    BY <1>2, <1>4, <1>5, <1>6, <1>7 DEF ObjectsInv

-----------------------------------------------------------------------------
(* The commands on objects. *)

\* An object that a command adds, under what the command looked at.
LEMMA AddObjectStep ==
    ASSUME ObjectsInv, NEW o \in Object, SlotFits(o),
           slots' = InFreeSlot(slots, o),
           UNCHANGED <<powerVars, persistent, contexts, hierarchyVars, countVars, savedEnable,
                       savedClearCount>>
    PROVE  ObjectsInv'
  <1>1. slots \in [ObjectSlot -> Object \cup {Empty}]
    BY DEF ObjectsInv, ObjectsTypeOK
  <1>2. /\ slots' \in [ObjectSlot -> Object \cup {Empty}]
        /\ \A i \in ObjectSlot : slots'[i] \in {slots[i], o}
    BY <1>1, InFreeSlotFits
  <1> QED
    BY <1>2, ObjectCommandStep DEF ObjectsInv, ObjectsTypeOK

LEMMA CreateObjectStep ==
    ASSUME ObjectsInv, NEW h \in UsedHierarchies, NEW stClear \in BOOLEAN, CreateObject(h, stClear)
    PROVE  ObjectsInv'
  <1>1. h \in Hierarchy
    OBVIOUS
  <1>2. NewObject(h, stClear) \in Object /\ SlotFits(NewObject(h, stClear))
    BY <1>1, NewObjectFits DEF CreateObject
  <1> QED
    BY <1>2, AddObjectStep DEF CreateObject

LEMMA LoadBelowStep ==
    ASSUME ObjectsInv, NEW i \in ObjectSlot, NEW stClear \in BOOLEAN, LoadBelow(i, stClear)
    PROVE  ObjectsInv'
  <1>1. slots[i] \in Object /\ enable[slots[i].hierarchy]
    BY ObjectOrEmpty DEF ObjectsInv, ObjectsTypeOK, LoadBelow, SlotFits
  <1>2. Child(slots[i], stClear) \in Object /\ SlotFits(Child(slots[i], stClear))
    BY <1>1, ChildFits
  <1> QED
    BY <1>2, AddObjectStep DEF LoadBelow

LEMMA LoadBelowPersistentStep ==
    ASSUME ObjectsInv, NEW p \in PersistentHandle, NEW stClear \in BOOLEAN,
           LoadBelowPersistent(p, stClear)
    PROVE  ObjectsInv'
  <1> DEFINE o == persistent[p]
             c == Child(o, stClear)
             withCopy == InFreeSlot(slots, NvGetEvictObject(p, Empty))
             withBoth == InFreeSlot(withCopy, c)
  <1>1. /\ o \in Object /\ o # Empty /\ o.evict
        /\ c \in Object /\ SlotFits(c)
    <2>1. o \in Object /\ enable[o.hierarchy]
      BY UsableEvictIsEnabled DEF LoadBelowPersistent
    <2>2. o # Empty /\ PersistentFits(p, o)
      BY <2>1, ObjectOrEmpty DEF ObjectsInv
    <2> QED
      BY <2>1, <2>2, ChildFits DEF PersistentFits
  <1>2. NvGetEvictObject(p, Empty) = o
    BY <1>1 DEF NvGetEvictObject
  <1>3. /\ slots \in [ObjectSlot -> Object \cup {Empty}]
        /\ persistent \in [PersistentHandle -> Object \cup {Empty}]
    BY DEF ObjectsInv, ObjectsTypeOK
  <1>4. slots' = ObjectCleanupEvict(withBoth)
    BY DEF LoadBelowPersistent
  <1> HIDE DEF c
  <1>5. /\ withCopy \in [ObjectSlot -> Object \cup {Empty}]
        /\ \A i \in ObjectSlot : withCopy[i] \in {slots[i], o}
    BY <1>1, <1>2, <1>3, InFreeSlotFits
  <1> HIDE DEF withCopy
  <1>6. /\ withBoth \in [ObjectSlot -> Object \cup {Empty}]
        /\ \A i \in ObjectSlot : withBoth[i] \in {withCopy[i], c}
    BY <1>1, <1>5, InFreeSlotFits
  <1> HIDE DEF withBoth
  <1>7. /\ slots' \in [ObjectSlot -> Object \cup {Empty}]
        /\ \A i \in ObjectSlot :
              slots'[i] # Empty => slots'[i] = withBoth[i] /\ ~ withBoth[i].evict
    BY <1>4, <1>6, CleanupFits
  <1>8. \A i \in ObjectSlot : slots'[i] # Empty => slots'[i] = slots[i] \/ SlotFits(slots'[i])
    BY <1>1, <1>5, <1>6, <1>7
  <1> QED
    BY <1>3, <1>7, <1>8, ObjectCommandStep DEF LoadBelowPersistent

\* The copy of a persistent object, or of what was in the slot, goes again.
LEMMA CopyGoes ==
    ASSUME ObjectsInv, NEW p \in PersistentHandle, NEW leftover \in Object \cup {Empty},
           persistent[p] = Empty => leftover \in Object
    PROVE  LET after == ObjectCleanupEvict(InFreeSlot(slots, NvGetEvictObject(p, leftover)))
           IN  /\ after \in [ObjectSlot -> Object \cup {Empty}]
               /\ \A i \in ObjectSlot : after[i] # Empty => after[i] = slots[i]
  <1> DEFINE o == NvGetEvictObject(p, leftover)
             with == InFreeSlot(slots, o)
  <1>1. slots \in [ObjectSlot -> Object \cup {Empty}]
    BY DEF ObjectsInv, ObjectsTypeOK
  <1>2. o \in Object /\ o.evict
    <2>1. CASE persistent[p] = Empty
      <3>1. leftover \in Object
        BY <2>1
      <3> QED
        BY <2>1, <3>1 DEF NvGetEvictObject, Object
    <2>2. CASE persistent[p] # Empty
      BY <2>2, ObjectOrEmpty DEF NvGetEvictObject, ObjectsInv, ObjectsTypeOK, PersistentFits
    <2> QED
      BY <2>1, <2>2
  <1> HIDE DEF o
  <1>3. with \in [ObjectSlot -> Object \cup {Empty}] /\ \A i \in ObjectSlot : with[i] \in {slots[i], o}
    BY <1>1, <1>2, InFreeSlotFits
  <1> HIDE DEF with
  <1> QED
    BY <1>2, <1>3, CleanupFits DEF o, with

LEMMA UsePersistentStep ==
    ASSUME ObjectsInv, NEW p \in PersistentHandle, NEW leftover \in Object, UsePersistent(p, leftover)
    PROVE  ObjectsInv'
  <1>1. /\ slots' \in [ObjectSlot -> Object \cup {Empty}]
        /\ \A i \in ObjectSlot : slots'[i] # Empty => slots'[i] = slots[i]
    BY CopyGoes DEF UsePersistent
  <1> QED
    BY <1>1, ObjectCommandStep DEF UsePersistent, ObjectsInv, ObjectsTypeOK

LEMMA FlushObjectStep ==
    ASSUME ObjectsInv, NEW i \in ObjectSlot, FlushObject(i)
    PROVE  ObjectsInv'
  <1>1. /\ slots' \in [ObjectSlot -> Object \cup {Empty}]
        /\ \A j \in ObjectSlot : slots'[j] # Empty => slots'[j] = slots[j]
    BY DEF FlushObject, ObjectsInv, ObjectsTypeOK
  <1> QED
    BY <1>1, ObjectCommandStep DEF FlushObject, ObjectsInv, ObjectsTypeOK

LEMMA MakePersistentStep ==
    ASSUME ObjectsInv, NEW auth \in {"OWNER", "PLATFORM"}, NEW i \in ObjectSlot,
           NEW p \in PersistentHandle, MakePersistent(auth, i, p)
    PROVE  ObjectsInv'
  <1>1. slots[i] \in Object /\ SlotFits(slots[i])
    BY ObjectOrEmpty DEF ObjectsInv, ObjectsTypeOK, MakePersistent
  <1> DEFINE o == [slots[i] EXCEPT !.evict = TRUE]
  <1>2. /\ o \in Object /\ o.evict = TRUE
        /\ o.hierarchy = slots[i].hierarchy /\ o.born = slots[i].born
    BY <1>1 DEF Object
  <1>3. persistent' = [persistent EXCEPT ![p] = o]
    BY DEF MakePersistent
  <1> HIDE DEF o
  <1>4. PersistentFits(p, o)
    BY <1>1, <1>2 DEF PersistentFits, SlotFits, MakePersistent
  <1>5. /\ persistent' \in [PersistentHandle -> Object \cup {Empty}]
        /\ \A q \in PersistentHandle : persistent'[q] = persistent[q] \/ PersistentFits(q, persistent'[q])
    BY <1>2, <1>3, <1>4 DEF ObjectsInv, ObjectsTypeOK
  <1> QED
    BY <1>5, ObjectCommandStep DEF MakePersistent, ObjectsInv, ObjectsTypeOK

LEMMA DeletePersistentStep ==
    ASSUME ObjectsInv, NEW auth \in {"OWNER", "PLATFORM"}, NEW p \in PersistentHandle,
           DeletePersistent(auth, p)
    PROVE  ObjectsInv'
  <1>1. /\ slots' \in [ObjectSlot -> Object \cup {Empty}]
        /\ \A i \in ObjectSlot : slots'[i] # Empty => slots'[i] = slots[i]
    BY CopyGoes DEF DeletePersistent
  <1>2. /\ persistent' \in [PersistentHandle -> Object \cup {Empty}]
        /\ \A q \in PersistentHandle : persistent'[q] # Empty => persistent'[q] = persistent[q]
    BY DEF DeletePersistent, ObjectsInv, ObjectsTypeOK
  <1> QED
    BY <1>1, <1>2, ObjectCommandStep DEF DeletePersistent

-----------------------------------------------------------------------------
(* Contexts. *)

\* A command that takes the note of the shutdown back.
LEMMA NoteTakenBack ==
    ASSUME ObjectsInv, NvClearOrderly, SavedIsVoid
    PROVE  /\ PowerTypeOK' /\ SavedIsCurrent'
           /\ savedEnable' \in [Hierarchy -> BOOLEAN] /\ savedClearCount' \in Nat
           /\ started' = started
  <1>1. orderlyState' = "NONE" /\ started' = started /\ nvAvailable' = nvAvailable
    BY DEF NvClearOrderly
  <1>2. savedEnable' = [h \in Hierarchy |-> TRUE] /\ savedClearCount' = 0
    BY <1>1 DEF SavedIsVoid
  <1> QED
    BY <1>1, <1>2 DEF ObjectsInv, ObjectsTypeOK, PowerTypeOK, SavedIsCurrent

LEMMA SaveObjectStep ==
    ASSUME ObjectsInv, NEW i \in ObjectSlot, SaveObject(i)
    PROVE  ObjectsInv'
  <1> DEFINE o == slots[i]
             count == IF o.stClear THEN clearCount ELSE 0
             c == [object |-> o, proof |-> proofs[o.hierarchy], reset |-> resetCount, clear |-> count]
  <1>1. o \in Object /\ SlotFits(o) /\ started
    BY ObjectOrEmpty DEF ObjectsInv, ObjectsTypeOK, SaveObject
  <1>2. o.hierarchy \in Hierarchy /\ o.stClear \in BOOLEAN /\ o.born \in [cleared : Nat, reset : Nat, period : Nat]
    BY <1>1 DEF Object
  <1>3. /\ proofs \in [Hierarchy -> Nat] /\ cleared \in [Hierarchy -> Nat]
        /\ resetCount \in Nat /\ clearCount \in Nat /\ period \in Nat
        /\ contexts \subseteq Context
    BY DEF ObjectsInv, ObjectsTypeOK
  <1>4. c \in Context
    BY <1>1, <1>2, <1>3 DEF Context
  <1>5. ContextFits(c)
    BY <1>1, <1>2, <1>3 DEF ContextFits, SlotFits, ObjectsInv, ProofsCountClears
  <1>6. contexts' = contexts \cup {c}
    BY DEF SaveObject
  <1> HIDE DEF c
  <1>7. NvClearOrderly /\ SavedIsVoid /\ UNCHANGED <<slots, persistent, hierarchyVars, countVars>>
    BY DEF SaveObject
  <1>8. \A d \in contexts' : ContextFits(d)'
    BY <1>5, <1>6, <1>7 DEF ObjectsInv, ContextFits, hierarchyVars, countVars
  <1>9. ObjectsTypeOK'
    BY <1>3, <1>4, <1>6, <1>7, NoteTakenBack DEF ObjectsInv, ObjectsTypeOK, hierarchyVars, countVars
  <1>10. \A j \in ObjectSlot : slots'[j] # Empty => SlotFits(slots[j])'
    BY <1>7, NoteTakenBack DEF ObjectsInv, SlotFits, hierarchyVars, countVars
  <1>11. \A p \in PersistentHandle : persistent'[p] # Empty => PersistentFits(p, persistent[p])'
    BY <1>7 DEF ObjectsInv, PersistentFits, hierarchyVars
  <1>12. ProofsCountClears'
    BY <1>7 DEF ObjectsInv, ProofsCountClears, hierarchyVars
  <1> QED
    BY <1>7, <1>8, <1>9, <1>10, <1>11, <1>12, NoteTakenBack DEF ObjectsInv

\* A context that is valid is of now.
LEMMA ValidContextFits ==
    ASSUME ObjectsInv, NEW c \in contexts, ObjectContextIsValid(c)
    PROVE  /\ c.object \in Object
           /\ c.object.born.cleared = cleared[c.object.hierarchy]
           /\ enable[c.object.hierarchy] => SlotFits(c.object)
  <1>1. c \in Context /\ ContextFits(c)
    BY DEF ObjectsInv, ObjectsTypeOK
  <1>2. c.object \in Object /\ c.object.hierarchy \in Hierarchy /\ c.clear \in Nat
        /\ c.object.born \in [cleared : Nat, reset : Nat, period : Nat]
    BY <1>1 DEF Context, Object
  <1>3. clearCount \in Nat /\ period \in Nat
    BY DEF ObjectsInv, ObjectsTypeOK
  <1>4. c.object.born.cleared = cleared[c.object.hierarchy]
    BY <1>1, <1>2 DEF ContextFits, ObjectContextIsValid, ObjectsInv, ProofsCountClears
  <1>5. c.object.stClear /\ c.object.hierarchy \in {"OWNER", "ENDORSEMENT"} =>
            c.object.born.period = period
    BY <1>1, <1>2, <1>3 DEF ContextFits, ObjectContextIsValid
  <1> QED
    BY <1>1, <1>2, <1>4, <1>5 DEF SlotFits, ContextFits, ObjectContextIsValid

LEMMA LoadObjectContextStep ==
    ASSUME ObjectsInv, NEW c \in contexts, LoadObjectContext(c)
    PROVE  ObjectsInv'
  <1>1. c.object \in Object /\ SlotFits(c.object)
    BY ValidContextFits DEF LoadObjectContext
  <1> QED
    BY <1>1, AddObjectStep DEF LoadObjectContext

-----------------------------------------------------------------------------
(* Hierarchies. *)

LEMMA FlushedHierarchy ==
    ASSUME ObjectsInv, NEW flushed
    PROVE  /\ ObjectFlushHierarchy(flushed) \in [ObjectSlot -> Object \cup {Empty}]
           /\ \A i \in ObjectSlot : ObjectFlushHierarchy(flushed)[i] # Empty =>
                 /\ ObjectFlushHierarchy(flushed)[i] = slots[i]
                 /\ slots[i] # Empty /\ slots[i].hierarchy \in Hierarchy \ flushed
           /\ NvFlushHierarchy(flushed) \in [PersistentHandle -> Object \cup {Empty}]
           /\ \A p \in PersistentHandle : NvFlushHierarchy(flushed)[p] # Empty =>
                 /\ NvFlushHierarchy(flushed)[p] = persistent[p]
                 /\ persistent[p] # Empty /\ persistent[p].hierarchy \in Hierarchy \ flushed
  <1>1. /\ slots \in [ObjectSlot -> Object \cup {Empty}]
        /\ persistent \in [PersistentHandle -> Object \cup {Empty}]
    BY DEF ObjectsInv, ObjectsTypeOK
  <1>2. \A o \in Object : o.hierarchy \in Hierarchy
    BY DEF Object
  <1> QED
    BY <1>1, <1>2 DEF ObjectFlushHierarchy, NvFlushHierarchy

LEMMA HierarchyControlStep ==
    ASSUME ObjectsInv, NEW auth \in UsedHierarchies, NEW h \in UsedHierarchies, NEW state \in BOOLEAN,
           HierarchyControl(auth, h, state)
    PROVE  ObjectsInv'
  <1>1. /\ NvClearOrderly /\ SavedIsVoid
        /\ UNCHANGED <<persistent, contexts, proofs, cleared, countVars>>
        /\ enable' = [enable EXCEPT ![h] = state]
        /\ enable \in [Hierarchy -> BOOLEAN] /\ h \in Hierarchy
        /\ slots \in [ObjectSlot -> Object \cup {Empty}]
    BY DEF HierarchyControl, ObjectsInv, ObjectsTypeOK
  <1>2. /\ slots' \in [ObjectSlot -> Object \cup {Empty}]
        /\ \A i \in ObjectSlot : slots'[i] # Empty =>
              /\ slots'[i] = slots[i] /\ slots[i] # Empty
              /\ state \/ slots[i].hierarchy # h
              /\ slots[i].hierarchy \in Hierarchy
    <2>1. CASE state
      <3>1. slots' = slots
        BY <2>1 DEF HierarchyControl
      <3>2. \A i \in ObjectSlot : slots[i] # Empty => slots[i].hierarchy \in Hierarchy
        BY <1>1, ObjectOrEmpty DEF Object
      <3> QED
        BY <1>1, <2>1, <3>1, <3>2
    <2>2. CASE ~ state
      <3>1. slots' = ObjectFlushHierarchy({h})
        BY <2>2 DEF HierarchyControl
      <3> QED
        BY <3>1, FlushedHierarchy
    <2> QED
      BY <2>1, <2>2
  <1>3. \A i \in ObjectSlot : slots'[i] # Empty => SlotFits(slots[i])'
    BY <1>1, <1>2, NoteTakenBack DEF ObjectsInv, SlotFits, countVars
  <1>4. ObjectsTypeOK'
    BY <1>1, <1>2, NoteTakenBack DEF ObjectsInv, ObjectsTypeOK, countVars, SlotFits
  <1>5. \A p \in PersistentHandle : persistent'[p] # Empty => PersistentFits(p, persistent[p])'
    BY <1>1 DEF ObjectsInv, PersistentFits
  <1>6. \A c \in contexts' : ContextFits(c)'
    BY <1>1 DEF ObjectsInv, ContextFits, countVars
  <1>7. ProofsCountClears'
    BY <1>1 DEF ObjectsInv, ProofsCountClears
  <1> QED
    BY <1>1, <1>3, <1>4, <1>5, <1>6, <1>7, NoteTakenBack DEF ObjectsInv

\* TPM2_Clear, TPM2_ChangeEPS and TPM2_ChangePPS.  TPM2_Clear sets the count of
\* restarts back, but only the contexts of hierarchies that got a new proof rest
\* on it.
LEMMA RenewStep ==
    ASSUME ObjectsInv, NEW flushed \in SUBSET (Hierarchy \ {"NULL"}), Renew(flushed),
           enable' \in [Hierarchy -> BOOLEAN],
           \A h \in Hierarchy \ flushed : enable'[h] = enable[h],
           clearCount' \in Nat,
           {"OWNER", "ENDORSEMENT"} \subseteq flushed \/ clearCount' = clearCount,
           UNCHANGED <<resetCount, period>>
    PROVE  ObjectsInv'
  <1>1. /\ NvClearOrderly /\ SavedIsVoid
        /\ proofs' = [h \in Hierarchy |-> proofs[h] + IF h \in flushed THEN 1 ELSE 0]
        /\ cleared' = [h \in Hierarchy |-> cleared[h] + IF h \in flushed THEN 1 ELSE 0]
        /\ slots' = ObjectFlushHierarchy(flushed)
        /\ persistent' = NvFlushHierarchy(flushed)
        /\ contexts' = contexts
    BY DEF Renew
  <1>2. /\ proofs \in [Hierarchy -> Nat] /\ cleared \in [Hierarchy -> Nat]
        /\ resetCount \in Nat /\ period \in Nat /\ clearCount \in Nat /\ contexts \subseteq Context
    BY DEF ObjectsInv, ObjectsTypeOK
  <1>3. proofs' \in [Hierarchy -> Nat] /\ cleared' \in [Hierarchy -> Nat]
    BY <1>1, <1>2
  <1>4. \A h \in Hierarchy \ flushed : proofs'[h] = proofs[h] /\ cleared'[h] = cleared[h]
    BY <1>1, <1>2
  <1>5. \A h \in flushed : proofs'[h] = proofs[h] + 1
    BY <1>1, <1>2
  <1>6. \A i \in ObjectSlot : slots'[i] # Empty => SlotFits(slots[i])'
    <2> SUFFICES ASSUME NEW i \in ObjectSlot, slots'[i] # Empty
                 PROVE  SlotFits(slots[i])'
      OBVIOUS
    <2>1. /\ slots'[i] = slots[i] /\ SlotFits(slots[i])
          /\ slots[i].hierarchy \in Hierarchy \ flushed
      BY <1>1, FlushedHierarchy DEF ObjectsInv
    <2> QED
      BY <1>1, <1>4, <2>1, NoteTakenBack DEF SlotFits
  <1>7. \A p \in PersistentHandle : persistent'[p] # Empty => PersistentFits(p, persistent[p])'
    <2> SUFFICES ASSUME NEW p \in PersistentHandle, persistent'[p] # Empty
                 PROVE  PersistentFits(p, persistent[p])'
      OBVIOUS
    <2>1. /\ persistent'[p] = persistent[p] /\ PersistentFits(p, persistent[p])
          /\ persistent[p].hierarchy \in Hierarchy \ flushed
      BY <1>1, FlushedHierarchy DEF ObjectsInv
    <2> QED
      BY <1>4, <2>1 DEF PersistentFits
  <1>8. ASSUME NEW c \in contexts
        PROVE  ContextFits(c)'
    <2>1. /\ ContextFits(c) /\ c.object.hierarchy \in Hierarchy /\ c.proof \in Nat
      BY <1>2 DEF ObjectsInv, Context, Object
    <2>2. CASE c.object.hierarchy \in flushed
      <3>1. /\ c.object.hierarchy # "NULL"
            /\ c.proof <= proofs[c.object.hierarchy]
            /\ proofs'[c.object.hierarchy] = proofs[c.object.hierarchy] + 1
            /\ proofs[c.object.hierarchy] \in Nat
        BY <1>2, <1>5, <2>1, <2>2 DEF ContextFits
      <3>2. c.proof # proofs'[c.object.hierarchy] /\ c.proof <= proofs'[c.object.hierarchy]
        BY <2>1, <3>1
      <3> QED
        BY <2>1, <3>1, <3>2 DEF ContextFits
    <2>3. CASE c.object.hierarchy \notin flushed
      <3>1. proofs'[c.object.hierarchy] = proofs[c.object.hierarchy]
        BY <1>4, <2>1, <2>3
      <3>2. c.object.hierarchy \in {"OWNER", "ENDORSEMENT"} => clearCount' = clearCount
        BY <2>3
      <3> QED
        BY <2>1, <3>1, <3>2 DEF ContextFits
    <2> QED
      BY <2>2, <2>3
  <1>9. ObjectsTypeOK'
    <2>1. \A i \in ObjectSlot : slots'[i] # Empty => ~ slots'[i].evict
      BY <1>1, FlushedHierarchy DEF ObjectsInv, SlotFits
    <2> QED
      BY <1>1, <1>2, <1>3, <2>1, FlushedHierarchy, NoteTakenBack DEF ObjectsTypeOK
  <1>10. ProofsCountClears'
    BY <1>1, <1>2 DEF ObjectsInv, ProofsCountClears, Hierarchy
  <1> QED
    BY <1>1, <1>6, <1>7, <1>8, <1>9, <1>10, NoteTakenBack DEF ObjectsInv

LEMMA ClearOwnerStep ==
    ASSUME ObjectsInv, ClearOwner
    PROVE  ObjectsInv'
  <1>1. enable' \in [Hierarchy -> BOOLEAN]
        /\ \A h \in Hierarchy \ {"OWNER", "ENDORSEMENT"} : enable'[h] = enable[h]
    BY DEF ClearOwner, ObjectsInv, ObjectsTypeOK
  <1>2. {"OWNER", "ENDORSEMENT"} \in SUBSET (Hierarchy \ {"NULL"})
    BY DEF Hierarchy
  <1> QED
    BY <1>1, <1>2, RenewStep DEF ClearOwner

LEMMA ChangeEPSStep ==
    ASSUME ObjectsInv, ChangeEPS
    PROVE  ObjectsInv'
  <1>1. enable' \in [Hierarchy -> BOOLEAN]
        /\ \A h \in Hierarchy \ {"ENDORSEMENT"} : enable'[h] = enable[h]
    BY DEF ChangeEPS, ObjectsInv, ObjectsTypeOK
  <1>2. {"ENDORSEMENT"} \in SUBSET (Hierarchy \ {"NULL"})
    BY DEF Hierarchy
  <1> QED
    BY <1>1, <1>2, RenewStep DEF ChangeEPS, countVars, ObjectsInv, ObjectsTypeOK

LEMMA ChangePPSStep ==
    ASSUME ObjectsInv, ChangePPS
    PROVE  ObjectsInv'
  <1>1. {"PLATFORM"} \in SUBSET (Hierarchy \ {"NULL"})
    BY DEF Hierarchy
  <1> QED
    BY <1>1, RenewStep DEF ChangePPS, countVars, ObjectsInv, ObjectsTypeOK

-----------------------------------------------------------------------------
(* Shutdown, loss of power and startup. *)

\* A step that changes neither objects nor hierarchies nor counts, and starts
\* nothing.
LEMMA PowerStep ==
    ASSUME ObjectsInv, UNCHANGED <<objectVars, hierarchyVars, countVars>>,
           PowerTypeOK', SavedIsCurrent', savedEnable' \in [Hierarchy -> BOOLEAN],
           savedClearCount' \in Nat, started' => started
    PROVE  ObjectsInv'
  <1>1. \A i \in ObjectSlot : slots'[i] # Empty => SlotFits(slots[i])'
    BY DEF ObjectsInv, SlotFits, objectVars, hierarchyVars, countVars
  <1>2. \A p \in PersistentHandle : persistent'[p] # Empty => PersistentFits(p, persistent[p])'
    BY DEF ObjectsInv, PersistentFits, objectVars, hierarchyVars
  <1>3. \A c \in contexts' : ContextFits(c)'
    BY DEF ObjectsInv, ContextFits, objectVars, hierarchyVars, countVars
  <1>4. ObjectsTypeOK' /\ ProofsCountClears'
    BY DEF ObjectsInv, ObjectsTypeOK, ProofsCountClears, objectVars, hierarchyVars, countVars
  <1> QED
    BY <1>1, <1>2, <1>3, <1>4 DEF ObjectsInv

LEMMA OtherOrderlyCommandStep ==
    ASSUME ObjectsInv, OtherOrderlyCommand
    PROVE  ObjectsInv'
  BY NoteTakenBack, PowerStep DEF OtherOrderlyCommand

LEMMA ObjectsShutdownStep ==
    ASSUME ObjectsInv, NEW type \in StartupArgument, ObjectsShutdown(type)
    PROVE  ObjectsInv'
  <1>1. PowerTypeOK' /\ started' = started /\ orderlyState' = type
    BY DEF ObjectsShutdown, PowerShutdown, ObjectsInv, ObjectsTypeOK, PowerTypeOK
  <1>2. savedEnable' \in [Hierarchy -> BOOLEAN] /\ savedClearCount' \in Nat
    BY DEF ObjectsShutdown, ObjectsInv, ObjectsTypeOK
  <1>3. SavedIsCurrent'
    BY <1>1 DEF ObjectsShutdown, SavedIsCurrent, countVars
  <1> QED
    BY <1>1, <1>2, <1>3, PowerStep DEF ObjectsShutdown

LEMMA ObjectsSignalStep ==
    ASSUME ObjectsInv, ObjectsPowerLost \/ ObjectsNvSignal
    PROVE  ObjectsInv'
  <1>1. PowerTypeOK' /\ orderlyState' = orderlyState /\ (started' => started)
    <2>1. CASE ObjectsPowerLost
      BY <2>1 DEF ObjectsPowerLost, PowerLoss, ObjectsInv, ObjectsTypeOK, PowerTypeOK
    <2>2. CASE ObjectsNvSignal
      <3>1. nvAvailable' \in BOOLEAN
        BY <2>2 DEF ObjectsNvSignal, NvSignal
      <3> QED
        BY <2>2, <3>1 DEF ObjectsNvSignal, NvSignal, ObjectsInv, ObjectsTypeOK, PowerTypeOK
    <2> QED
      BY <2>1, <2>2
  <1>2. UNCHANGED <<objectVars, hierarchyVars, countVars, savedEnable, savedClearCount>>
    BY DEF ObjectsPowerLost, ObjectsNvSignal
  <1>3. savedEnable' \in [Hierarchy -> BOOLEAN] /\ savedClearCount' \in Nat /\ SavedIsCurrent'
    BY <1>1, <1>2 DEF ObjectsInv, ObjectsTypeOK, SavedIsCurrent, countVars
  <1> QED
    BY <1>1, <1>2, <1>3, PowerStep

\* The slots are empty; a context fits if it is of an earlier Reset, or if the
\* count of restarts went on with the periods.
LEMMA ObjectsStartupStep ==
    ASSUME ObjectsInv, NEW startupType \in StartupArgument, ObjectsStartup(startupType)
    PROVE  ObjectsInv'
  <1> DEFINE type == StartupType(startupType)
  <1>1. /\ started' = TRUE /\ orderlyState' = "NONE" /\ nvAvailable' = nvAvailable
        /\ UNCHANGED <<persistent, contexts, cleared>>
        /\ slots' = [i \in ObjectSlot |-> Empty]
        /\ period' = IF type = "RESUME" THEN period ELSE period + 1
    BY DEF ObjectsStartup, PowerStartup
  <1>2. savedEnable' \in [Hierarchy -> BOOLEAN] /\ savedClearCount' \in Nat
    <2>1. savedEnable' = [h \in Hierarchy |-> TRUE] /\ savedClearCount' = 0
      BY <1>1 DEF ObjectsStartup, SavedIsVoid
    <2> QED
      BY <2>1
  <1>3. enable' \in [Hierarchy -> BOOLEAN]
    BY DEF ObjectsStartup, ObjectsInv, ObjectsTypeOK
  <1>4. /\ proofs \in [Hierarchy -> Nat] /\ cleared \in [Hierarchy -> Nat]
        /\ resetCount \in Nat /\ period \in Nat /\ clearCount \in Nat /\ savedClearCount \in Nat
        /\ contexts \subseteq Context
    BY DEF ObjectsInv, ObjectsTypeOK
  <1>5. CASE type = "RESET"
    <2>1. /\ resetCount' = resetCount + 1
          /\ proofs' = [proofs EXCEPT !["NULL"] = @ + 1]
          /\ clearCount' = 0
      BY <1>5 DEF ObjectsStartup
    <2>2. proofs' \in [Hierarchy -> Nat] /\ \A h \in Hierarchy \ {"NULL"} : proofs'[h] = proofs[h]
      <3>1. "NULL" \in Hierarchy
        BY DEF Hierarchy
      <3> QED
        BY <1>4, <2>1, <3>1
    <2>3. \A c \in contexts' : ContextFits(c)'
      <3> SUFFICES ASSUME NEW c \in contexts
                   PROVE  ContextFits(c)'
        BY <1>1
      <3>1. ContextFits(c) /\ c \in Context /\ c.reset \in Nat /\ c.object.hierarchy \in Hierarchy
        BY <1>4 DEF ObjectsInv, Context, Object
      <3>2. c.reset <= resetCount' /\ c.reset # resetCount'
        BY <1>4, <2>1, <3>1 DEF ContextFits
      <3> QED
        BY <1>1, <2>2, <3>1, <3>2 DEF ContextFits
    <2>4. ObjectsTypeOK'
      BY <1>1, <1>2, <1>3, <1>4, <2>1, <2>2 DEF ObjectsInv, ObjectsTypeOK, PowerTypeOK
    <2>5. ProofsCountClears'
      BY <1>1, <2>2 DEF ObjectsInv, ProofsCountClears
    <2> QED
      BY <1>1, <2>3, <2>4, <2>5 DEF ObjectsInv, SavedIsCurrent, PersistentFits
  <1>6. CASE type # "RESET"
    <2>1. /\ clearCount' = savedClearCount + IF type = "RESTART" THEN 1 ELSE 0
          /\ UNCHANGED <<resetCount, proofs>>
      BY <1>6 DEF ObjectsStartup
    <2>2. orderlyState = "STATE" /\ type \in {"RESUME", "RESTART"}
      BY <1>6 DEF StartupType
    <2>3. period' - clearCount' = period - clearCount /\ clearCount' \in Nat /\ period' \in Nat
      BY <1>1, <1>4, <2>1, <2>2 DEF ObjectsInv, SavedIsCurrent
    <2>4. \A c \in contexts' : ContextFits(c)'
      BY <1>1, <2>1, <2>3 DEF ObjectsInv, ContextFits
    <2>5. ObjectsTypeOK'
      BY <1>1, <1>2, <1>3, <1>4, <2>1, <2>3 DEF ObjectsInv, ObjectsTypeOK, PowerTypeOK
    <2>6. ProofsCountClears'
      BY <1>1, <2>1 DEF ObjectsInv, ProofsCountClears
    <2> QED
      BY <1>1, <2>4, <2>5, <2>6 DEF ObjectsInv, SavedIsCurrent, PersistentFits
  <1> QED
    BY <1>5, <1>6

-----------------------------------------------------------------------------
(* The theorems. *)

\* The invariant holds: an object that can be used, or brought back, is of a
\* hierarchy as it is now, of this Reset and, with stClear, of this period.
THEOREM ObjectsInvariant == ObjectsSpec => []ObjectsInv
  <1>1. ObjectsInit => ObjectsInv
    <2> SUFFICES ASSUME ObjectsInit
                 PROVE  ObjectsInv
      OBVIOUS
    <2>1. ObjectsTypeOK
      <3>1. PowerTypeOK
        BY DEF ObjectsInit, PowerInit, PowerTypeOK, StartupArgument
      <3>2. slots \in [ObjectSlot -> {Empty}] /\ persistent \in [PersistentHandle -> {Empty}]
        BY DEF ObjectsInit
      <3>3. /\ enable \in [Hierarchy -> BOOLEAN] /\ savedEnable \in [Hierarchy -> BOOLEAN]
            /\ proofs \in [Hierarchy -> Nat] /\ cleared \in [Hierarchy -> Nat]
        BY DEF ObjectsInit
      <3> QED
        BY <3>1, <3>2, <3>3 DEF ObjectsInit, ObjectsTypeOK
    <2> QED
      BY <2>1 DEF ObjectsInit, PowerInit, ObjectsInv, ProofsCountClears, SavedIsCurrent
  <1>2. ObjectsInv /\ [ObjectsNext]_objectsVars => ObjectsInv'
    <2> SUFFICES ASSUME ObjectsInv, [ObjectsNext]_objectsVars
                 PROVE  ObjectsInv'
      OBVIOUS
    <2>1. ASSUME NEW i \in ObjectSlot,
                 \/ FlushObject(i) \/ SaveObject(i)
                 \/ \E stClear \in BOOLEAN : LoadBelow(i, stClear)
                 \/ \E auth \in {"OWNER", "PLATFORM"}, p \in PersistentHandle :
                       MakePersistent(auth, i, p)
          PROVE  ObjectsInv'
      BY <2>1, FlushObjectStep, SaveObjectStep, LoadBelowStep, MakePersistentStep
    <2>2. ASSUME NEW p \in PersistentHandle,
                 \/ \E stClear \in BOOLEAN : LoadBelowPersistent(p, stClear)
                 \/ \E auth \in {"OWNER", "PLATFORM"} : DeletePersistent(auth, p)
          PROVE  ObjectsInv'
      BY <2>2, LoadBelowPersistentStep, DeletePersistentStep
    <2>3. ASSUME NEW p \in PersistentHandle, NEW h \in UsedHierarchies,
                 UsePersistent(p, NewObject(h, FALSE))
          PROVE  ObjectsInv'
      <3>1. NewObject(h, FALSE) \in Object
        BY NewObjectFits
      <3> QED
        BY <2>3, <3>1, UsePersistentStep
    <2>4. ASSUME \E h \in UsedHierarchies, stClear \in BOOLEAN : CreateObject(h, stClear)
          PROVE  ObjectsInv'
      BY <2>4, CreateObjectStep
    <2>5. ASSUME \E c \in contexts : LoadObjectContext(c)
          PROVE  ObjectsInv'
      BY <2>5, LoadObjectContextStep
    <2>6. ASSUME \E auth, h \in UsedHierarchies, state \in BOOLEAN : HierarchyControl(auth, h, state)
          PROVE  ObjectsInv'
      BY <2>6, HierarchyControlStep
    <2>7. ASSUME \E type \in StartupArgument : ObjectsShutdown(type) \/ ObjectsStartup(type)
          PROVE  ObjectsInv'
      BY <2>7, ObjectsShutdownStep, ObjectsStartupStep
    <2>8. CASE UNCHANGED objectsVars
      <3>1. PowerTypeOK' /\ SavedIsCurrent' /\ started' = started
        BY <2>8 DEF objectsVars, powerVars, countVars, ObjectsInv, ObjectsTypeOK, PowerTypeOK, SavedIsCurrent
      <3>2. savedEnable' \in [Hierarchy -> BOOLEAN] /\ savedClearCount' \in Nat
        BY <2>8 DEF objectsVars, ObjectsInv, ObjectsTypeOK
      <3> QED
        BY <2>8, <3>1, <3>2, PowerStep DEF objectsVars
    <2> QED
      BY <2>1, <2>2, <2>3, <2>4, <2>5, <2>6, <2>7, <2>8, ClearOwnerStep, ChangeEPSStep,
         ChangePPSStep, OtherOrderlyCommandStep, ObjectsSignalStep DEF ObjectsNext
  <1> QED
    BY <1>1, <1>2, PTL DEF ObjectsSpec

\* A disabled hierarchy has no object in a slot (HierarchyControl, ObjectLoadEvict,
\* TPM2_ContextLoad).
THEOREM DisabledIsEmpty == ObjectsSpec => []DisabledHierarchyIsEmpty
  <1>1. ObjectsInv => DisabledHierarchyIsEmpty
    BY DEF ObjectsInv, SlotFits, DisabledHierarchyIsEmpty, LoadedObjects
  <1> QED
    BY <1>1, ObjectsInvariant, PTL

\* Nothing that was made before its hierarchy was cleared is left in a slot, in
\* NV or in a context that loads (TPM2_Clear, TPM2_ChangeEPS, TPM2_ChangePPS).
THEOREM ClearedAreGone == ObjectsSpec => []ClearedObjectsAreGone
  <1>1. ObjectsInv => ClearedObjectsAreGone
    BY ValidContextFits DEF ObjectsInv, SlotFits, PersistentFits, ClearedObjectsAreGone,
       LoadedObjects, PersistentObjects
  <1> QED
    BY <1>1, ObjectsInvariant, PTL

\* No object comes back after a TPM Reset, none with stClear after a TPM Restart
\* (ComputeContextIntegrity).
THEOREM ObjectsEnd == ObjectsSpec => []ObjectsEndWithTheirPeriod
  <1>1. ObjectsInv => ObjectsEndWithTheirPeriod
    BY DEF ObjectsInv, SlotFits, ObjectsEndWithTheirPeriod, LoadedObjects
  <1> QED
    BY <1>1, ObjectsInvariant, PTL
=============================================================================

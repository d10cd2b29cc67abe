------------------------------- MODULE Power -------------------------------
(***************************************************************************)
(* How the software TPM goes down and comes up again.                      *)
(*                                                                         *)
(* TPM2_Shutdown notes in NV (gp.orderlyState) that the state was saved,   *)
(* or only that the end was announced; a command that changes what was     *)
(* saved takes the note back (g_clearOrderly, at the end of                *)
(* ExecuteCommand).  TPM2_Startup decides from the note whether this is a  *)
(* Resume, a Restart or a Reset, which is what every subsystem asks for.   *)
(* The modules of the subsystems extend this one and join their own part   *)
(* to its steps.                                                           *)
(*                                                                         *)
(* Power may be lost between any two commands: an NV write of a command    *)
(* reaches the file at the end of that command, all of it or nothing.      *)
(***************************************************************************)
EXTENDS Integers

VARIABLES
    started,        \* TPMIsStarted: TPM2_Startup was done since _TPM_Init
    orderlyState,   \* gp.orderlyState, as it is in NV
    nvAvailable     \* what _plat__IsNvAvailable will say to the next command

powerVars == <<started, orderlyState, nvAvailable>>

StartupArgument == {"CLEAR", "STATE"}

PowerTypeOK ==
    /\ started \in BOOLEAN
    /\ orderlyState \in {"NONE"} \cup StartupArgument
    /\ nvAvailable \in BOOLEAN

\* As TPM_Manufacture leaves it: the first startup counts as an orderly one.
PowerInit ==
    /\ started = FALSE
    /\ orderlyState = "CLEAR"
    /\ nvAvailable = TRUE

\* NV_IS_ORDERLY
Orderly == orderlyState # "NONE"

\* NvClearOrderly and its effect at the end of the command: a command that may
\* change the saved state fails if the note can not be taken back.
NvClearOrderly ==
    /\ Orderly => nvAvailable
    /\ orderlyState' = "NONE"
    /\ UNCHANGED <<started, nvAvailable>>

\* What TPM2_Startup makes of its argument and of the note.
StartupType(startupType) ==
    IF orderlyState = "STATE"
    THEN IF startupType = "STATE" THEN "RESUME" ELSE "RESTART"
    ELSE "RESET"

\* TPM2_Startup: it is accepted once, and Startup(STATE) needs a saved state.
PowerStartup(startupType) ==
    /\ ~ started
    /\ nvAvailable
    /\ startupType = "STATE" => orderlyState = "STATE"
    /\ started' = TRUE
    /\ orderlyState' = "NONE"
    /\ UNCHANGED nvAvailable

PowerShutdown(shutdownType) ==
    /\ started
    /\ nvAvailable
    /\ orderlyState' = shutdownType
    /\ UNCHANGED <<started, nvAvailable>>

\* _TPM_Init, after a loss of power or a reset signal: what is in RAM is gone.
PowerLoss ==
    /\ started
    /\ started' = FALSE
    /\ UNCHANGED <<orderlyState, nvAvailable>>

\* The simulator's signals NV_ON and NV_OFF.
NvSignal ==
    /\ nvAvailable' = ~ nvAvailable
    /\ UNCHANGED <<started, orderlyState>>
=============================================================================

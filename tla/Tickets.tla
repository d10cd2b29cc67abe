------------------------------ MODULE Tickets ------------------------------
(***************************************************************************)
(* Authorizations that end: PolicySigned and PolicySecret with an          *)
(* expiration, the tickets they give, and the timeout of a policy session. *)
(*                                                                         *)
(* Deadlines are values of the TPM's time, which starts again with every   *)
(* loss of power and stands still while NV can not be written.  So each    *)
(* deadline belongs to an epoch, whose number is in NV and goes up with    *)
(* the first update of the time after a loss of power; sessions and        *)
(* tickets carry the epoch they were made in.  A session outlives a loss   *)
(* of power as a saved context, and a ticket in the hands of its caller    *)
(* outlives everything.  A reset signal (_TPM_Init with the power on)      *)
(* leaves time and epoch alone; authorizations without a nonce end with    *)
(* the TPM Reset, for which the reset count is in their tickets.           *)
(*                                                                         *)
(* One session is enough: no session reads the timeout of another, and     *)
(* tickets made in one are used in the next.  Names, keys and cpHash are   *)
(* not in this module, nor is a trial session, which keeps no timeout.     *)
(***************************************************************************)
EXTENDS Power, FiniteSets

CONSTANTS
    Second,         \* milliseconds of a second, 1000 in the build
    Expirations,    \* bound: the expirations asked for, in seconds, without their sign
    MaxTime,        \* bound: how long the power stays on
    MaxEpochs,      \* bound: how often the power comes on
    MaxTicketResets,    \* bound: TPM Resets
    MaxTickets      \* bound: tickets in the hands of callers

ASSUME TicketsAssumption ==
    /\ Second \in Nat \ {0}
    /\ Expirations \subseteq Nat
    /\ {MaxTime, MaxEpochs, MaxTicketResets, MaxTickets} \subseteq Nat

VARIABLES
    tpmTime,        \* _plat__TimerRead: milliseconds since the power came on
    gTime,          \* g_time: the timer as of the last command that could read it
    timerStopped,   \* s_timerStopped: the power came on, and no epoch was begun
    timeEpoch,      \* gp.timeEpoch
    resetsCounted,  \* gp.totalResetCount
    session,        \* the timing of the policy session
    tickets,        \* the tickets in the hands of callers
    powerPeriod,    \* history: how often the power came on
    deadlines       \* history: the deadlines that the session relies on

timingVars == <<tpmTime, gTime, timerStopped, timeEpoch, resetsCounted>>
timingHistory == <<powerPeriod, deadlines>>
ticketsVars == <<powerVars, timingVars, session, tickets, timingHistory>>

\* A deadline as it was meant: a time in one power period.  Without a nonce it
\* is one in whole seconds, and ends with the next TPM Reset.
Deadline == [period : Nat, at : Nat, withNonce : BOOLEAN, reset : Nat]

\* What a ticket's HMAC covers, and for which deadline it stands.
Ticket == [timeout : Nat, epoch : Nat, expiresOnReset : BOOLEAN, resetCount : Nat,
           stands : Deadline]

TicketsTypeOK ==
    /\ PowerTypeOK
    /\ {tpmTime, gTime, timeEpoch, resetsCounted, powerPeriod} \subseteq Nat
    /\ timerStopped \in BOOLEAN
    /\ session \in [place : {"NONE", "LOADED", "SAVED"}, startTime : Nat, epoch : Nat,
                    timeout : Nat]
    /\ tickets \subseteq Ticket
    /\ deadlines \subseteq Deadline

NoTimedSession == [place |-> "NONE", startTime |-> 0, epoch |-> 0, timeout |-> 0]

-----------------------------------------------------------------------------
(* Time.c *)

\* The time that a command sees: it stands still while NV is not available.
CommandTime == IF nvAvailable THEN tpmTime ELSE gTime

\* The first thing a command does: TimeUpdateToCurrent.
ReadTime ==
    /\ started
    /\ gTime' = CommandTime
    /\ UNCHANGED <<tpmTime, timerStopped, timeEpoch, resetsCounted, powerPeriod>>

\* Mutant of NextEpoch: the epoch is the same after a loss of power.
NextEpochSame == timeEpoch

\* Mutant of NextEpoch: each startup begins an epoch.
NextEpochAlways == timeEpoch + 1

\* TimeNewEpoch, if the timer was stopped.
NextEpoch == IF timerStopped THEN timeEpoch + 1 ELSE timeEpoch

-----------------------------------------------------------------------------
(* Session.c, Policy_spt.c and Ticket.c *)

\* SessionSetStartTime, of a session without a timeout.
StartedSession ==
    [place |-> "LOADED", startTime |-> CommandTime, epoch |-> timeEpoch, timeout |-> 0]

\* Mutant of ComputeAuthTimeout: the time base of the nonce is forgotten.
ComputeAuthTimeoutNow(seconds, withNonce) ==
    IF seconds = 0 THEN 0
    ELSE IF withNonce THEN CommandTime + Second * seconds
                      ELSE Second * seconds + (CommandTime % Second)

\* From the start of the session with its nonce, from power on without; there
\* with the milliseconds of now, for an expiration is in seconds.
ComputeAuthTimeout(seconds, withNonce) ==
    IF seconds = 0 THEN 0
    ELSE IF withNonce THEN session.startTime + Second * seconds
                      ELSE Second * seconds + (CommandTime % Second)

\* Mutant of InTime: only the times are compared.
InTimeAnyEpoch(authTimeout) ==
    authTimeout # 0 => nvAvailable /\ authTimeout >= CommandTime

\* The timeout as PolicyParameterChecks and CheckPolicyAuthSession look at it:
\* no time is compared while it stands still.
InTime(authTimeout) ==
    authTimeout # 0 => /\ nvAvailable
                       /\ authTimeout >= CommandTime
                       /\ session.epoch = timeEpoch

\* Mutant of TimeoutUpdated: the last authorization sets the timeout.
TimeoutUpdatedToLast(authTimeout) == IF authTimeout # 0 THEN authTimeout ELSE session.timeout

\* PolicyContextUpdate: the first of the deadlines counts.
TimeoutUpdated(authTimeout) ==
    IF authTimeout # 0 /\ (session.timeout = 0 \/ session.timeout > authTimeout)
    THEN authTimeout ELSE session.timeout

\* Mutant of TicketIsGenuine: the reset count is not in the ticket.
TicketIsGenuineAnyReset(ticket) == ticket.epoch = timeEpoch

\* TicketComputeAuth, again for a ticket that comes back: it is another one
\* after the epoch changed or, without a nonce, after a TPM Reset.
TicketIsGenuine(ticket) ==
    /\ ticket.epoch = timeEpoch
    /\ ticket.expiresOnReset => ticket.resetCount = resetsCounted

-----------------------------------------------------------------------------
(* The commands on the session. *)

SessionLoaded == session.place = "LOADED"

\* TPM2_StartAuthSession
StartTimedSession ==
    /\ session.place = "NONE"
    /\ ReadTime
    /\ session' = StartedSession
    /\ deadlines' = {}
    /\ UNCHANGED <<powerVars, tickets>>

\* The deadline that the authorizing party had in mind.
DeadlineMeant(seconds, withNonce) ==
    [period |-> powerPeriod, withNonce |-> withNonce, reset |-> resetsCounted,
     at |-> IF withNonce THEN session.startTime + Second * seconds ELSE seconds]

\* TPM2_PolicySigned and TPM2_PolicySecret: an authorization that was given.
\* An expiration below 0 asks for a ticket too.
PolicyTimed(seconds, withNonce, wantsTicket) ==
    LET authTimeout == ComputeAuthTimeout(seconds, withNonce)
        meant == DeadlineMeant(seconds, withNonce)
    IN  /\ SessionLoaded
        /\ ReadTime
        /\ InTime(authTimeout)
        /\ session' = [session EXCEPT !.timeout = TimeoutUpdated(authTimeout)]
        /\ deadlines' = IF seconds = 0 THEN deadlines ELSE deadlines \cup {meant}
        /\ IF wantsTicket
           THEN /\ seconds # 0
                /\ Cardinality(tickets) < MaxTickets
                /\ tickets' = tickets \cup {[timeout |-> authTimeout, epoch |-> timeEpoch,
                                             expiresOnReset |-> ~ withNonce,
                                             resetCount |-> resetsCounted, stands |-> meant]}
           ELSE UNCHANGED tickets
        /\ UNCHANGED powerVars

\* TPM2_PolicyTicket: the ticket takes the place of the authorization.
TPM2_PolicyTicket(ticket) ==
    /\ SessionLoaded
    /\ ReadTime
    /\ InTime(ticket.timeout)
    /\ TicketIsGenuine(ticket)
    /\ session' = [session EXCEPT !.timeout = TimeoutUpdated(ticket.timeout)]
    /\ deadlines' = deadlines \cup {ticket.stands}
    /\ UNCHANGED <<powerVars, tickets>>

\* TPM2_PolicyRestart: SessionResetPolicyData keeps the nonce and the start.
RestartTimedPolicy ==
    /\ SessionLoaded
    /\ ReadTime
    /\ session' = [session EXCEPT !.timeout = 0]
    /\ deadlines' = {}
    /\ UNCHANGED <<powerVars, tickets>>

\* A command that the session authorizes, as far as time goes.  The response
\* ends the session, or gives it another nonce and begins it anew.
UseTimedSession(continueSession) ==
    /\ SessionLoaded
    /\ ReadTime
    /\ InTime(session.timeout)
    /\ session' = IF continueSession THEN StartedSession ELSE NoTimedSession
    /\ deadlines' = {}
    /\ UNCHANGED <<powerVars, tickets>>

FlushTimedSession ==
    /\ SessionLoaded
    /\ ReadTime
    /\ session' = NoTimedSession
    /\ deadlines' = {}
    /\ UNCHANGED <<powerVars, tickets>>

\* TPM2_ContextSave and TPM2_ContextLoad of the session.
MoveTimedSession ==
    /\ session.place # "NONE"
    /\ ReadTime
    /\ NvClearOrderly
    /\ session' = [session EXCEPT !.place = IF @ = "LOADED" THEN "SAVED" ELSE "LOADED"]
    /\ UNCHANGED <<tickets, deadlines>>

\* A command that has nothing to do with the session.
UnrelatedCommand ==
    /\ ReadTime
    /\ NvClearOrderly \/ UNCHANGED powerVars
    /\ UNCHANGED <<session, tickets, deadlines>>

-----------------------------------------------------------------------------
(* Time and power. *)

TicketsInit ==
    /\ PowerInit
    /\ tpmTime = 0 /\ gTime = 0
    /\ timerStopped = TRUE
    /\ timeEpoch = 0
    /\ resetsCounted = 0
    /\ session = NoTimedSession
    /\ tickets = {}
    /\ powerPeriod = 1
    /\ deadlines = {}

TimePasses ==
    /\ tpmTime < MaxTime
    /\ tpmTime' = tpmTime + 1
    /\ UNCHANGED <<powerVars, gTime, timerStopped, timeEpoch, resetsCounted, session, tickets,
                   timingHistory>>

TicketsShutdown(shutdownType) ==
    /\ ReadTime
    /\ PowerShutdown(shutdownType)
    /\ UNCHANGED <<session, tickets, deadlines>>

\* A session in RAM is gone; one that was saved is gone unless it is in the
\* state that TPM2_Shutdown saved.
SessionAfterInit ==
    IF session.place = "SAVED" /\ orderlyState = "STATE"
    THEN UNCHANGED <<session, deadlines>>
    ELSE session' = NoTimedSession /\ deadlines' = {}

\* The reset signal: _TPM_Init with the power on.
ResetSignal ==
    /\ PowerLoss
    /\ SessionAfterInit
    /\ gTime' = tpmTime
    /\ UNCHANGED <<tpmTime, timerStopped, timeEpoch, resetsCounted, tickets, powerPeriod>>

\* A loss of power: the timer begins again.
PowerCycle ==
    /\ PowerLoss
    /\ powerPeriod < MaxEpochs
    /\ SessionAfterInit
    /\ tpmTime' = 0 /\ gTime' = 0
    /\ timerStopped' = TRUE
    /\ powerPeriod' = powerPeriod + 1
    /\ UNCHANGED <<timeEpoch, resetsCounted, tickets>>

\* TPM2_Startup: TimeUpdate, in DAStartup, begins an epoch if one is due.
TicketsStartup(startupType) ==
    /\ PowerStartup(startupType)
    /\ gTime' = tpmTime
    /\ timeEpoch' = NextEpoch
    /\ timerStopped' = FALSE
    /\ resetsCounted' = IF StartupType(startupType) = "RESET" THEN resetsCounted + 1
                                                              ELSE resetsCounted
    /\ resetsCounted' <= MaxTicketResets
    /\ UNCHANGED <<tpmTime, session, tickets, timingHistory>>

TicketsNvSignal ==
    /\ NvSignal
    /\ UNCHANGED <<timingVars, session, tickets, timingHistory>>

TicketsNext ==
    \/ TimePasses
    \/ StartTimedSession
    \/ \E seconds \in Expirations, withNonce, wantsTicket \in BOOLEAN :
          PolicyTimed(seconds, withNonce, wantsTicket)
    \/ \E ticket \in tickets : TPM2_PolicyTicket(ticket)
    \/ RestartTimedPolicy
    \/ \E continueSession \in BOOLEAN : UseTimedSession(continueSession)
    \/ FlushTimedSession
    \/ MoveTimedSession
    \/ UnrelatedCommand
    \/ \E type \in StartupArgument : TicketsShutdown(type) \/ TicketsStartup(type)
    \/ ResetSignal
    \/ PowerCycle
    \/ TicketsNvSignal

TicketsSpec == TicketsInit /\ [][TicketsNext]_ticketsVars

-----------------------------------------------------------------------------
(* Properties. *)

\* The deadline is not over: this is its power period and its time has not
\* passed; without a nonce there was no TPM Reset since either.
NotOver(deadline) ==
    /\ deadline.period = powerPeriod
    /\ IF deadline.withNonce
       THEN tpmTime <= deadline.at
       ELSE tpmTime \div Second <= deadline.at /\ deadline.reset = resetsCounted

\* What the session relies on has not ended when it authorizes a command,
\* neither by the time nor by a loss of power nor by a TPM Reset, through
\* tickets, saved contexts and times at which the clock stood still.
TimedAuthorizationEnds ==
    started /\ SessionLoaded /\ InTime(session.timeout)
        => \A deadline \in deadlines : NotOver(deadline)

\* And it does not end before: while what the session relies on is to come
\* nothing but NV keeps it from use, whatever came in between.  An expiration
\* in whole seconds is over at the end of the last of them at the latest.
TimedAuthorizationLasts ==
    /\ started /\ SessionLoaded /\ nvAvailable
    /\ deadlines # {}
    /\ \A deadline \in deadlines :
          /\ NotOver(deadline)
          /\ deadline.withNonce \/ tpmTime <= Second * deadline.at
    => InTime(session.timeout)
=============================================================================

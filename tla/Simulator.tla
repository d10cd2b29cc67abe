----------------------------- MODULE Simulator -----------------------------
(***************************************************************************)
(* The process of the application, and the software TPM inside it.         *)
(*                                                                         *)
(* A thread of the application starts the TPM (startInternalTPM), which    *)
(* listens on two sockets: a thread of its own serves the platform port    *)
(* (power and NV), the starting thread goes on to serve the command port.  *)
(* Each of them serves one connection until the client ends it.  The JNI   *)
(* caller waits 250 ms, does not look whether anybody listens, and calls   *)
(* setup: a power cycle over a connection of its own, then TPM2_Startup    *)
(* over the connection that all later commands use.  An error that is      *)
(* critical ends the process, and with it the TPM.  The NV file survives.  *)
(*                                                                         *)
(* The client's side of a connection is the TSS, a binary in jniLibs: a    *)
(* context connects when it first transmits, waits for each answer without *)
(* a timeout, and TSS_Delete ends the session and closes the socket.       *)
(***************************************************************************)
EXTENDS Naturals, Sequences, FiniteSets

CONSTANTS
    MaxLaunches,    \* bound: how often the process is started
    MaxSetups,      \* bound: calls of setup in one process
    MaxCalls,       \* bound: later TPM commands in one process
    Reopens         \* the application calls setup although the connection of
                    \* an earlier setup is still open

ASSUME SimulatorAssumption ==
    /\ {MaxLaunches, MaxSetups, MaxCalls} \subseteq Nat \ {0}
    /\ Reopens \in BOOLEAN

VARIABLES
    caller,         \* the JNI caller: what it sends next, or where it is
    waiting,        \* the caller has sent it and waits for the answer
    answer,         \* what the TPM answered
    context,        \* for each port the caller's connection, if it has one
    server,         \* the thread that starts the TPM and serves commands
    platform,       \* the thread that serves the platform port
    listening,      \* the ports that are open
    backlog,        \* for each port the connections that no one accepted yet
    serving,        \* for each port the connection that is served
    sent,           \* what was sent over a connection and not yet read
    power,          \* s_isPowerOn
    started,        \* TPM2_Startup was done since the last _TPM_Init
    failed,         \* g_inFailureMode
    nvAvailable,    \* s_NvIsAvailable
    nvOpen,         \* s_NvFile is open
    nv,             \* s_NV, the copy of NV in memory
    needsManufacture,  \* s_NeedsManufacture
    nvFile,         \* the file NVChip: all that survives the process
    launches, setups, calls,    \* counters, for the bounds
    ready,          \* history: setup found both ports open and NV manufactured
    exited,         \* history: the last process ended by exit(-1)
    overwritten     \* history: setup lost a connection that was open

callerVars == <<caller, waiting, context>>
threadVars == <<server, platform>>
socketVars == <<listening, backlog, serving, sent>>
powerVars == <<power, started, failed>>
nvVars == <<nvAvailable, nvOpen, nv, needsManufacture, nvFile>>
countVars == <<launches, setups, calls>>
historyVars == <<ready, exited, overwritten>>
vars == <<callerVars, answer, threadVars, socketVars, powerVars, nvVars, countVars, historyVars>>

Port == {"platform", "command"}
Connection == 1 .. 2 * MaxSetups
NoConnection == 0
NvContent == {"none", "blank", "manufactured"}
Signal == {"PowerOff", "PowerOn", "NvOn"}
Message == Signal \cup {"Startup", "Command"}
PortOf(message) == IF message \in Signal THEN "platform" ELSE "command"

\* Connections are numbered as they are made.
Made == { c \in Connection : sent[c] # "unmade" }

-----------------------------------------------------------------------------
(* The process. *)

\* All of it but the NV file, as in a process that has not started.
NoProcess ==
    /\ waiting' = FALSE /\ answer' = "none"
    /\ context' = [p \in Port |-> NoConnection]
    /\ server' = "none" /\ platform' = "none"
    /\ listening' = {}
    /\ backlog' = [p \in Port |-> <<>>]
    /\ serving' = [p \in Port |-> NoConnection]
    /\ sent' = [c \in Connection |-> "unmade"]
    /\ power' = FALSE /\ started' = FALSE /\ failed' = FALSE
    /\ nvAvailable' = FALSE /\ nvOpen' = FALSE /\ nv' = "none" /\ needsManufacture' = FALSE
    /\ setups' = 0 /\ calls' = 0

Die ==
    /\ caller' = "dead"
    /\ NoProcess
    /\ UNCHANGED launches

Launch ==
    /\ caller = "dead"
    /\ launches < MaxLaunches
    /\ caller' = "launched"
    /\ launches' = launches + 1
    /\ ready' = FALSE /\ exited' = FALSE /\ overwritten' = FALSE
    /\ UNCHANGED <<waiting, context, answer, threadVars, socketVars, powerVars, nvVars, setups, calls>>

Kill ==
    /\ caller # "dead"
    /\ Die
    /\ UNCHANGED <<nvFile, historyVars>>

\* handle_TPM_error with CRITICAL.
Exit ==
    /\ Die
    /\ exited' = TRUE
    /\ UNCHANGED <<nvFile, ready, overwritten>>

-----------------------------------------------------------------------------
(* The JNI caller. *)

InitiateTPM ==
    /\ caller = "launched"
    /\ caller' = "sleeping"
    /\ server' = "enableNv"
    /\ UNCHANGED <<waiting, context, answer, platform, socketVars, powerVars, nvVars, countVars, historyVars>>

\* 250 ms are over, however far the TPM came in them.
WakeUp ==
    /\ caller = "sleeping"
    /\ caller' = "idle"
    /\ UNCHANGED <<waiting, context, answer, threadVars, socketVars, powerVars, nvVars, countVars, historyVars>>

\* TSS_Create: the pointer to the old context is overwritten.
Setup ==
    /\ caller = "idle"
    /\ setups < MaxSetups
    /\ Reopens \/ context["command"] = NoConnection
    /\ setups' = setups + 1
    /\ caller' = "PowerOff"
    /\ context' = [p \in Port |-> NoConnection]
    /\ ready' = (listening = Port /\ nvFile = "manufactured")
    /\ overwritten' = (overwritten \/ context["command"] # NoConnection)
    /\ UNCHANGED <<waiting, answer, threadVars, socketVars, powerVars, nvVars, launches, calls, exited>>

\* Any call after setup, as one command of it.
Call ==
    /\ caller = "idle"
    /\ calls < MaxCalls
    /\ context["command"] # NoConnection
    /\ calls' = calls + 1
    /\ caller' = "Command"
    /\ UNCHANGED <<waiting, context, answer, threadVars, socketVars, powerVars, nvVars, launches, setups, historyVars>>

\* Mutant of EndSession: the context is dropped and its session goes on.
EndSessionDrops(p) ==
    /\ context' = [context EXCEPT ![p] = NoConnection]
    /\ UNCHANGED sent

\* TSS_Delete.
EndSession(p) ==
    /\ sent' = [sent EXCEPT ![context[p]] = "SessionEnd"]
    /\ context' = [context EXCEPT ![p] = NoConnection]

FinalizeContext ==
    /\ caller = "idle"
    /\ context["command"] # NoConnection
    /\ EndSession("command")
    /\ UNCHANGED <<caller, waiting, answer, threadVars, listening, backlog, serving, powerVars, nvVars,
                   countVars, historyVars>>

\* The first transmission of a context connects it, which succeeds as soon as
\* the port is open, even if no one is going to accept the connection.
Connect(p) ==
    LET c == Cardinality(Made) + 1 IN
    /\ context[p] = NoConnection
    /\ p \in listening
    /\ sent' = [sent EXCEPT ![c] = caller]
    /\ backlog' = [backlog EXCEPT ![p] = Append(@, c)]
    /\ context' = [context EXCEPT ![p] = c]

Transmit(p) ==
    /\ context[p] # NoConnection
    /\ sent' = [sent EXCEPT ![context[p]] = caller]
    /\ UNCHANGED <<backlog, context>>

Send ==
    /\ caller \in Message
    /\ ~ waiting
    /\ Connect(PortOf(caller)) \/ Transmit(PortOf(caller))
    /\ waiting' = TRUE
    /\ UNCHANGED <<caller, answer, threadVars, listening, serving, powerVars, nvVars, countVars, historyVars>>

\* All that a command connects for is critical: a Call has its connection.
ConnectFails ==
    /\ caller \in Message
    /\ ~ waiting
    /\ context[PortOf(caller)] = NoConnection
    /\ PortOf(caller) \notin listening
    /\ Exit

\* Mutant of NextMessage: the TPM is not powered on again.
NextMessageSkipsPowerOn(message) ==
    CASE message = "PowerOff" -> "NvOn"
      [] message = "PowerOn" -> "NvOn"
      [] message = "NvOn" -> "Startup"
      [] message = "Startup" -> "Command"
      [] OTHER -> "idle"

\* setup goes on with commands for the EK.
NextMessage(message) ==
    CASE message = "PowerOff" -> "PowerOn"
      [] message = "PowerOn" -> "NvOn"
      [] message = "NvOn" -> "Startup"
      [] message = "Startup" -> "Command"
      [] OTHER -> "idle"

\* After the last signal the context of the platform port is deleted.
Receive ==
    /\ waiting
    /\ answer # "none"
    /\ \/ /\ answer = "ok" \/ caller = "Command"
          /\ caller' = NextMessage(caller)
          /\ waiting' = FALSE
          /\ answer' = "none"
          /\ IF caller = "NvOn" THEN EndSession("platform") ELSE UNCHANGED <<sent, context>>
          /\ UNCHANGED <<threadVars, listening, backlog, serving, powerVars, nvVars, countVars, historyVars>>
       \/ /\ answer # "ok" /\ caller # "Command"
          /\ Exit

-----------------------------------------------------------------------------
(* NV and power. *)

\* Mutant of NVEnable: a file that is there is made anew.
NVEnableClears ==
    /\ nvOpen' = TRUE
    /\ nvFile' = "blank"
    /\ nv' = "blank"
    /\ needsManufacture' = (nvFile = "none")

\* A file that is missing, or of the wrong size, is written as erased NV.
NVEnable ==
    /\ nvOpen' = TRUE
    /\ nvFile' = IF nvFile = "none" THEN "blank" ELSE nvFile
    /\ nv' = nvFile'
    /\ needsManufacture' = (nvFile = "none")

\* Power on leads to _TPM_Init, which opens the file again and reads it.
SignalPowerOn ==
    IF power
    THEN UNCHANGED <<powerVars, nvOpen, nv, nvFile, needsManufacture>>
    ELSE /\ power' = TRUE
         /\ started' = FALSE
         /\ failed' = FALSE
         /\ IF nvOpen THEN UNCHANGED <<nvOpen, nv, nvFile, needsManufacture>> ELSE NVEnable

SignalPowerOff ==
    /\ power' = FALSE
    /\ nvOpen' = (nvOpen /\ ~ power)
    /\ UNCHANGED <<started, failed, nv, nvFile, needsManufacture>>

SignalNvOn == nvAvailable' = (nvAvailable \/ power)

-----------------------------------------------------------------------------
(* startInternalTPM. *)

ServerStep(from, to) ==
    /\ server = from
    /\ server' = to
    /\ UNCHANGED <<callerVars, answer, backlog, sent, countVars, historyVars>>

EnableNv ==
    /\ ServerStep("enableNv", IF nvFile = "none" THEN "manufacture" ELSE "disableNv")
    /\ NVEnable
    /\ UNCHANGED <<platform, listening, serving, powerVars, nvAvailable>>

\* TPM_Manufacture, once more for the "coverage test": each writes the whole file.
Manufacture ==
    /\ ServerStep("manufacture", "disableNv")
    /\ nv' = "manufactured"
    /\ nvFile' = "manufactured"
    /\ UNCHANGED <<platform, listening, serving, powerVars, nvAvailable, nvOpen, needsManufacture>>

\* The file is emptied before exit(1), that the next start tries again.
ManufactureFails ==
    /\ server = "manufacture"
    /\ nvFile' = "none"
    /\ Die
    /\ UNCHANGED historyVars

DisableNv ==
    /\ ServerStep("disableNv", "powerOn")
    /\ nvOpen' = FALSE
    /\ UNCHANGED <<platform, listening, serving, powerVars, nvAvailable, nv, nvFile, needsManufacture>>

StartPowerOn ==
    /\ ServerStep("powerOn", "nvOn")
    /\ SignalPowerOn
    /\ UNCHANGED <<platform, listening, serving, nvAvailable>>

StartNvOn ==
    /\ ServerStep("nvOn", "spawn")
    /\ SignalNvOn
    /\ UNCHANGED <<platform, listening, serving, powerVars, nvOpen, nv, nvFile, needsManufacture>>

\* The platform's thread opens its port in its own time.
Spawn ==
    /\ ServerStep("spawn", "bind")
    /\ platform' = "bind"
    /\ UNCHANGED <<listening, serving, powerVars, nvVars>>

Bind ==
    /\ ServerStep("bind", "accept")
    /\ listening' = listening \cup {"command"}
    /\ UNCHANGED <<platform, serving, powerVars, nvVars>>

-----------------------------------------------------------------------------
(* The two services. *)

Accept(p) ==
    /\ backlog[p] # <<>>
    /\ serving' = [serving EXCEPT ![p] = Head(backlog[p])]
    /\ backlog' = [backlog EXCEPT ![p] = Tail(@)]
    /\ UNCHANGED <<callerVars, answer, listening, sent, powerVars, nvVars, countVars, historyVars>>

\* The service reads what the client sent.
Reads(p, message) ==
    /\ serving[p] # NoConnection
    /\ sent[serving[p]] = message
    /\ sent' = [sent EXCEPT ![serving[p]] = "nothing"]
    /\ UNCHANGED <<callerVars, listening, backlog, countVars, historyVars>>

Close(p) ==
    /\ Reads(p, "SessionEnd")
    /\ serving' = [serving EXCEPT ![p] = NoConnection]
    /\ UNCHANGED <<answer, powerVars, nvVars>>

PlatformBind ==
    /\ platform = "bind"
    /\ platform' = "accept"
    /\ listening' = listening \cup {"platform"}
    /\ UNCHANGED <<callerVars, answer, server, backlog, serving, sent, powerVars, nvVars, countVars, historyVars>>

PlatformAccept ==
    /\ platform = "accept"
    /\ platform' = "serve"
    /\ Accept("platform")
    /\ UNCHANGED server

\* Mutant of PlatformClose: the service does not notice that its client is gone.
PlatformCloseMisses ==
    /\ platform = "serve"
    /\ Reads("platform", "SessionEnd")
    /\ UNCHANGED <<answer, serving, threadVars, powerVars, nvVars>>

PlatformClose ==
    /\ platform = "serve"
    /\ platform' = "accept"
    /\ Close("platform")
    /\ UNCHANGED server

PlatformServe ==
    /\ platform = "serve"
    /\ answer' = "ok"
    /\ \/ Reads("platform", "PowerOff") /\ SignalPowerOff /\ UNCHANGED nvAvailable
       \/ Reads("platform", "PowerOn") /\ SignalPowerOn /\ UNCHANGED nvAvailable
       \/ /\ Reads("platform", "NvOn")
          /\ SignalNvOn
          /\ UNCHANGED <<powerVars, nvOpen, nv, nvFile, needsManufacture>>
    /\ UNCHANGED <<threadVars, serving>>

CommandAccept ==
    /\ server = "accept"
    /\ server' = "serve"
    /\ Accept("command")
    /\ UNCHANGED platform

CommandClose ==
    /\ server = "serve"
    /\ server' = "accept"
    /\ Close("command")
    /\ UNCHANGED platform

\* Erased NV has a totalResetCount of all ones, which TPM2_Startup cannot count on.
TpmStartup ==
    IF started \/ failed \/ ~ nvAvailable \/ ~ nvOpen
    THEN answer' = "error" /\ UNCHANGED powerVars
    ELSE IF nv = "manufactured"
    THEN answer' = "ok" /\ started' = TRUE /\ UNCHANGED <<power, failed>>
    ELSE answer' = "error" /\ failed' = TRUE /\ UNCHANGED <<power, started>>

\* The response is empty without power.
CommandServe ==
    /\ server = "serve"
    /\ \/ /\ Reads("command", "Startup")
          /\ IF power THEN TpmStartup ELSE answer' = "empty" /\ UNCHANGED powerVars
       \/ /\ Reads("command", "Command")
          /\ answer' = IF ~ power THEN "empty" ELSE IF started /\ ~ failed THEN "ok" ELSE "error"
          /\ UNCHANGED powerVars
    /\ UNCHANGED <<threadVars, serving, nvVars>>

-----------------------------------------------------------------------------
Init ==
    /\ caller = "dead" /\ waiting = FALSE /\ answer = "none"
    /\ context = [p \in Port |-> NoConnection]
    /\ server = "none" /\ platform = "none"
    /\ listening = {}
    /\ backlog = [p \in Port |-> <<>>]
    /\ serving = [p \in Port |-> NoConnection]
    /\ sent = [c \in Connection |-> "unmade"]
    /\ power = FALSE /\ started = FALSE /\ failed = FALSE
    /\ nvAvailable = FALSE /\ nvOpen = FALSE /\ nv = "none" /\ needsManufacture = FALSE
    /\ nvFile = "none"
    /\ launches = 0 /\ setups = 0 /\ calls = 0
    /\ ready = FALSE /\ exited = FALSE /\ overwritten = FALSE

CallerNext == Send \/ ConnectFails \/ Receive
ServerNext ==
    \/ EnableNv \/ Manufacture \/ ManufactureFails \/ DisableNv \/ StartPowerOn \/ StartNvOn \/ Spawn
    \/ Bind \/ CommandAccept \/ CommandClose \/ CommandServe
PlatformNext == PlatformBind \/ PlatformAccept \/ PlatformClose \/ PlatformServe
ApplicationNext == Launch \/ InitiateTPM \/ WakeUp \/ Setup \/ Call \/ FinalizeContext

Next == ApplicationNext \/ CallerNext \/ ServerNext \/ PlatformNext \/ Kill

Spec == Init /\ [][Next]_vars

\* The three threads are scheduled; nobody has to start a process or a call.
FairSpec ==
    /\ Spec
    /\ WF_vars(CallerNext)
    /\ WF_vars(ServerNext)
    /\ WF_vars(PlatformNext)

-----------------------------------------------------------------------------
(* Properties. *)

InCall == caller \in Message

\* A setup that finds both ports open and the TPM manufactured never ends the
\* process, whichever way the two services take turns: TPM2_Startup meets a TPM
\* with power, with NV, that nobody started since.
ReadySetupSucceeds == ~ (exited /\ ready)

\* Once manufactured, NV stays so, over kills, restarts and power cycles.
NvIsNeverLost == [][nvFile = "manufactured" => nvFile' = "manufactured"]_vars

\* The connections at a port that the service did not close yet.
InLine(p) == ({serving[p]} \ {NoConnection}) \cup { backlog[p][i] : i \in DOMAIN backlog[p] }

\* While a call waits for its answer, its connection is at the port, its message has not
\* been read, the client of every other connection there has ended it, and the thread of the
\* port accepts or serves: nothing keeps the call from its turn, unless setup lost a
\* connection that was open.
NothingBlocksCall ==
    waiting /\ answer = "none" /\ ~ overwritten =>
        LET p == PortOf(caller)
            thread == IF p = "platform" THEN platform ELSE server
        IN  /\ context[p] \in InLine(p) /\ sent[context[p]] = caller
            /\ \A c \in InLine(p) \ {context[p]} : sent[c] = "SessionEnd"
            /\ thread = IF serving[p] = NoConnection THEN "accept" ELSE "serve"

\* Every call returns, or the process ends, unless setup was called while the
\* connection of an earlier one was open: nothing else can make a call hang.
HangsOnlyBehindLeak == InCall /\ ~ overwritten ~> ~ InCall \/ overwritten

\* The same without the exception: every call returns, or the process ends.
CallReturns == InCall ~> ~ InCall

\* A TPM that goes on past manufacturing has been manufactured.
ManufactureIsNotSkipped == server \in {"disableNv", "powerOn", "nvOn"} => nv = "manufactured"
=============================================================================

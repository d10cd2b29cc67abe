-------------------------- MODULE Simulator_proofs --------------------------
(***************************************************************************)
(* The process of the application and the software TPM inside it: for any  *)
(* number of processes, setups and commands, and whichever way the threads *)
(* take turns.                                                             *)
(***************************************************************************)
EXTENDS Simulator, FiniteSetTheorems, TLAPS

-----------------------------------------------------------------------------
(* The inductive invariant.                                                *)

\* Where the thread that starts the TPM is before the platform's thread exists.
EarlyServer == {"none", "enableNv", "manufacture", "disableNv", "powerOn", "nvOn", "spawn"}
LateServer == {"bind", "accept", "serve"}

\* Nobody serves a port before the TPM is started.
ThreadsFit ==
    /\ server \in EarlyServer \cup LateServer
    /\ caller \in {"dead", "launched"} => server = "none"
    /\ server \in EarlyServer => platform = "none" /\ listening = {}

\* NV in memory is that of the file while the file is open, which it is with
\* power on; what the thread finds to manufacture was never manufactured.
NvFits ==
    /\ nvOpen => nv = nvFile
    /\ server = "manufacture" => nvFile # "manufactured"
    /\ server \in {"none", "enableNv", "manufacture", "disableNv", "powerOn"} => ~ power
    /\ server = "powerOn" => ~ nvOpen
    /\ server = "nvOn" => power
    /\ server \in {"nvOn", "spawn"} \cup LateServer => (nvOpen <=> power)
    /\ server \in {"spawn"} \cup LateServer => nvAvailable

\* What was sent and not yet read is what the caller waits for.
CallerFits ==
    /\ answer # "none" => waiting
    /\ waiting => caller \in Message
    /\ \A c \in DOMAIN sent : sent[c] \in Message =>
          waiting /\ answer = "none" /\ sent[c] = caller /\ c = context[PortOf(caller)]
    /\ exited => caller = "dead"

\* The connections that were made are the first ones, and each setup makes two at
\* most: there is one left for whoever connects.
RoomFits ==
    /\ Cardinality(Made) \in Nat /\ Made = 1 .. Cardinality(Made)
    /\ setups \in Nat /\ setups <= MaxSetups
    /\ Cardinality(Made) <= 2 * setups
    /\ caller \in Signal => Cardinality(Made) + 1 <= 2 * setups /\ context["command"] = NoConnection
    /\ caller = "PowerOff" /\ context["platform"] = NoConnection => Cardinality(Made) + 2 <= 2 * setups
    /\ caller \in {"PowerOn", "NvOn"} => context["platform"] # NoConnection
    /\ caller = "Startup" /\ context["command"] = NoConnection => Cardinality(Made) + 1 <= 2 * setups
    /\ caller = "Command" => context["command"] # NoConnection
    /\ waiting => caller \in Message /\ context[PortOf(caller)] # NoConnection

\* The caller, the services and those that wait for them have connections, the
\* caller ones that it made.
ConnectionsFit ==
    /\ DOMAIN sent = Connection
    /\ context \in [Port -> Connection \cup {NoConnection}]
    /\ \A p \in Port : context[p] = NoConnection \/ context[p] \in Made
    /\ serving \in [Port -> Connection \cup {NoConnection}]
    /\ backlog \in [Port -> Seq(Connection)]

\* TPM2_Startup will succeed.
Powered == power /\ nvOpen /\ ~ started /\ ~ failed

\* How far the power cycle of a setup is that found everything in its place.
ReadyFits ==
    ready /\ caller # "dead" =>
        /\ caller \in Message \cup {"idle"}
        /\ listening = Port
        /\ nvFile = "manufactured"
        /\ caller = "PowerOff" => answer = "none" \/ (answer = "ok" /\ ~ power)
        /\ caller = "PowerOn" => (answer = "none" /\ ~ power) \/ (answer = "ok" /\ Powered)
        /\ caller = "NvOn" => answer \in {"none", "ok"} /\ Powered
        /\ caller = "Startup" => (answer = "none" /\ Powered) \/ answer = "ok"

\* The thread of a port, and the connections that it did not accept yet.
ThreadOf(p) == IF p = "platform" THEN platform ELSE server
Queued(p) == { backlog[p][i] : i \in 1 .. Len(backlog[p]) }

\* A connection is in one place at one port.  What the caller is connected to is there,
\* and all else that is there is ended, unless setup lost a connection.
LineFits(p) ==
    /\ serving[p] \notin Queued(p)
    /\ \A i, j \in 1 .. Len(backlog[p]) : backlog[p][i] = backlog[p][j] => i = j
    /\ InLine(p) \subseteq Made
    /\ p \notin listening => context[p] = NoConnection /\ InLine(p) = {}
    /\ p \in listening => ThreadOf(p) = IF serving[p] = NoConnection THEN "accept" ELSE "serve"
    /\ context[p] # NoConnection => context[p] \in InLine(p) /\ sent[context[p]] # "SessionEnd"
    /\ ~ overwritten => \A c \in InLine(p) : c = context[p] \/ sent[c] = "SessionEnd"

LinesApart == InLine("platform") \cap InLine("command") = {}

\* The platform's context lives as long as the power cycle, and what the caller waits for
\* is what it sent last.
CallerConnected ==
    /\ caller \notin Signal => context["platform"] = NoConnection
    /\ waiting /\ answer = "none" => sent[context[PortOf(caller)]] = caller

LinesInv == (\A p \in Port : LineFits(p)) /\ LinesApart /\ CallerConnected

SocketsInv == RoomFits /\ ConnectionsFit
ControlInv == ThreadsFit /\ NvFits /\ CallerFits /\ ReadyFits /\ ReadySetupSucceeds
SimulatorInv == SocketsInv /\ ControlInv

-----------------------------------------------------------------------------
(* The connections.                                                        *)

\* A step that makes no connection leaves the room as it was, unless the caller goes on.
LEMMA SocketsStay ==
    ASSUME SocketsInv, Made' = Made, DOMAIN sent' = Connection, UNCHANGED <<caller, waiting, context, setups>>,
           serving' \in [Port -> Connection \cup {NoConnection}], backlog' \in [Port -> Seq(Connection)]
    PROVE  SocketsInv'
  BY DEF SocketsInv, RoomFits, ConnectionsFit

\* A message over a connection that was made makes none.
LEMMA MadeStays ==
    ASSUME NEW c \in Made, NEW message, message # "unmade", sent' = [sent EXCEPT ![c] = message]
    PROVE  Made' = Made /\ DOMAIN sent' = DOMAIN sent
  BY DEF Made

LEMMA DeathClosesAll == ASSUME Die PROVE SocketsInv'
<1>1. Made' = {} /\ DOMAIN sent' = Connection
  BY DEF Die, NoProcess, Made
<1>2. Cardinality({}) = 0
  BY FS_EmptySet
<1>3. Cardinality(Made') = 0 /\ 1 .. 0 = {}
  BY <1>1, <1>2
<1>4. RoomFits'
  BY <1>1, <1>3, SimulatorAssumption DEF RoomFits, Die, NoProcess, Signal
<1>5. ConnectionsFit'
  BY <1>1 DEF ConnectionsFit, Die, NoProcess
<1> QED  BY <1>4, <1>5 DEF SocketsInv

\* The next connection is the first that was not made.
LEMMA ConnectFits ==
    ASSUME SocketsInv, Send, Connect(PortOf(caller))
    PROVE  SocketsInv'
<1> DEFINE made == Cardinality(Made)
           p == PortOf(caller)
<1>1. /\ made \in Nat /\ Made = 1 .. made /\ setups \in Nat /\ setups <= MaxSetups
      /\ DOMAIN sent = Connection /\ MaxSetups \in Nat
      /\ p \in Port /\ context[p] = NoConnection
      /\ UNCHANGED <<caller, serving, setups>>
      /\ caller # "unmade"
  BY SimulatorAssumption DEF SocketsInv, RoomFits, ConnectionsFit, Send, Connect, PortOf, Port, Message, Signal, countVars
<1>2. made + 1 <= 2 * setups /\ (p = "platform" => caller = "PowerOff" /\ made + 2 <= 2 * setups)
  BY <1>1 DEF SocketsInv, RoomFits, Send, PortOf, Message, Signal
<1>3. made + 1 \in Connection
  BY <1>1, <1>2 DEF Connection
<1>4. /\ sent' = [sent EXCEPT ![made + 1] = caller]
      /\ backlog' = [backlog EXCEPT ![p] = Append(@, made + 1)]
      /\ context' = [context EXCEPT ![p] = made + 1]
  BY DEF Connect
<1>5. DOMAIN sent' = Connection /\ Made' = Made \cup {made + 1}
  BY <1>1, <1>3, <1>4 DEF Made
<1>6. Made' = 1 .. (made + 1)
  BY <1>1, <1>5
<1>7. Cardinality(1 .. (made + 1)) = made + 1
  BY <1>1, FS_Interval
<1>8. Cardinality(Made') = made + 1
  BY <1>6, <1>7
<1> HIDE DEF made
<1>9. context \in [Port -> Connection \cup {NoConnection}] /\ backlog \in [Port -> Seq(Connection)]
  BY DEF SocketsInv, ConnectionsFit
<1>10. RoomFits'
  <2>1. context'[p] # NoConnection /\ \A q \in Port : q # p => context'[q] = context[q]
    BY <1>1, <1>4, <1>9 DEF NoConnection
  <2>2. caller \in Message
    BY DEF Send
  <2> QED  BY <1>1, <1>2, <1>6, <1>8, <2>1, <2>2 DEF SocketsInv, RoomFits, Message, Signal, Port, PortOf, NoConnection
<1>11. ConnectionsFit'
  <2>1. backlog' \in [Port -> Seq(Connection)]
    BY <1>1, <1>3, <1>4, <1>9
  <2> QED  BY <1>1, <1>3, <1>4, <1>5, <1>9, <2>1 DEF SocketsInv, ConnectionsFit, NoConnection
<1> QED  BY <1>10, <1>11 DEF SocketsInv

LEMMA SocketsStep == SocketsInv /\ [Next]_vars => SocketsInv'
<1> SUFFICES ASSUME SocketsInv, [Next]_vars PROVE SocketsInv'
  OBVIOUS
<1> USE DEF callerVars, threadVars, socketVars, countVars
<1>1. /\ DOMAIN sent = Connection
      /\ serving \in [Port -> Connection \cup {NoConnection}] /\ backlog \in [Port -> Seq(Connection)]
      /\ \A p \in Port : context[p] = NoConnection \/ context[p] \in Made
      /\ "unmade" \notin Message
  BY DEF SocketsInv, ConnectionsFit, Message, Signal
<1>2. UNCHANGED sent => Made' = Made
  BY DEF Made
<1>3. UNCHANGED <<caller, waiting, context, setups, serving, backlog, sent>> => SocketsInv'
  BY <1>1, <1>2, SocketsStay
<1>4. CASE Kill \/ ConnectFails \/ ManufactureFails \/ (Receive /\ Exit)
  BY <1>4, DeathClosesAll DEF Kill, ConnectFails, ManufactureFails, Exit
<1>5. CASE Launch \/ InitiateTPM \/ WakeUp
  BY <1>2, <1>5 DEF Launch, InitiateTPM, WakeUp, SocketsInv, RoomFits, ConnectionsFit, Message, Signal
<1>6. CASE Setup
  BY <1>2, <1>6, SimulatorAssumption DEF Setup, SocketsInv, RoomFits, ConnectionsFit, Message, Signal, Port, NoConnection
<1>7. CASE Call
  BY <1>2, <1>7 DEF Call, SocketsInv, RoomFits, ConnectionsFit, Message, Signal
<1>8. CASE FinalizeContext
  <2>1. Made' = Made /\ DOMAIN sent' = DOMAIN sent
    BY <1>1, <1>8, MadeStays DEF FinalizeContext, EndSession, Port
  <2>2. /\ caller = "idle" /\ UNCHANGED <<caller, waiting, setups, serving, backlog>>
        /\ context' = [context EXCEPT !["command"] = NoConnection]
    BY <1>8 DEF FinalizeContext, EndSession
  <2>3. RoomFits'
    BY <2>1, <2>2 DEF SocketsInv, RoomFits, Message, Signal
  <2>4. ConnectionsFit'
    BY <2>1, <2>2 DEF SocketsInv, ConnectionsFit, NoConnection
  <2> QED  BY <2>3, <2>4 DEF SocketsInv
<1>9. CASE Send /\ Transmit(PortOf(caller))
  <2>1. Made' = Made /\ DOMAIN sent' = DOMAIN sent
    BY <1>1, <1>9, MadeStays DEF Send, Transmit, Port, PortOf
  <2>2. context[PortOf(caller)] # NoConnection /\ UNCHANGED <<caller, context, serving, backlog, setups>>
    BY <1>9 DEF Send, Transmit
  <2>3. RoomFits'
    BY <1>9, <2>1, <2>2 DEF Send, SocketsInv, RoomFits
  <2>4. ConnectionsFit'
    BY <2>1, <2>2 DEF SocketsInv, ConnectionsFit
  <2> QED  BY <2>3, <2>4 DEF SocketsInv
<1>10. CASE Receive /\ ~ Exit
  <2>1. CASE caller = "NvOn"
    <3>1. context["platform"] \in Made
      BY <1>1, <2>1 DEF SocketsInv, RoomFits, Port
    <3>2. EndSession("platform") /\ caller' = "Startup" /\ waiting' = FALSE /\ UNCHANGED <<serving, backlog, setups>>
      BY <1>10, <2>1 DEF Receive, NextMessage
    <3>3. Made' = Made /\ DOMAIN sent' = DOMAIN sent
      BY <3>1, <3>2, MadeStays DEF EndSession
    <3>4. context' = [context EXCEPT !["platform"] = NoConnection]
      BY <3>2 DEF EndSession
    <3>5. RoomFits'
      BY <2>1, <3>2, <3>3, <3>4 DEF SocketsInv, RoomFits, ConnectionsFit, Signal, Port
    <3>6. ConnectionsFit'
      BY <3>2, <3>3, <3>4 DEF SocketsInv, ConnectionsFit, NoConnection
    <3> QED  BY <3>5, <3>6 DEF SocketsInv
  <2>2. CASE caller # "NvOn"
    <3>1. caller' = NextMessage(caller) /\ UNCHANGED <<sent, context, serving, backlog, setups>>
      BY <1>10, <2>2 DEF Receive
    <3>2. waiting /\ caller \in Message /\ waiting' = FALSE
      BY <1>10, <2>2 DEF Receive, SocketsInv, RoomFits
    <3>3. RoomFits'
      BY <1>2, <2>2, <3>1, <3>2 DEF NextMessage, SocketsInv, RoomFits, Message, Signal, PortOf
    <3>4. ConnectionsFit'
      BY <1>2, <3>1 DEF SocketsInv, ConnectionsFit
    <3> QED  BY <3>3, <3>4 DEF SocketsInv
  <2> QED  BY <2>1, <2>2
<1>11. ASSUME NEW p \in Port, Accept(p) PROVE SocketsInv'
  <2>1. Head(backlog[p]) \in Connection /\ Tail(backlog[p]) \in Seq(Connection)
    BY <1>1, <1>11 DEF Accept
  <2>2. /\ serving' \in [Port -> Connection \cup {NoConnection}] /\ backlog' \in [Port -> Seq(Connection)]
        /\ UNCHANGED <<caller, waiting, context, setups, sent>>
    BY <1>1, <1>11, <2>1 DEF Accept
  <2> QED  BY <1>1, <1>2, <2>2, SocketsStay
<1>12. ASSUME NEW p \in Port, NEW message, Reads(p, message), message # "unmade",
              serving' \in [Port -> Connection \cup {NoConnection}]
       PROVE  SocketsInv'
  <2>1. serving[p] \in Made
    BY <1>1, <1>12 DEF Reads, Made
  <2>2. Made' = Made /\ DOMAIN sent' = DOMAIN sent
    BY <1>12, <2>1, MadeStays DEF Reads
  <2> QED  BY <1>1, <1>12, <2>2, SocketsStay DEF Reads
<1>13. CASE PlatformAccept \/ CommandAccept
  BY <1>11, <1>13 DEF PlatformAccept, CommandAccept, Port
<1>14. CASE PlatformClose \/ CommandClose
  <2>1. ASSUME NEW p \in Port, Close(p) PROVE SocketsInv'
    BY <1>1, <1>12, <2>1 DEF Close
  <2> QED  BY <1>14, <2>1 DEF PlatformClose, CommandClose, Port
<1>15. CASE PlatformServe \/ CommandServe
  BY <1>1, <1>12, <1>15 DEF PlatformServe, CommandServe, Port
<1>16. CASE \/ EnableNv \/ Manufacture \/ DisableNv \/ StartPowerOn \/ StartNvOn \/ Spawn
            \/ Bind \/ PlatformBind
  BY <1>3, <1>16 DEF EnableNv, Manufacture, DisableNv, StartPowerOn, StartNvOn, Spawn, Bind, PlatformBind, ServerStep
<1>17. CASE UNCHANGED vars
  BY <1>3, <1>17 DEF vars
<1>18. CASE Send /\ Connect(PortOf(caller))
  BY <1>18, ConnectFits
<1> QED
  BY <1>4, <1>5, <1>6, <1>7, <1>8, <1>9, <1>10, <1>13, <1>14, <1>15, <1>16, <1>17, <1>18
  DEF Next, ApplicationNext, CallerNext, ServerNext, PlatformNext, Send

-----------------------------------------------------------------------------
(* The lines of connections at the ports.                                  *)

\* What stands in a line after one joins it.
LEMMA AppendQueues ==
    ASSUME NEW s \in Seq(Connection), NEW c \in Connection, NEW t, t = Append(s, c),
           \A i \in 1 .. Len(s) : s[i] # c,
           \A i, j \in 1 .. Len(s) : s[i] = s[j] => i = j
    PROVE  /\ { t[i] : i \in 1 .. Len(t) } = { s[i] : i \in 1 .. Len(s) } \cup {c}
           /\ \A i, j \in 1 .. Len(t) : t[i] = t[j] => i = j
<1>1. Len(s) \in Nat /\ Len(t) = Len(s) + 1
  OBVIOUS
<1>2. t[Len(s) + 1] = c /\ \A i \in 1 .. Len(s) : t[i] = s[i]
  OBVIOUS
<1>3. 1 .. Len(t) = (1 .. Len(s)) \cup {Len(s) + 1}
  BY <1>1
<1>4. { t[i] : i \in 1 .. Len(t) } = { s[i] : i \in 1 .. Len(s) } \cup {c}
  BY <1>2, <1>3
<1>5. \A i, j \in 1 .. Len(t) : t[i] = t[j] => i = j
  BY <1>2, <1>3
<1> QED  BY <1>4, <1>5

\* What stands in a line after the first one left it.
LEMMA TailQueues ==
    ASSUME NEW s \in Seq(Connection), s # <<>>, NEW t, t = Tail(s), NEW h, h = Head(s),
           \A i, j \in 1 .. Len(s) : s[i] = s[j] => i = j
    PROVE  /\ { s[i] : i \in 1 .. Len(s) } = { t[i] : i \in 1 .. Len(t) } \cup {h}
           /\ h \notin { t[i] : i \in 1 .. Len(t) }
           /\ \A i, j \in 1 .. Len(t) : t[i] = t[j] => i = j
<1>1. /\ Len(s) \in Nat /\ Len(s) > 0 /\ Len(t) = Len(s) - 1
      /\ h = s[1]
      /\ \A i \in 1 .. Len(t) : t[i] = s[i + 1]
  OBVIOUS
<1> DEFINE n == Len(s)
           m == Len(t)
<1>2. n \in Nat /\ n > 0 /\ m = n - 1
  BY <1>1
<1>3. \A i \in 1 .. m : t[i] = s[i + 1]
  BY <1>1
<1>4. \A i, j \in 1 .. n : s[i] = s[j] => i = j
  OBVIOUS
<1> HIDE DEF n, m
<1>5. \A i \in 1 .. m : i + 1 \in 1 .. n /\ i + 1 # 1
  BY <1>2
<1>6. \A k \in 1 .. n : k = 1 \/ (k - 1 \in 1 .. m /\ (k - 1) + 1 = k)
  BY <1>2
<1>7. { s[i] : i \in 1 .. n } = { t[i] : i \in 1 .. m } \cup {h}
  <2> DEFINE S == { s[i] : i \in 1 .. n }
             T == { t[i] : i \in 1 .. m }
  <2>1. \A i \in 1 .. m : t[i] \in S
    BY <1>3, <1>5
  <2>2. 1 \in 1 .. n /\ s[1] \in S
    BY <1>2
  <2>3. ASSUME NEW k \in 1 .. n PROVE s[k] \in T \cup {h}
    <3>1. CASE k = 1
      BY <1>1, <3>1
    <3>2. CASE k # 1
      <4>1. k - 1 \in 1 .. m /\ (k - 1) + 1 = k
        BY <1>6, <3>2
      <4>2. t[k - 1] = s[k] /\ t[k - 1] \in T
        BY <1>3, <4>1
      <4> QED  BY <4>2
    <3> QED  BY <3>1, <3>2
  <2>4. \A x \in S : x \in T \cup {h}
    BY <2>3
  <2>5. \A x \in T \cup {h} : x \in S
    <3>1. \A x \in T : x \in S
      BY <2>1
    <3>2. h \in S
      BY <1>1, <2>2
    <3> HIDE DEF S, T
    <3> QED  BY <3>1, <3>2
  <2> HIDE DEF S, T
  <2>6. S = T \cup {h}
    BY <2>4, <2>5
  <2> QED  BY <2>6 DEF S, T
<1>8. ASSUME NEW i \in 1 .. m, t[i] = h PROVE FALSE
  <2>1. s[i + 1] = s[1] /\ i + 1 \in 1 .. n /\ 1 \in 1 .. n
    <3>1. 1 \in 1 .. n
      BY <1>2
    <3>2. t[i] = s[i + 1] /\ i + 1 \in 1 .. n
      BY <1>3, <1>5
    <3>3. h = s[1]
      BY <1>1
    <3> QED  BY <1>8, <3>1, <3>2, <3>3
  <2>2. i + 1 = 1
    BY <1>4, <2>1
  <2> QED  BY <1>5, <2>2
<1>9. \A i, j \in 1 .. m : t[i] = t[j] => i = j
  <2> SUFFICES ASSUME NEW i \in 1 .. m, NEW j \in 1 .. m, t[i] = t[j] PROVE i = j
    OBVIOUS
  <2>1. s[i + 1] = s[j + 1] /\ i + 1 \in 1 .. n /\ j + 1 \in 1 .. n
    BY <1>3, <1>5
  <2>2. i + 1 = j + 1
    BY <1>4, <2>1
  <2> QED  BY <1>2, <2>2
<1> QED  BY <1>7, <1>8, <1>9 DEF n, m

\* The queue of a port, and what is served of its line.
LEMMA LineParts ==
    ASSUME SocketsInv, NEW p \in Port
    PROVE  /\ InLine(p) = ({serving[p]} \ {NoConnection}) \cup Queued(p)
           /\ NoConnection \notin Queued(p) /\ NoConnection \notin InLine(p)
           /\ NoConnection \notin Connection /\ Made \subseteq Connection
<1>1. backlog[p] \in Seq(Connection) /\ NoConnection \notin Connection /\ Made \subseteq Connection
  BY DEF SocketsInv, ConnectionsFit, Connection, NoConnection, Made
<1>2. DOMAIN backlog[p] = 1 .. Len(backlog[p]) /\ \A i \in 1 .. Len(backlog[p]) : backlog[p][i] \in Connection
  BY <1>1
<1>3. InLine(p) = ({serving[p]} \ {NoConnection}) \cup Queued(p)
  BY <1>2 DEF InLine, Queued
<1>4. NoConnection \notin Queued(p)
  BY <1>1, <1>2 DEF Queued
<1> QED  BY <1>1, <1>3, <1>4

\* A step that changes neither line leaves it as it was.
LEMMA LineStays ==
    ASSUME NEW p \in Port, serving'[p] = serving[p], backlog'[p] = backlog[p]
    PROVE  InLine(p)' = InLine(p) /\ Queued(p)' = Queued(p)
  BY DEF InLine, Queued

\* A line to which nothing happens, but that the caller and its service exchange messages.
LEMMA LineKept ==
    ASSUME NEW p \in Port, LineFits(p), Made \subseteq Made', overwritten => overwritten',
           serving'[p] = serving[p], backlog'[p] = backlog[p], context'[p] = context[p],
           p \in listening' <=> p \in listening,
           p \in listening => ThreadOf(p)' = ThreadOf(p),
           \A c \in InLine(p) : sent'[c] = sent[c] \/ (c = context[p] /\ sent'[c] # "SessionEnd")
    PROVE  LineFits(p)' /\ InLine(p)' = InLine(p)
<1>1. InLine(p)' = InLine(p) /\ Queued(p)' = Queued(p)
  BY LineStays
<1>2. serving'[p] \notin Queued(p)' /\ \A i, j \in 1 .. Len(backlog'[p]) : backlog'[p][i] = backlog'[p][j] => i = j
  BY <1>1 DEF LineFits
<1>3. /\ InLine(p)' \subseteq Made'
      /\ p \notin listening' => context'[p] = NoConnection /\ InLine(p)' = {}
  BY <1>1 DEF LineFits
<1>4. p \in listening' => ThreadOf(p)' = IF serving'[p] = NoConnection THEN "accept" ELSE "serve"
  BY DEF LineFits
<1>5. context'[p] # NoConnection => context'[p] \in InLine(p)' /\ sent'[context'[p]] # "SessionEnd"
  BY <1>1 DEF LineFits
<1>6. ~ overwritten' => \A c \in InLine(p)' : c = context'[p] \/ sent'[c] = "SessionEnd"
  BY <1>1 DEF LineFits
<1> QED  BY <1>1, <1>2, <1>3, <1>4, <1>5, <1>6 DEF LineFits

\* A step of one port leaves the line of the other as it was.
LEMMA OnePort ==
    ASSUME NEW p \in Port, LinesInv, LineFits(p)', Made \subseteq Made', overwritten' = overwritten,
           \A q \in Port \ {p} :
              /\ serving'[q] = serving[q] /\ backlog'[q] = backlog[q] /\ context'[q] = context[q]
              /\ ThreadOf(q)' = ThreadOf(q) /\ (q \in listening' <=> q \in listening)
              /\ \A c \in InLine(q) : sent'[c] = sent[c] /\ c \notin InLine(p)'
    PROVE  (\A q \in Port : LineFits(q)') /\ LinesApart'
<1>1. ASSUME NEW q \in Port \ {p} PROVE LineFits(q)' /\ InLine(q)' = InLine(q) /\ InLine(q) \cap InLine(p)' = {}
  <2>1. LineFits(q)
    BY <1>1 DEF LinesInv
  <2>2. LineFits(q)' /\ InLine(q)' = InLine(q)
    BY <1>1, <2>1, LineKept
  <2> QED  BY <1>1, <2>2
<1>2. \A q \in Port : LineFits(q)'
  BY <1>1
<1>3. LinesApart'
  <2>1. CASE p = "platform"
    BY <1>1, <2>1 DEF LinesApart, Port
  <2>2. CASE p = "command"
    BY <1>1, <2>2 DEF LinesApart, Port
  <2> QED  BY <2>1, <2>2 DEF Port
<1> QED  BY <1>2, <1>3

\* A step that leaves both lines alone.
LEMMA LinesKept ==
    ASSUME LinesInv, UNCHANGED <<serving, backlog, context, sent, listening, overwritten>>,
           \A p \in listening : ThreadOf(p)' = ThreadOf(p),
           caller \in Signal /\ caller' \notin Signal => context["platform"] = NoConnection,
           waiting' /\ answer' = "none" => waiting /\ answer = "none" /\ caller' = caller
    PROVE  LinesInv'
<1>1. Made' = Made
  BY DEF Made
<1>2. ASSUME NEW p \in Port PROVE LineFits(p)' /\ InLine(p)' = InLine(p)
  <2>1. LineFits(p)
    BY DEF LinesInv
  <2> QED  BY <1>1, <2>1, LineKept
<1>3. LinesApart'
  BY <1>2 DEF LinesInv, LinesApart, Port
<1>4. CallerConnected'
  BY DEF LinesInv, CallerConnected
<1> QED  BY <1>2, <1>3, <1>4 DEF LinesInv

\* A process that dies has no lines.
LEMMA DeathEmptiesLines == ASSUME Die PROVE LinesInv'
<1>1. \A p \in Port : /\ serving'[p] = NoConnection /\ backlog'[p] = <<>> /\ context'[p] = NoConnection
                      /\ p \notin listening'
  BY DEF Die, NoProcess
<1>2. \A p \in Port : InLine(p)' = {} /\ Queued(p)' = {}
  BY <1>1 DEF InLine, Queued
<1>3. \A p \in Port : LineFits(p)'
  BY <1>1, <1>2 DEF LineFits
<1>4. CallerConnected'
  BY <1>1 DEF Die, NoProcess, CallerConnected, Port
<1> QED  BY <1>2, <1>3, <1>4 DEF LinesInv, LinesApart, Port

\* The first connection of a line is accepted: the line is as it was.
LEMMA AcceptKeepsLine ==
    ASSUME SocketsInv, NEW p \in Port, LineFits(p), Accept(p), p \in listening, UNCHANGED overwritten,
           ThreadOf(p) = "accept", ThreadOf(p)' = "serve"
    PROVE  LineFits(p)' /\ InLine(p)' = InLine(p)
<1>1. /\ serving \in [Port -> Connection \cup {NoConnection}] /\ backlog \in [Port -> Seq(Connection)]
      /\ serving[p] = NoConnection
  BY DEF SocketsInv, ConnectionsFit, LineFits
<1>2. /\ backlog[p] \in Seq(Connection) /\ backlog[p] # <<>>
      /\ serving'[p] = Head(backlog[p]) /\ backlog'[p] = Tail(backlog[p])
      /\ UNCHANGED <<sent, context, listening>>
  BY <1>1 DEF Accept, callerVars
<1>3. \A i, j \in 1 .. Len(backlog[p]) : backlog[p][i] = backlog[p][j] => i = j
  BY DEF LineFits
<1>4. /\ Queued(p) = Queued(p)' \cup {serving'[p]} /\ serving'[p] \notin Queued(p)'
      /\ \A i, j \in 1 .. Len(backlog'[p]) : backlog'[p][i] = backlog'[p][j] => i = j
  BY <1>2, <1>3, TailQueues DEF Queued
<1>5. Made' = Made
  BY <1>2 DEF Made
<1>6. InLine(p) = Queued(p) /\ NoConnection \notin Queued(p)
  BY <1>1, LineParts
<1>7. InLine(p)' = ({serving'[p]} \ {NoConnection}) \cup Queued(p)'
  <2>1. backlog'[p] \in Seq(Connection)
    BY <1>2
  <2>2. DOMAIN backlog'[p] = 1 .. Len(backlog'[p])
    BY <2>1
  <2> QED  BY <2>2 DEF InLine, Queued
<1>8. InLine(p)' = InLine(p) /\ serving'[p] # NoConnection
  BY <1>4, <1>6, <1>7
<1> QED  BY <1>2, <1>4, <1>5, <1>8 DEF LineFits

\* The service closes a connection that its client has ended.
LEMMA CloseKeepsLine ==
    ASSUME SocketsInv, NEW p \in Port, LineFits(p), Close(p), p \in listening, UNCHANGED overwritten,
           ThreadOf(p)' = "accept"
    PROVE  /\ LineFits(p)' /\ InLine(p)' \subseteq InLine(p) /\ Made' = Made
           /\ serving[p] \in InLine(p) /\ sent' = [sent EXCEPT ![serving[p]] = "nothing"]
           /\ UNCHANGED <<callerVars, listening, backlog, answer>>
<1>1. /\ serving \in [Port -> Connection \cup {NoConnection}] /\ backlog \in [Port -> Seq(Connection)]
      /\ DOMAIN sent = Connection
  BY DEF SocketsInv, ConnectionsFit
<1>2. /\ serving[p] # NoConnection /\ sent[serving[p]] = "SessionEnd"
      /\ sent' = [sent EXCEPT ![serving[p]] = "nothing"]
      /\ serving'[p] = NoConnection
      /\ UNCHANGED <<callerVars, listening, backlog, answer>>
  BY <1>1 DEF Close, Reads
<1>3. serving[p] \in Connection /\ serving[p] \in Made
  BY <1>1, <1>2 DEF Made
<1>4. Made' = Made
  BY <1>2, <1>3, MadeStays
<1>5. /\ InLine(p) = {serving[p]} \cup Queued(p) /\ NoConnection \notin Queued(p)
      /\ serving[p] \notin Queued(p)
  BY <1>2, LineParts DEF LineFits
<1>6. Queued(p)' = Queued(p) /\ InLine(p)' = Queued(p)
  <2>1. DOMAIN backlog[p] = 1 .. Len(backlog[p])
    BY <1>1
  <2> QED  BY <1>2, <2>1 DEF InLine, Queued
<1>7. \A c \in Queued(p) : sent'[c] = sent[c]
  BY <1>2, <1>5
<1>8. context[p] # NoConnection => context[p] \in Queued(p) /\ sent'[context[p]] # "SessionEnd"
  BY <1>2, <1>5, <1>7 DEF LineFits
<1>9. UNCHANGED context
  BY <1>2 DEF callerVars
<1>10. LineFits(p)'
  BY <1>2, <1>4, <1>5, <1>6, <1>7, <1>8, <1>9 DEF LineFits
<1> QED  BY <1>2, <1>4, <1>5, <1>6, <1>10

\* The caller's connection joins the line of the port: until the service comes to it, all
\* before it is ended.
LEMMA ConnectJoinsLine ==
    ASSUME SocketsInv, NEW p \in Port, LineFits(p), Connect(p),
           NEW c, c = Cardinality(Made) + 1, c \in Connection, c \notin Made,
           caller \in Message, UNCHANGED <<listening, serving, overwritten, threadVars>>
    PROVE  /\ LineFits(p)' /\ InLine(p)' = InLine(p) \cup {c} /\ Made \subseteq Made'
           /\ sent' = [sent EXCEPT ![c] = caller] /\ context'[p] = c
           /\ \A q \in Port \ {p} : backlog'[q] = backlog[q] /\ context'[q] = context[q]
<1>1. /\ serving \in [Port -> Connection \cup {NoConnection}] /\ backlog \in [Port -> Seq(Connection)]
      /\ context \in [Port -> Connection \cup {NoConnection}]
      /\ DOMAIN sent = Connection /\ Made \subseteq Connection
      /\ caller # "unmade" /\ caller # "SessionEnd" /\ c # NoConnection
  BY LineParts DEF SocketsInv, ConnectionsFit, Message, Signal
<1>2. /\ context[p] = NoConnection /\ p \in listening
      /\ sent' = [sent EXCEPT ![c] = caller]
      /\ backlog' = [backlog EXCEPT ![p] = Append(@, c)]
      /\ context' = [context EXCEPT ![p] = c]
  BY DEF Connect
<1>3. /\ backlog[p] \in Seq(Connection) /\ backlog'[p] = Append(backlog[p], c) /\ context'[p] = c
      /\ \A q \in Port \ {p} : backlog'[q] = backlog[q] /\ context'[q] = context[q]
  BY <1>1, <1>2
<1>4. InLine(p) = ({serving[p]} \ {NoConnection}) \cup Queued(p) /\ InLine(p) \subseteq Made
  BY LineParts DEF LineFits
<1>5. c \notin InLine(p) /\ serving[p] # c
  BY <1>1, <1>4
<1>6. \A i \in 1 .. Len(backlog[p]) : backlog[p][i] # c
  BY <1>4, <1>5 DEF Queued
<1>7. \A i, j \in 1 .. Len(backlog[p]) : backlog[p][i] = backlog[p][j] => i = j
  BY DEF LineFits
<1>8. /\ Queued(p)' = Queued(p) \cup {c}
      /\ \A i, j \in 1 .. Len(backlog'[p]) : backlog'[p][i] = backlog'[p][j] => i = j
  BY <1>3, <1>6, <1>7, AppendQueues DEF Queued
<1>9. InLine(p)' = InLine(p) \cup {c}
  <2>1. backlog'[p] \in Seq(Connection)
    BY <1>3
  <2>2. DOMAIN backlog'[p] = 1 .. Len(backlog'[p])
    BY <2>1
  <2>3. InLine(p)' = ({serving'[p]} \ {NoConnection}) \cup Queued(p)'
    BY <2>2 DEF InLine, Queued
  <2> QED  BY <1>4, <1>8, <2>3
<1>10. Made' = Made \cup {c}
  BY <1>1, <1>2 DEF Made
<1>11. sent'[c] = caller /\ \A d \in InLine(p) : sent'[d] = sent[d]
  BY <1>1, <1>2, <1>4, <1>5
<1>12. serving'[p] \notin Queued(p)' /\ InLine(p)' \subseteq Made'
  BY <1>4, <1>5, <1>8, <1>9, <1>10 DEF LineFits
<1>13. p \in listening' /\ ThreadOf(p)' = IF serving'[p] = NoConnection THEN "accept" ELSE "serve"
  BY <1>2 DEF LineFits, ThreadOf, threadVars
<1>14. context'[p] \in InLine(p)' /\ sent'[context'[p]] # "SessionEnd"
  BY <1>1, <1>3, <1>9, <1>11
<1>15. ~ overwritten' => \A d \in InLine(p)' : d = context'[p] \/ sent'[d] = "SessionEnd"
  <2>1. ASSUME ~ overwritten', NEW d \in InLine(p) PROVE sent'[d] = "SessionEnd"
    <3>1. d # context[p]
      BY <1>2, LineParts
    <3> QED  BY <1>11, <2>1, <3>1 DEF LineFits
  <2> QED  BY <1>3, <1>9, <2>1
<1>16. LineFits(p)'
  BY <1>8, <1>12, <1>13, <1>14, <1>15 DEF LineFits
<1> QED  BY <1>2, <1>3, <1>9, <1>10, <1>16

\* The caller ends its connection, that stays in the line until the service closes it.
LEMMA EndKeepsLine ==
    ASSUME SocketsInv, NEW p \in Port, LineFits(p), context[p] # NoConnection, EndSession(p),
           UNCHANGED <<listening, backlog, serving, overwritten, threadVars>>
    PROVE  /\ LineFits(p)' /\ InLine(p)' = InLine(p) /\ Made' = Made /\ context[p] \in InLine(p)
           /\ sent' = [sent EXCEPT ![context[p]] = "SessionEnd"] /\ context'[p] = NoConnection
           /\ \A q \in Port \ {p} : context'[q] = context[q]
<1>1. /\ context \in [Port -> Connection \cup {NoConnection}] /\ DOMAIN sent = Connection /\ context[p] \in Made
  BY DEF SocketsInv, ConnectionsFit
<1>2. /\ sent' = [sent EXCEPT ![context[p]] = "SessionEnd"] /\ context'[p] = NoConnection
      /\ \A q \in Port \ {p} : context'[q] = context[q]
      /\ context[p] \in InLine(p)
  BY <1>1 DEF EndSession, LineFits
<1>3. Made' = Made
  BY <1>1, <1>2, MadeStays
<1>4. InLine(p)' = InLine(p) /\ Queued(p)' = Queued(p)
  BY LineStays
<1>5. ~ overwritten' => \A c \in InLine(p)' : sent'[c] = "SessionEnd"
  <2>1. ASSUME ~ overwritten', NEW c \in InLine(p) PROVE sent'[c] = "SessionEnd"
    <3>1. c \in Connection /\ (c = context[p] \/ sent[c] = "SessionEnd")
      BY <2>1, LineParts DEF LineFits
    <3> QED  BY <1>1, <1>2, <3>1
  <2> QED  BY <1>4, <2>1
<1>6. p \in listening' /\ ThreadOf(p)' = ThreadOf(p)
  BY DEF LineFits, ThreadOf, threadVars
<1>7. LineFits(p)'
  BY <1>2, <1>3, <1>4, <1>5, <1>6 DEF LineFits
<1> QED  BY <1>2, <1>3, <1>4, <1>7

\* A port that is opened has no line yet.
LEMMA OpenedLine ==
    ASSUME NEW p \in Port, LineFits(p), p \notin listening, SocketsInv, ThreadOf(p)' = "accept",
           UNCHANGED <<context, backlog, serving, sent, overwritten>>
    PROVE  LineFits(p)' /\ InLine(p)' = InLine(p)
<1>1. InLine(p)' = InLine(p) /\ Queued(p)' = Queued(p) /\ Made' = Made
  BY LineStays DEF Made
<1>2. InLine(p) = {} /\ context[p] = NoConnection /\ serving[p] = NoConnection
  BY LineParts DEF LineFits
<1> QED  BY <1>1, <1>2 DEF LineFits

-----------------------------------------------------------------------------
(* The steps of the three threads.                                          *)

\* What every step needs: the invariant, and the groups of variables it leaves alone.
USE DEF ControlInv, ThreadsFit, NvFits, CallerFits, ReadyFits, ReadySetupSucceeds, Powered, EarlyServer, LateServer,
        Message, Signal, callerVars, threadVars, socketVars, powerVars, nvVars, countVars, historyVars

\* A process that dies leaves nothing but the file.
LEMMA DeathFits == ASSUME Die PROVE ThreadsFit' /\ NvFits' /\ CallerFits' /\ ReadyFits'
  BY DEF Die, NoProcess

\* A setup is ready only when both ports are open; a process that was just
\* started is not, and one that is idle waits for nothing.
LEMMA ApplicationKeeps == ASSUME ControlInv, ApplicationNext PROVE ControlInv'
<1>1. CASE Launch
  BY <1>1 DEF Launch
<1>2. CASE InitiateTPM
  BY <1>2 DEF InitiateTPM
<1>3. CASE WakeUp
  BY <1>3 DEF WakeUp
<1>4. CASE Setup
  BY <1>4 DEF Setup
<1>5. CASE Call
  BY <1>5 DEF Call
<1>6. CASE FinalizeContext
  BY <1>6 DEF FinalizeContext, EndSession
<1> QED  BY <1>1, <1>2, <1>3, <1>4, <1>5, <1>6 DEF ApplicationNext

\* The answer to a message of the power cycle says that the TPM is as the next
\* message needs it; a setup that is ready gets no other answer than "ok".
LEMMA ReceiveKeeps == ASSUME ControlInv, Receive PROVE ControlInv'
<1>1. CASE answer # "ok" /\ caller # "Command" /\ Exit
  BY <1>1, DeathFits DEF Receive, Exit
<1>2. CASE /\ answer = "ok" \/ caller = "Command"
           /\ caller' = NextMessage(caller)
           /\ waiting' = FALSE
           /\ answer' = "none"
           /\ IF caller = "NvOn" THEN EndSession("platform") ELSE UNCHANGED <<sent, context>>
           /\ UNCHANGED <<threadVars, listening, backlog, serving, powerVars, nvVars, countVars, historyVars>>
  <2>1. ThreadsFit' /\ NvFits' /\ CallerFits' /\ ReadySetupSucceeds'
    BY <1>2 DEF Receive, NextMessage, EndSession
  <2>2. ReadyFits'
    <3>1. CASE caller = "PowerOff"
      BY <1>2, <3>1 DEF Receive, NextMessage
    <3>2. CASE caller = "PowerOn"
      BY <1>2, <3>2 DEF Receive, NextMessage
    <3>3. CASE caller = "NvOn"
      BY <1>2, <3>3 DEF Receive, NextMessage
    <3>4. CASE caller = "Startup"
      BY <1>2, <3>4 DEF Receive, NextMessage
    <3>5. CASE caller = "Command"
      BY <1>2, <3>5 DEF Receive, NextMessage
    <3> QED  BY <3>1, <3>2, <3>3, <3>4, <3>5 DEF Receive
  <2> QED  BY <2>1, <2>2
<1> QED  BY <1>1, <1>2 DEF Receive

LEMMA CallerKeeps == ASSUME SocketsInv, ControlInv, CallerNext PROVE ControlInv'
<1>1. CASE Send
  BY <1>1 DEF Send, Connect, Transmit, PortOf, Port, SocketsInv, ConnectionsFit
<1>2. CASE ConnectFails
  BY <1>2, DeathFits DEF ConnectFails, Exit, PortOf, Port
<1> QED  BY <1>1, <1>2, ReceiveKeeps DEF CallerNext

\* The thread that starts the TPM: while it does, no port is open, so that no
\* setup is ready.  NV is manufactured only where NVEnable found no file.
LEMMA StartKeeps ==
    ASSUME ControlInv,
           EnableNv \/ Manufacture \/ ManufactureFails \/ DisableNv \/ StartPowerOn \/ StartNvOn \/ Spawn \/ Bind
    PROVE  ControlInv'
<1>1. CASE EnableNv
  BY <1>1 DEF EnableNv, ServerStep, NVEnable
<1>2. CASE Manufacture
  BY <1>2 DEF Manufacture, ServerStep
<1>3. CASE ManufactureFails
  BY <1>3, DeathFits DEF ManufactureFails
<1>4. CASE DisableNv
  BY <1>4 DEF DisableNv, ServerStep
<1>5. CASE StartPowerOn
  <2>1. ~ ready \/ caller = "dead"
    BY <1>5 DEF StartPowerOn, ServerStep, Port
  <2>2. /\ ThreadsFit' /\ NvFits' /\ CallerFits' /\ ReadySetupSucceeds'
        /\ ready' = ready /\ caller' = caller
    BY <1>5 DEF StartPowerOn, ServerStep, SignalPowerOn, NVEnable
  <2> QED  BY <2>1, <2>2
<1>6. CASE StartNvOn
  BY <1>6 DEF StartNvOn, ServerStep, SignalNvOn
<1>7. CASE Spawn
  BY <1>7 DEF Spawn, ServerStep
<1>8. CASE Bind
  BY <1>8 DEF Bind, ServerStep, Port
<1> QED  BY <1>1, <1>2, <1>3, <1>4, <1>5, <1>6, <1>7, <1>8

\* What a service reads is what the caller waits for, wherever it is sent.
LEMMA ReadsCallers ==
    ASSUME ControlInv, ConnectionsFit, NEW p \in Port, NEW message \in Message, Reads(p, message)
    PROVE  /\ waiting /\ answer = "none" /\ caller = message
           /\ \A c \in DOMAIN sent' : sent'[c] \notin Message
           /\ UNCHANGED <<caller, waiting, listening, ready, exited>>
<1>1. serving[p] \in DOMAIN sent
  BY DEF Reads, ConnectionsFit
<1>2. waiting /\ answer = "none" /\ caller = message
  BY <1>1 DEF Reads
<1>3. sent' = [sent EXCEPT ![serving[p]] = "nothing"] /\ \A c \in DOMAIN sent : sent[c] \in Message => c = serving[p]
  BY <1>1 DEF Reads
<1>4. \A c \in DOMAIN sent' : sent'[c] \notin Message
  BY <1>3
<1> QED  BY <1>2, <1>4 DEF Reads

\* A setup that is ready sends TPM2_Startup to a TPM that can start.
LEMMA CommandServeKeeps == ASSUME SocketsInv, ControlInv, CommandServe PROVE ControlInv'
<1>1. CASE Reads("command", "Startup") /\ IF power THEN TpmStartup ELSE answer' = "empty" /\ UNCHANGED powerVars
  <2>1. /\ waiting /\ answer = "none" /\ caller = "Startup"
        /\ \A c \in DOMAIN sent' : sent'[c] \notin Message
        /\ UNCHANGED <<caller, waiting, listening, ready, exited>>
    BY <1>1, ReadsCallers DEF SocketsInv, Port
  <2>2. power' = power /\ UNCHANGED nvVars /\ UNCHANGED threadVars
    BY <1>1 DEF CommandServe, TpmStartup
  <2>3. ThreadsFit' /\ NvFits' /\ CallerFits' /\ ReadySetupSucceeds'
    BY <2>1, <2>2
  <2>4. ASSUME ready  PROVE answer' = "ok"
    BY <1>1, <2>1, <2>4 DEF CommandServe, TpmStartup
  <2>5. ReadyFits'
    BY <2>1, <2>2, <2>4
  <2> QED  BY <2>3, <2>5
<1>2. CASE /\ Reads("command", "Command")
           /\ UNCHANGED powerVars
  <2>1. /\ waiting /\ answer = "none" /\ caller = "Command"
        /\ \A c \in DOMAIN sent' : sent'[c] \notin Message
        /\ UNCHANGED <<caller, waiting, listening, ready, exited>>
    BY <1>2, ReadsCallers DEF SocketsInv, Port
  <2>2. UNCHANGED nvVars /\ UNCHANGED threadVars
    BY DEF CommandServe
  <2>3. ThreadsFit' /\ NvFits' /\ CallerFits' /\ ReadySetupSucceeds'
    BY <1>2, <2>1, <2>2
  <2>4. ReadyFits'
    BY <1>2, <2>1, <2>2
  <2> QED  BY <2>3, <2>4
<1> QED  BY <1>1, <1>2 DEF CommandServe

LEMMA ServerKeeps == ASSUME SocketsInv, ControlInv, ServerNext PROVE ControlInv'
<1>1. CASE CommandAccept
  BY <1>1 DEF CommandAccept, Accept
<1>2. CASE CommandClose
  BY <1>2 DEF CommandClose, Close, Reads
<1> QED  BY <1>1, <1>2, StartKeeps, CommandServeKeeps DEF ServerNext

\* The signals are handled by the platform's thread, which exists only when the
\* TPM was started: with power on, the NV file is open and NV is available.
LEMMA PlatformServeKeeps == ASSUME SocketsInv, ControlInv, PlatformServe PROVE ControlInv'
<1>1. server \in LateServer /\ UNCHANGED threadVars /\ answer' = "ok"
  BY DEF PlatformServe
<1>2. CASE Reads("platform", "PowerOff") /\ SignalPowerOff /\ UNCHANGED nvAvailable
  <2>1. /\ waiting /\ answer = "none" /\ caller = "PowerOff"
        /\ \A c \in DOMAIN sent' : sent'[c] \notin Message
        /\ UNCHANGED <<caller, waiting, listening, ready, exited>>
    BY <1>2, ReadsCallers DEF SocketsInv, Port
  <2>2. ThreadsFit' /\ NvFits' /\ CallerFits' /\ ReadySetupSucceeds'
    BY <1>1, <1>2, <2>1 DEF SignalPowerOff
  <2>3. ReadyFits'
    BY <1>1, <1>2, <2>1 DEF SignalPowerOff
  <2> QED  BY <2>2, <2>3
<1>3. CASE Reads("platform", "PowerOn") /\ SignalPowerOn /\ UNCHANGED nvAvailable
  <2>1. /\ waiting /\ answer = "none" /\ caller = "PowerOn"
        /\ \A c \in DOMAIN sent' : sent'[c] \notin Message
        /\ UNCHANGED <<caller, waiting, listening, ready, exited>>
    BY <1>3, ReadsCallers DEF SocketsInv, Port
  <2>2. power' /\ nvOpen' /\ (nvOpen' => nv' = nvFile') /\ (nvFile = "manufactured" => nvFile' = nvFile)
    BY <1>1, <1>3 DEF SignalPowerOn, NVEnable
  <2>3. ThreadsFit' /\ NvFits' /\ CallerFits' /\ ReadySetupSucceeds'
    BY <1>1, <1>3, <2>1, <2>2
  <2>4. ReadyFits'
    <3>1. ASSUME ready PROVE Powered'
      BY <1>1, <1>3, <2>1, <2>2, <3>1 DEF SignalPowerOn
    <3> QED  BY <1>1, <2>1, <2>2, <3>1
  <2> QED  BY <2>3, <2>4
<1>4. CASE /\ Reads("platform", "NvOn")
           /\ SignalNvOn
           /\ UNCHANGED <<powerVars, nvOpen, nv, nvFile, needsManufacture>>
  <2>1. /\ waiting /\ answer = "none" /\ caller = "NvOn"
        /\ \A c \in DOMAIN sent' : sent'[c] \notin Message
        /\ UNCHANGED <<caller, waiting, listening, ready, exited>>
    BY <1>4, ReadsCallers DEF SocketsInv, Port
  <2>2. ThreadsFit' /\ NvFits' /\ CallerFits' /\ ReadySetupSucceeds'
    BY <1>1, <1>4, <2>1 DEF SignalNvOn
  <2>3. ReadyFits'
    BY <1>1, <1>4, <2>1
  <2> QED  BY <2>2, <2>3
<1> QED  BY <1>2, <1>3, <1>4 DEF PlatformServe

LEMMA PlatformKeeps == ASSUME SocketsInv, ControlInv, PlatformNext PROVE ControlInv'
<1>1. CASE PlatformBind
  BY <1>1 DEF PlatformBind, Port
<1>2. CASE PlatformAccept
  BY <1>2 DEF PlatformAccept, Accept
<1>3. CASE PlatformClose
  BY <1>3 DEF PlatformClose, Close, Reads
<1> QED  BY <1>1, <1>2, <1>3, PlatformServeKeeps DEF PlatformNext

HIDE DEF ControlInv, ThreadsFit, NvFits, CallerFits, ReadyFits, ReadySetupSucceeds, Powered, EarlyServer, LateServer,
         Message, Signal, callerVars, threadVars, socketVars, powerVars, nvVars, countVars, historyVars

-----------------------------------------------------------------------------
(* The steps of the lines.                                                 *)

\* Two lines have no connection in common.
LEMMA TwoLines ==
    ASSUME LinesInv, NEW p \in Port, NEW q \in Port \ {p}
    PROVE  InLine(p) \cap InLine(q) = {}
  BY DEF LinesInv, LinesApart, Port

\* The number of the next connection.
LEMMA NextConnection ==
    ASSUME SocketsInv, Send, Connect(PortOf(caller))
    PROVE  Cardinality(Made) + 1 \in Connection \ Made
<1> DEFINE made == Cardinality(Made)
<1>1. made \in Nat /\ Made = 1 .. made /\ setups \in Nat /\ setups <= MaxSetups /\ MaxSetups \in Nat
  BY SimulatorAssumption DEF SocketsInv, RoomFits
<1>2. made + 1 <= 2 * setups
  BY DEF SocketsInv, RoomFits, Send, Connect, PortOf, Message, Signal
<1> HIDE DEF made
<1>3. made + 1 \in Connection \ Made
  BY <1>1, <1>2 DEF Connection
<1> QED  BY <1>3 DEF made

\* An idle caller waits for nothing.
LEMMA IdleWaitsForNothing ==
    ASSUME ControlInv
    PROVE  (caller \notin Message => ~ waiting) /\ (answer # "none" => waiting)
  BY DEF ControlInv, CallerFits

LEMMA LinesOfApplication == ASSUME SocketsInv, ControlInv, LinesInv, ApplicationNext PROVE LinesInv'
<1> USE DEF callerVars, threadVars, socketVars, countVars, historyVars
<1>1. ~ waiting
  BY IdleWaitsForNothing
  DEF ApplicationNext, Launch, InitiateTPM, WakeUp, Setup, Call, FinalizeContext, Message, Signal
<1>2. CASE Launch
  <2>1. listening = {} /\ listening' = {}
    BY <1>2 DEF Launch, ControlInv, ThreadsFit, EarlyServer
  <2>2. UNCHANGED <<serving, backlog, context, sent, waiting>>
    BY <1>2 DEF Launch
  <2>3. \A p \in Port : InLine(p)' = InLine(p) /\ Queued(p)' = Queued(p)
    BY <2>2, LineStays
  <2>4. \A p \in Port : LineFits(p) /\ context[p] = NoConnection /\ InLine(p) = {}
    BY <2>1 DEF LinesInv, LineFits
  <2>5. \A p \in Port : LineFits(p)'
    BY <2>1, <2>2, <2>3, <2>4 DEF LineFits
  <2>6. CallerConnected'
    BY <1>1, <2>2, <2>4 DEF CallerConnected, Port
  <2> QED  BY <2>3, <2>4, <2>5, <2>6 DEF LinesInv, LinesApart, Port
<1>3. CASE InitiateTPM
  <2>1. listening = {}
    BY <1>3 DEF InitiateTPM, ControlInv, ThreadsFit, EarlyServer
  <2> QED  BY <1>1, <1>3, <2>1, LinesKept DEF InitiateTPM, Signal
<1>4. CASE WakeUp
  BY <1>1, <1>4, LinesKept DEF WakeUp, Signal, ThreadOf
<1>5. CASE Call
  BY <1>1, <1>5, LinesKept DEF Call, Signal, ThreadOf
<1>6. CASE Setup
  <2>1. /\ UNCHANGED <<serving, backlog, sent, listening, waiting, platform, server>> /\ caller' = "PowerOff"
        /\ \A p \in Port : context'[p] = NoConnection
        /\ overwritten' = (overwritten \/ context["command"] # NoConnection)
        /\ caller = "idle"
    BY <1>6 DEF Setup
  <2>2. context["platform"] = NoConnection
    BY <2>1 DEF LinesInv, CallerConnected, Signal
  <2>3. ASSUME NEW p \in Port PROVE LineFits(p)' /\ InLine(p)' = InLine(p)
    <3>1. LineFits(p) /\ InLine(p)' = InLine(p) /\ Queued(p)' = Queued(p) /\ Made' = Made
      BY <2>1, LineStays DEF LinesInv, Made
    <3>2. CASE overwritten'
      BY <2>1, <3>1, <3>2 DEF LineFits, ThreadOf
    <3>3. CASE ~ overwritten'
      <4>1. context[p] = NoConnection /\ ~ overwritten
        BY <2>1, <2>2, <3>3 DEF Port
      <4> QED  BY <2>1, <3>1, <4>1 DEF LineFits, ThreadOf
    <3> QED  BY <3>2, <3>3
  <2>4. CallerConnected'
    BY <1>1, <2>1 DEF CallerConnected, Port
  <2> QED  BY <2>3, <2>4 DEF LinesInv, LinesApart, Port
<1>7. CASE FinalizeContext
  <2>1. /\ caller = "idle" /\ context["command"] # NoConnection /\ EndSession("command")
        /\ UNCHANGED <<caller, waiting, listening, backlog, serving, overwritten, threadVars>>
    BY <1>7 DEF FinalizeContext
  <2>2. LineFits("command") /\ "command" \in Port
    BY DEF LinesInv, Port
  <2>3. /\ LineFits("command")' /\ InLine("command")' = InLine("command") /\ Made' = Made
        /\ context["command"] \in InLine("command")
        /\ sent' = [sent EXCEPT ![context["command"]] = "SessionEnd"]
        /\ \A q \in Port \ {"command"} : context'[q] = context[q]
    BY <2>1, <2>2, EndKeepsLine
  <2>4. ASSUME NEW q \in Port \ {"command"}, NEW c \in InLine(q)
        PROVE  sent'[c] = sent[c] /\ c \notin InLine("command")'
    <3>1. c \notin InLine("command")
      BY <2>2, <2>4, TwoLines
    <3> QED  BY <2>3, <3>1
  <2>5. (\A q \in Port : LineFits(q)') /\ LinesApart'
    BY <2>1, <2>2, <2>3, <2>4, OnePort DEF ThreadOf
  <2>6. CallerConnected'
    BY <1>1, <2>1, <2>3 DEF LinesInv, CallerConnected, Port
  <2> QED  BY <2>5, <2>6 DEF LinesInv
<1> QED  BY <1>2, <1>3, <1>4, <1>5, <1>6, <1>7 DEF ApplicationNext

LEMMA LinesOfSend == ASSUME SocketsInv, ControlInv, LinesInv, Send PROVE LinesInv'
<1>1. PICK p \in Port : p = PortOf(caller)
  BY DEF PortOf, Port
<1>2. /\ p \in Port /\ caller \in Message
      /\ UNCHANGED <<caller, answer, threadVars, listening, serving, overwritten>>
      /\ p = "platform" <=> caller \in Signal
  BY <1>1 DEF Send, PortOf, Port, historyVars
<1>3. LineFits(p)
  BY <1>2 DEF LinesInv
<1>4. CASE Connect(p)
  <2>1. PICK c : c = Cardinality(Made) + 1 /\ c \in Connection /\ c \notin Made
    BY <1>4, NextConnection, <1>1
  <2>2. /\ LineFits(p)' /\ InLine(p)' = InLine(p) \cup {c} /\ Made \subseteq Made'
        /\ sent' = [sent EXCEPT ![c] = caller] /\ context'[p] = c
        /\ \A q \in Port \ {p} : backlog'[q] = backlog[q] /\ context'[q] = context[q]
    BY <1>2, <1>3, <1>4, <2>1, ConnectJoinsLine
  <2>3. ASSUME NEW q \in Port \ {p}, NEW d \in InLine(q) PROVE sent'[d] = sent[d] /\ d \notin InLine(p)'
    <3>1. d \notin InLine(p)
      BY <1>2, <2>3, TwoLines
    <3>2. d \in Made
      BY <2>3 DEF LinesInv, LineFits
    <3> QED  BY <2>1, <2>2, <3>1, <3>2
  <2>4. (\A q \in Port : LineFits(q)') /\ LinesApart'
    BY <1>2, <2>2, <2>3, OnePort DEF ThreadOf, threadVars
  <2>5. sent'[context'[p]] = caller
    BY <2>1, <2>2 DEF SocketsInv, ConnectionsFit
  <2>6. PortOf(caller') = p
    BY <1>2, <1>1
  <2>7. CallerConnected'
    BY <1>2, <2>2, <2>5, <2>6 DEF LinesInv, CallerConnected, Port
  <2> QED  BY <2>4, <2>7 DEF LinesInv
<1>5. CASE Transmit(p)
  <2>1. /\ context[p] # NoConnection /\ sent' = [sent EXCEPT ![context[p]] = caller] /\ UNCHANGED <<backlog, context>>
        /\ DOMAIN sent = Connection /\ context[p] \in Made /\ context[p] \in Connection
    BY <1>2, <1>5, LineParts DEF Transmit, SocketsInv, ConnectionsFit
  <2>2. Made' = Made /\ caller # "SessionEnd"
    BY <1>2, <2>1, MadeStays DEF Message, Signal
  <2>3. \A c \in InLine(p) : sent'[c] = sent[c] \/ (c = context[p] /\ sent'[c] # "SessionEnd")
    BY <1>2, <2>1, <2>2
  <2>4. LineFits(p)' /\ InLine(p)' = InLine(p)
    BY <1>2, <1>3, <2>1, <2>2, <2>3, LineKept DEF ThreadOf, threadVars
  <2>5. ASSUME NEW q \in Port \ {p}, NEW d \in InLine(q) PROVE sent'[d] = sent[d] /\ d \notin InLine(p)'
    <3>1. d \notin InLine(p) /\ context[p] \in InLine(p)
      BY <1>2, <1>3, <2>1, <2>5, TwoLines DEF LineFits
    <3> QED  BY <2>1, <2>4, <3>1
  <2>6. (\A q \in Port : LineFits(q)') /\ LinesApart'
    BY <1>2, <2>1, <2>2, <2>4, <2>5, OnePort DEF ThreadOf, threadVars
  <2>7. sent'[context'[p]] = caller /\ PortOf(caller') = p
    BY <1>2, <1>1, <2>1
  <2>8. CallerConnected'
    BY <1>2, <2>1, <2>7 DEF LinesInv, CallerConnected
  <2> QED  BY <2>6, <2>8 DEF LinesInv
<1> QED  BY <1>1, <1>4, <1>5 DEF Send

LEMMA LinesOfReceive == ASSUME SocketsInv, ControlInv, LinesInv, Receive PROVE LinesInv'
<1>1. CASE Exit
  BY <1>1, DeathEmptiesLines DEF Exit
<1>2. CASE ~ Exit
  <2>1. /\ waiting' = FALSE /\ answer' = "none" /\ caller' = NextMessage(caller)
        /\ IF caller = "NvOn" THEN EndSession("platform") ELSE UNCHANGED <<sent, context>>
        /\ UNCHANGED <<threadVars, listening, backlog, serving, overwritten>>
    BY <1>2 DEF Receive, historyVars
  <2>2. CASE caller # "NvOn"
    BY <2>1, <2>2, LinesKept DEF NextMessage, Signal, ThreadOf, threadVars
  <2>3. CASE caller = "NvOn"
    <3>1. "platform" \in Port /\ LineFits("platform") /\ context["platform"] # NoConnection
      BY <2>3 DEF LinesInv, Port, SocketsInv, RoomFits
    <3>2. /\ LineFits("platform")' /\ InLine("platform")' = InLine("platform") /\ Made' = Made
          /\ context["platform"] \in InLine("platform") /\ context'["platform"] = NoConnection
          /\ sent' = [sent EXCEPT ![context["platform"]] = "SessionEnd"]
          /\ \A q \in Port \ {"platform"} : context'[q] = context[q]
      BY <2>1, <2>3, <3>1, EndKeepsLine
    <3>3. ASSUME NEW q \in Port \ {"platform"}, NEW c \in InLine(q)
          PROVE  sent'[c] = sent[c] /\ c \notin InLine("platform")'
      <4>1. c \notin InLine("platform")
        BY <3>1, <3>3, TwoLines
      <4> QED  BY <3>2, <4>1
    <3>4. (\A q \in Port : LineFits(q)') /\ LinesApart'
      BY <2>1, <3>1, <3>2, <3>3, OnePort DEF ThreadOf, threadVars
    <3>5. CallerConnected'
      BY <2>1, <3>2 DEF CallerConnected
    <3> QED  BY <3>4, <3>5 DEF LinesInv
  <2> QED  BY <2>2, <2>3
<1> QED  BY <1>1, <1>2

LEMMA LinesOfAccept ==
    ASSUME SocketsInv, LinesInv, PlatformAccept \/ CommandAccept
    PROVE  LinesInv'
<1>1. PICK p \in Port : /\ Accept(p) /\ ThreadOf(p) = "accept" /\ ThreadOf(p)' = "serve"
                        /\ \A q \in Port \ {p} : ThreadOf(q)' = ThreadOf(q)
  BY DEF PlatformAccept, CommandAccept, ThreadOf, Port
<1>2. /\ UNCHANGED <<caller, waiting, answer, context, listening, sent, overwritten>>
      /\ \A q \in Port \ {p} : serving'[q] = serving[q] /\ backlog'[q] = backlog[q]
      /\ LineFits(p) /\ Made' = Made
  BY <1>1 DEF Accept, callerVars, historyVars, LinesInv, SocketsInv, ConnectionsFit, Made
<1>3. p \in listening
  <2>1. backlog[p] \in Seq(Connection) /\ backlog[p] # <<>>
    BY <1>1 DEF Accept, SocketsInv, ConnectionsFit
  <2>2. 1 \in 1 .. Len(backlog[p])
    BY <2>1
  <2>3. backlog[p][1] \in Queued(p)
    BY <2>2 DEF Queued
  <2>4. InLine(p) # {}
    BY <2>3, LineParts
  <2> QED  BY <1>2, <2>4 DEF LineFits
<1>4. LineFits(p)' /\ InLine(p)' = InLine(p)
  BY <1>1, <1>2, <1>3, AcceptKeepsLine
<1>5. \A q \in Port \ {p} : \A c \in InLine(q) : c \notin InLine(p)'
  BY <1>4, TwoLines
<1>6. (\A q \in Port : LineFits(q)') /\ LinesApart'
  BY <1>1, <1>2, <1>4, <1>5, OnePort
<1>7. CallerConnected'
  BY <1>2 DEF LinesInv, CallerConnected
<1> QED  BY <1>6, <1>7 DEF LinesInv

LEMMA LinesOfClose ==
    ASSUME SocketsInv, ControlInv, LinesInv, PlatformClose \/ CommandClose
    PROVE  LinesInv'
<1>1. PICK p \in Port : /\ Close(p) /\ ThreadOf(p)' = "accept"
                        /\ \A q \in Port \ {p} : ThreadOf(q)' = ThreadOf(q)
  BY DEF PlatformClose, CommandClose, ThreadOf, Port
<1>2. /\ UNCHANGED overwritten /\ serving[p] # NoConnection /\ sent[serving[p]] = "SessionEnd"
      /\ \A q \in Port \ {p} : serving'[q] = serving[q]
      /\ LineFits(p)
  BY <1>1 DEF Close, Reads, historyVars, LinesInv, SocketsInv, ConnectionsFit
<1>3. p \in listening
  <2>1. InLine(p) # {}
    BY <1>2 DEF InLine
  <2> QED  BY <1>2, <2>1 DEF LineFits
<1>4. /\ LineFits(p)' /\ InLine(p)' \subseteq InLine(p) /\ Made' = Made
      /\ serving[p] \in InLine(p) /\ sent' = [sent EXCEPT ![serving[p]] = "nothing"]
      /\ UNCHANGED <<callerVars, listening, backlog, answer>>
  BY <1>1, <1>2, <1>3, CloseKeepsLine
<1>5. ASSUME NEW q \in Port \ {p}, NEW c \in InLine(q) PROVE sent'[c] = sent[c] /\ c \notin InLine(p)'
  <2>1. c \notin InLine(p)
    BY <1>5, TwoLines
  <2> QED  BY <1>4, <2>1
<1>6. (\A q \in Port : LineFits(q)') /\ LinesApart'
  BY <1>1, <1>2, <1>4, <1>5, OnePort DEF callerVars
<1>7. CallerConnected'
  <2>1. ASSUME waiting, answer = "none" PROVE sent'[context[PortOf(caller)]] = caller
    <3>1. sent[context[PortOf(caller)]] = caller /\ caller \in Message
      BY <2>1 DEF LinesInv, CallerConnected, ControlInv, CallerFits
    <3>2. context[PortOf(caller)] # serving[p]
      BY <1>2, <3>1 DEF Message, Signal
    <3> QED  BY <1>4, <3>1, <3>2
  <2> QED  BY <1>4, <2>1 DEF LinesInv, CallerConnected, callerVars
<1> QED  BY <1>6, <1>7 DEF LinesInv

\* The service takes the message of the connection that the caller waits at, and answers.
LEMMA LinesOfServe ==
    ASSUME SocketsInv, ControlInv, LinesInv, PlatformServe \/ CommandServe
    PROVE  LinesInv'
<1>1. PICK p \in Port : /\ \E message \in Message : PortOf(message) = p /\ Reads(p, message)
                        /\ answer' # "none" /\ UNCHANGED <<threadVars, serving>>
  BY DEF PlatformServe, CommandServe, TpmStartup, Port, PortOf, Message, Signal
<1>2. PICK message \in Message : PortOf(message) = p /\ Reads(p, message)
  BY <1>1
<1>3. /\ serving[p] # NoConnection /\ sent[serving[p]] = message
      /\ sent' = [sent EXCEPT ![serving[p]] = "nothing"]
      /\ UNCHANGED <<caller, waiting, context, listening, backlog, overwritten>>
      /\ DOMAIN sent = Connection /\ serving[p] \in Connection /\ LineFits(p)
  BY <1>2 DEF Reads, callerVars, historyVars, SocketsInv, ConnectionsFit, LinesInv
<1>4. message # "unmade" /\ serving[p] \in Made
  BY <1>3 DEF Made, Message, Signal
<1>5. Made' = Made
  BY <1>3, <1>4, MadeStays
<1>6. caller = message /\ serving[p] = context[PortOf(caller)]
  BY <1>3 DEF ControlInv, CallerFits
<1>7. serving[p] = context[p] /\ serving[p] \in InLine(p)
  BY <1>2, <1>3, <1>6 DEF InLine
<1>8. LineFits(p)' /\ InLine(p)' = InLine(p)
  <2>1. \A c \in InLine(p) : sent'[c] = sent[c] \/ (c = context[p] /\ sent'[c] # "SessionEnd")
    BY <1>3, <1>7
  <2> QED  BY <1>1, <1>3, <1>5, <2>1, LineKept DEF ThreadOf, threadVars
<1>9. ASSUME NEW q \in Port \ {p}, NEW c \in InLine(q) PROVE sent'[c] = sent[c] /\ c \notin InLine(p)'
  <2>1. c \notin InLine(p)
    BY <1>9, TwoLines
  <2> QED  BY <1>3, <1>7, <1>8, <2>1
<1>10. (\A q \in Port : LineFits(q)') /\ LinesApart'
  BY <1>1, <1>3, <1>5, <1>8, <1>9, OnePort DEF ThreadOf, threadVars
<1>11. CallerConnected'
  BY <1>1, <1>3 DEF LinesInv, CallerConnected
<1> QED  BY <1>10, <1>11 DEF LinesInv

\* The thread of a port opens it, once.
LEMMA LinesOfBind ==
    ASSUME SocketsInv, LinesInv, PlatformBind \/ Bind
    PROVE  LinesInv'
<1>1. PICK p \in Port : /\ ThreadOf(p) = "bind" /\ ThreadOf(p)' = "accept" /\ listening' = listening \cup {p}
                        /\ \A q \in Port \ {p} : ThreadOf(q)' = ThreadOf(q)
  BY DEF PlatformBind, Bind, ServerStep, ThreadOf, Port
<1>2. UNCHANGED <<caller, waiting, answer, context, backlog, serving, sent, overwritten>>
  BY DEF PlatformBind, Bind, ServerStep, callerVars, historyVars
<1>3. LineFits(p) /\ p \notin listening /\ Made' = Made
  BY <1>1, <1>2 DEF LinesInv, LineFits, Made
<1>4. LineFits(p)' /\ InLine(p)' = InLine(p)
  <2>1. p \in listening'
    BY <1>1
  <2> QED  BY <1>1, <1>2, <1>3, <2>1, OpenedLine
<1>5. \A q \in Port \ {p} : \A c \in InLine(q) : c \notin InLine(p)'
  BY <1>4, TwoLines
<1>6. (\A q \in Port : LineFits(q)') /\ LinesApart'
  BY <1>1, <1>2, <1>3, <1>4, <1>5, OnePort
<1>7. CallerConnected'
  BY <1>2 DEF LinesInv, CallerConnected
<1> QED  BY <1>6, <1>7 DEF LinesInv

LEMMA LinesOfStart ==
    ASSUME ControlInv, LinesInv, EnableNv \/ Manufacture \/ DisableNv \/ StartPowerOn \/ StartNvOn \/ Spawn
    PROVE  LinesInv'
<1>1. listening = {}
  BY DEF EnableNv, Manufacture, DisableNv, StartPowerOn, StartNvOn, Spawn, ServerStep, ControlInv, ThreadsFit, EarlyServer
<1>2. UNCHANGED <<caller, waiting, answer, context, backlog, serving, sent, listening, overwritten>>
  BY DEF EnableNv, Manufacture, DisableNv, StartPowerOn, StartNvOn, Spawn, ServerStep, callerVars, historyVars
<1> QED  BY <1>1, <1>2, LinesKept

LEMMA LinesStep == SimulatorInv /\ LinesInv /\ [Next]_vars => LinesInv'
<1> SUFFICES ASSUME SocketsInv, ControlInv, LinesInv, [Next]_vars PROVE LinesInv'
  BY DEF SimulatorInv
<1>1. CASE Kill \/ ConnectFails \/ ManufactureFails
  BY <1>1, DeathEmptiesLines DEF Kill, ConnectFails, ManufactureFails, Exit
<1>2. CASE UNCHANGED vars
  BY <1>2, LinesKept DEF vars, callerVars, threadVars, socketVars, historyVars, ThreadOf
<1> QED
  BY <1>1, <1>2, LinesOfApplication, LinesOfSend, LinesOfReceive, LinesOfAccept, LinesOfClose, LinesOfServe,
     LinesOfBind, LinesOfStart
  DEF Next, CallerNext, ServerNext, PlatformNext

LEMMA LinesInit == Init => LinesInv
<1> SUFFICES ASSUME Init PROVE LinesInv
  OBVIOUS
<1>1. \A p \in Port : /\ serving[p] = NoConnection /\ backlog[p] = <<>> /\ context[p] = NoConnection
                      /\ p \notin listening
  BY DEF Init
<1>2. \A p \in Port : InLine(p) = {} /\ Queued(p) = {}
  BY <1>1 DEF InLine, Queued
<1>3. \A p \in Port : LineFits(p)
  BY <1>1, <1>2 DEF LineFits
<1>4. CallerConnected
  BY <1>1 DEF Init, CallerConnected, Port
<1> QED  BY <1>2, <1>3, <1>4 DEF LinesInv, LinesApart, Port

-----------------------------------------------------------------------------
(* How long a call waits.                                                  *)

\* A call that waits for its answer.
Waits == waiting /\ answer = "none" /\ ~ overwritten

\* The steps of the service of p.
ServiceNext(p) == IF p = "platform" THEN PlatformNext ELSE ServerNext

\* Where c stands in s.
PlaceOf(s, c) == CHOOSE i \in 1 .. Len(s) : s[i] = c

\* What the service has to close and to accept before it reads the caller's message.
Ahead(p) ==
    IF serving[p] = context[p]
    THEN 0
    ELSE 2 * PlaceOf(backlog[p], context[p]) + (IF serving[p] = NoConnection THEN 0 ELSE 1)

\* Something that stands once in s is found where it stands.
LEMMA PlaceFound ==
    ASSUME NEW s, NEW c, NEW i \in 1 .. Len(s), c = s[i], \A j, k \in 1 .. Len(s) : s[j] = s[k] => j = k
    PROVE  PlaceOf(s, c) = i
  BY DEF PlaceOf

\* The place after the first one left.
LEMMA PlaceAfterFirst ==
    ASSUME NEW s \in Seq(Connection), NEW t, t = Tail(s), NEW c,
           \A j, k \in 1 .. Len(s) : s[j] = s[k] => j = k,
           NEW i \in 1 .. Len(s), c = s[i], c # Head(s)
    PROVE  i - 1 \in Nat /\ i >= 2 /\ PlaceOf(t, c) = i - 1
<1>1. /\ Len(s) \in Nat /\ Len(s) > 0 /\ Head(s) = s[1]
      /\ Len(t) = Len(s) - 1 /\ \A k \in 1 .. Len(t) : t[k] = s[k + 1]
  <2>1. s # <<>> /\ Len(s) \in Nat /\ Len(s) > 0 /\ Head(s) = s[1]
    OBVIOUS
  <2>2. Len(t) = Len(s) - 1
    BY <2>1
  <2>3. ASSUME NEW k \in 1 .. Len(t) PROVE t[k] = s[k + 1]
    BY <2>1, <2>2, <2>3
  <2> QED  BY <2>1, <2>2, <2>3
<1>2. i \in Nat /\ i >= 2 /\ i <= Len(s)
  BY <1>1
<1>3. s # <<>>
  BY <1>1
<1>4. \A j, k \in 1 .. Len(t) : t[j] = t[k] => j = k
  <2>1. PICK h : h = Head(s)
    OBVIOUS
  <2> QED  BY <1>3, <2>1, TailQueues
<1>5. i - 1 \in 1 .. Len(t) /\ (i - 1) + 1 = i
  BY <1>1, <1>2
<1>6. t[i - 1] = c
  BY <1>1, <1>5
<1>7. PlaceOf(t, c) = i - 1
  <2>1. PICK m : m = i - 1
    OBVIOUS
  <2>2. m \in 1 .. Len(t) /\ c = t[m]
    BY <1>5, <1>6, <2>1
  <2>3. PlaceOf(t, c) = m
    BY <1>4, <2>2 DEF PlaceOf
  <2> QED  BY <2>1, <2>3
<1> QED  BY <1>2, <1>7

\* Each step of its service brings a call nearer to its turn, no other step moves it away.
CallsComeNearer ==
    [][\A p \in Port : p = PortOf(caller) /\ Waits /\ Waits' =>
          /\ caller' = caller
          /\ Ahead(p) \in Nat
          /\ IF ServiceNext(p) THEN Ahead(p)' < Ahead(p) ELSE Ahead(p)' = Ahead(p)]_vars

\* A call that waits is connected to a port that is served.
LEMMA WaitingLine ==
    ASSUME SocketsInv, LinesInv, Waits, NEW p \in Port, p = PortOf(caller)
    PROVE  /\ context[p] # NoConnection /\ p \in listening
           /\ ThreadOf(p) = IF serving[p] = NoConnection THEN "accept" ELSE "serve"
           /\ backlog[p] \in Seq(Connection)
           /\ \A i, j \in 1 .. Len(backlog[p]) : backlog[p][i] = backlog[p][j] => i = j
           /\ \/ serving[p] = context[p]
              \/ /\ serving[p] # context[p]
                 /\ \E i \in 1 .. Len(backlog[p]) : context[p] = backlog[p][i]
<1>1. context[p] # NoConnection /\ backlog[p] \in Seq(Connection) /\ LineFits(p)
  BY DEF Waits, SocketsInv, RoomFits, ConnectionsFit, LinesInv
<1>2. context[p] \in InLine(p) /\ InLine(p) = ({serving[p]} \ {NoConnection}) \cup Queued(p)
  BY <1>1, LineParts DEF LineFits
<1>3. serving[p] # context[p] => \E i \in 1 .. Len(backlog[p]) : context[p] = backlog[p][i]
  BY <1>2 DEF Queued
<1> QED  BY <1>1, <1>3 DEF LineFits

LEMMA AheadIsNat ==
    ASSUME SocketsInv, LinesInv, Waits, NEW p \in Port, p = PortOf(caller)
    PROVE  Ahead(p) \in Nat
<1>1. CASE serving[p] = context[p]
  BY <1>1 DEF Ahead
<1>2. CASE serving[p] # context[p]
  <2>1. PICK i \in 1 .. Len(backlog[p]) : context[p] = backlog[p][i]
    BY <1>2, WaitingLine
  <2>2. PlaceOf(backlog[p], context[p]) = i
    BY <2>1, WaitingLine, PlaceFound
  <2>3. i \in Nat
    BY <2>1
  <2> QED  BY <1>2, <2>2, <2>3 DEF Ahead
<1> QED  BY <1>1, <1>2

\* Accepting the first one of the line.
LEMMA AcceptComesNearer ==
    ASSUME SocketsInv, LinesInv, Waits, NEW p \in Port, p = PortOf(caller), Accept(p), ThreadOf(p) = "accept"
    PROVE  Ahead(p)' < Ahead(p)
<1>1. /\ context[p] # NoConnection /\ serving[p] = NoConnection /\ backlog[p] \in Seq(Connection)
      /\ \A i, j \in 1 .. Len(backlog[p]) : backlog[p][i] = backlog[p][j] => i = j
  BY WaitingLine
<1>2. PICK i \in 1 .. Len(backlog[p]) : context[p] = backlog[p][i]
  BY <1>1, WaitingLine
<1>3. PlaceOf(backlog[p], context[p]) = i /\ i \in Nat /\ i > 0
  BY <1>1, <1>2, PlaceFound
<1>4. Ahead(p) = 2 * i
  BY <1>1, <1>3 DEF Ahead
<1>5. serving'[p] = Head(backlog[p]) /\ backlog'[p] = Tail(backlog[p]) /\ context' = context
  BY DEF Accept, SocketsInv, ConnectionsFit, callerVars
<1>6. CASE context[p] = Head(backlog[p])
  <2>1. Ahead(p)' = 0
    BY <1>5, <1>6 DEF Ahead
  <2> QED  BY <1>3, <1>4, <2>1
<1>7. CASE context[p] # Head(backlog[p])
  <2>1. i >= 2 /\ PlaceOf(backlog'[p], context[p]) = i - 1
    <3>1. PICK s, t, c : s = backlog[p] /\ t = backlog'[p] /\ c = context[p]
      OBVIOUS
    <3>2. /\ s \in Seq(Connection) /\ t = Tail(s) /\ i \in 1 .. Len(s) /\ c = s[i] /\ c # Head(s)
          /\ \A j, k \in 1 .. Len(s) : s[j] = s[k] => j = k
      BY <1>1, <1>2, <1>5, <1>7, <3>1
    <3>3. i >= 2 /\ PlaceOf(t, c) = i - 1
      BY <3>2, PlaceAfterFirst
    <3> QED  BY <3>1, <3>3
  <2>2. Ahead(p)' = 2 * (i - 1) + (IF serving'[p] = NoConnection THEN 0 ELSE 1)
    BY <1>5, <1>7, <2>1 DEF Ahead
  <2> QED  BY <1>3, <1>4, <2>1, <2>2
<1> QED  BY <1>6, <1>7

\* Closing the connection that was served.
LEMMA CloseComesNearer ==
    ASSUME SocketsInv, LinesInv, Waits, caller \in Message, NEW p \in Port, p = PortOf(caller), Close(p)
    PROVE  Ahead(p)' < Ahead(p)
<1>1. /\ serving[p] # NoConnection /\ sent[serving[p]] = "SessionEnd" /\ serving'[p] = NoConnection
      /\ UNCHANGED <<backlog, context>>
  BY DEF Close, Reads, SocketsInv, ConnectionsFit, callerVars
<1>2. serving[p] # context[p] /\ context[p] # NoConnection
  BY <1>1, WaitingLine DEF LinesInv, CallerConnected, Waits, Message, Signal
<1>3. PICK i \in 1 .. Len(backlog[p]) : context[p] = backlog[p][i]
  BY <1>2, WaitingLine
<1>4. PlaceOf(backlog[p], context[p]) = i /\ i \in Nat
  BY <1>3, WaitingLine, PlaceFound
<1>5. Ahead(p) = 2 * i + 1
  BY <1>1, <1>2, <1>4 DEF Ahead
<1>6. Ahead(p)' = 2 * i + 0
  BY <1>1, <1>2, <1>4 DEF Ahead
<1> QED  BY <1>4, <1>5, <1>6

\* What happens while a call goes on waiting: nobody but the threads of the TPM takes a step.
LEMMA WaitingSteps ==
    ASSUME SimulatorInv, [Next]_vars, Waits, Waits'
    PROVE  (ServerNext \/ PlatformNext \/ UNCHANGED vars) /\ caller \in Message
<1>1. caller \in Message
  BY DEF Waits, SimulatorInv, ControlInv, CallerFits
<1>2. ~ ApplicationNext
  BY <1>1 DEF ApplicationNext, Launch, InitiateTPM, WakeUp, Setup, Call, FinalizeContext, Message, Signal
<1>3. ~ CallerNext /\ ~ Kill
  BY DEF Waits, CallerNext, Send, ConnectFails, Receive, Exit, Kill, Die, NoProcess
<1> QED  BY <1>1, <1>2, <1>3 DEF Next

\* A thread that accepts, closes or binds has done so.
LEMMA ServerMoves ==
    ASSUME ServerNext, ~ ManufactureFails, ~ CommandServe
    PROVE  server' # server
  BY DEF ServerNext, EnableNv, Manufacture, DisableNv, StartPowerOn, StartNvOn, Spawn, Bind, ServerStep,
         CommandAccept, CommandClose

LEMMA PlatformMoves ==
    ASSUME PlatformNext, ~ PlatformServe
    PROVE  platform' # platform /\ server' = server
  BY DEF PlatformNext, PlatformBind, PlatformAccept, PlatformClose

\* Nothing changes at a port that none of its threads serves.
LEMMA OtherPortStays ==
    ASSUME SocketsInv, NEW p \in Port, NEW q \in Port \ {p}, Accept(q) \/ Close(q)
    PROVE  UNCHANGED <<serving[p], backlog[p], context[p], caller>>
  BY DEF Accept, Close, Reads, SocketsInv, ConnectionsFit, callerVars

LEMMA WaitsShorten ==
    ASSUME SimulatorInv, LinesInv, [Next]_vars, Waits, Waits', NEW p \in Port, p = PortOf(caller)
    PROVE  /\ caller' = caller
           /\ IF ServiceNext(p) THEN Ahead(p)' < Ahead(p) ELSE Ahead(p)' = Ahead(p)
<1>1. SocketsInv /\ caller \in Message /\ (ServerNext \/ PlatformNext \/ UNCHANGED vars)
  BY WaitingSteps DEF SimulatorInv
<1>2. ThreadOf(p) \in {"accept", "serve"} /\ listening # {}
  BY <1>1, WaitingLine
<1>3. server \in {"bind", "accept", "serve"}
  BY <1>2 DEF SimulatorInv, ControlInv, ThreadsFit, EarlyServer, LateServer
<1>4. ~ ManufactureFails /\ ~ PlatformServe /\ ~ CommandServe
  <2>1. answer' = "none" /\ waiting'
    BY DEF Waits
  <2>2. ~ ManufactureFails
    BY <2>1 DEF ManufactureFails, Die, NoProcess
  <2> QED  BY <2>1, <2>2 DEF PlatformServe, CommandServe, TpmStartup
<1>5. CASE PlatformNext
  <2>1. PlatformBind \/ PlatformAccept \/ PlatformClose
    BY <1>4, <1>5 DEF PlatformNext
  <2>2. caller' = caller
    BY <2>1 DEF PlatformBind, PlatformAccept, Accept, PlatformClose, Close, Reads, callerVars
  <2>3. CASE p = "platform"
    <3>1. ServiceNext(p) /\ ~ PlatformBind
      BY <1>2, <1>5, <2>3 DEF ServiceNext, PlatformBind, ThreadOf
    <3>2. CASE PlatformAccept
      BY <1>1, <2>2, <2>3, <3>1, <3>2, AcceptComesNearer DEF PlatformAccept, ThreadOf
    <3>3. CASE PlatformClose
      BY <1>1, <2>2, <2>3, <3>1, <3>3, CloseComesNearer DEF PlatformClose
    <3> QED  BY <2>1, <3>1, <3>2, <3>3
  <2>4. CASE p # "platform"
    <3>1. UNCHANGED <<serving[p], backlog[p], context[p]>>
      <4>1. CASE PlatformBind
        BY <4>1 DEF PlatformBind, callerVars
      <4>2. CASE PlatformAccept \/ PlatformClose
        BY <1>1, <2>4, <4>2, OtherPortStays DEF PlatformAccept, PlatformClose, Port
      <4> QED  BY <2>1, <4>1, <4>2
    <3>2. ~ ServiceNext(p)
      BY <1>4, <1>5, <2>4, ServerMoves, PlatformMoves DEF ServiceNext
    <3>3. Ahead(p)' = Ahead(p)
      BY <3>1 DEF Ahead
    <3> QED  BY <2>2, <3>2, <3>3
  <2> QED  BY <2>3, <2>4
<1>6. CASE ServerNext
  <2>1. Bind \/ CommandAccept \/ CommandClose
    BY <1>3, <1>4, <1>6
    DEF ServerNext, EnableNv, Manufacture, DisableNv, StartPowerOn, StartNvOn, Spawn, ServerStep
  <2>2. caller' = caller
    BY <2>1 DEF Bind, ServerStep, CommandAccept, Accept, CommandClose, Close, Reads, callerVars
  <2>3. CASE p = "command"
    <3>1. ServiceNext(p) /\ ~ Bind
      BY <1>2, <1>6, <2>3 DEF ServiceNext, Bind, ServerStep, ThreadOf
    <3>2. CASE CommandAccept
      BY <1>1, <2>2, <2>3, <3>1, <3>2, AcceptComesNearer DEF CommandAccept, ThreadOf
    <3>3. CASE CommandClose
      BY <1>1, <2>2, <2>3, <3>1, <3>3, CloseComesNearer DEF CommandClose
    <3> QED  BY <2>1, <3>1, <3>2, <3>3
  <2>4. CASE p # "command"
    <3>1. UNCHANGED <<serving[p], backlog[p], context[p]>>
      <4>1. CASE Bind
        BY <4>1 DEF Bind, ServerStep, callerVars
      <4>2. CASE CommandAccept \/ CommandClose
        BY <1>1, <2>4, <4>2, OtherPortStays DEF CommandAccept, CommandClose, Port
      <4> QED  BY <2>1, <4>1, <4>2
    <3>2. ~ ServiceNext(p)
      <4>1. p = "platform"
        BY <2>4 DEF Port
      <4> QED  BY <1>4, <1>6, <4>1, ServerMoves, PlatformMoves DEF ServiceNext
    <3>3. Ahead(p)' = Ahead(p)
      BY <3>1 DEF Ahead
    <3> QED  BY <2>2, <3>2, <3>3
  <2> QED  BY <2>3, <2>4
<1>7. CASE UNCHANGED vars
  <2>1. UNCHANGED <<serving, backlog, context, caller, server, platform>>
    BY <1>7 DEF vars, callerVars, threadVars, socketVars
  <2>2. ~ ServerNext /\ ~ PlatformNext
    BY <1>4, <2>1, ServerMoves, PlatformMoves
  <2>3. Ahead(p)' = Ahead(p) /\ ~ ServiceNext(p)
    BY <2>1, <2>2 DEF Ahead, ServiceNext
  <2> QED  BY <2>1, <2>3
<1> QED  BY <1>1, <1>5, <1>6, <1>7

-----------------------------------------------------------------------------
(* The theorems.                                                           *)

LEMMA SimulatorInit == Init => SimulatorInv
<1> SUFFICES ASSUME Init PROVE SimulatorInv
  OBVIOUS
<1>1. ControlInv
  BY DEF Init, ControlInv, ThreadsFit, NvFits, CallerFits, ReadyFits, ReadySetupSucceeds, EarlyServer, LateServer, Message, Signal
<1>2. Made = {} /\ DOMAIN sent = Connection
  BY DEF Init, Made
<1>3. Cardinality(Made) = 0 /\ Made = 1 .. 0
  BY <1>2, FS_EmptySet
<1>4. RoomFits
  BY <1>3, SimulatorAssumption DEF Init, RoomFits, Signal
<1>5. ConnectionsFit
  BY <1>2 DEF Init, ConnectionsFit
<1> QED  BY <1>1, <1>4, <1>5 DEF SimulatorInv, SocketsInv

LEMMA SimulatorStep == SimulatorInv /\ [Next]_vars => SimulatorInv'
<1> SUFFICES ASSUME SimulatorInv, [Next]_vars PROVE SimulatorInv'
  OBVIOUS
<1>1. CASE Kill
  BY <1>1, SocketsStep, DeathFits
  DEF Kill, SimulatorInv, ControlInv, ReadySetupSucceeds, CallerFits, historyVars
<1>2. CASE UNCHANGED vars
  <2>1. ControlInv'
    BY <1>2 DEF vars, callerVars, threadVars, socketVars, powerVars, nvVars, countVars, historyVars,
                SimulatorInv, ControlInv, ThreadsFit, NvFits, CallerFits, ReadyFits, ReadySetupSucceeds, Powered
  <2> QED  BY <2>1, SocketsStep DEF SimulatorInv
<1> QED  BY <1>1, <1>2, SocketsStep, ApplicationKeeps, CallerKeeps, ServerKeeps, PlatformKeeps DEF Next, SimulatorInv

\* The steps that write the file: NVEnable, which makes one only where there is
\* none, and the manufacture, which empties it again only if it is not done.
LEMMA FileStep == SimulatorInv /\ [Next]_vars => (nvFile = "manufactured" => nvFile' = "manufactured")
<1> SUFFICES ASSUME SimulatorInv, [Next]_vars, nvFile = "manufactured" PROVE nvFile' = "manufactured"
  OBVIOUS
<1> USE DEF SimulatorInv, ControlInv, NvFits, nvVars
<1>1. CASE ApplicationNext
  BY <1>1 DEF ApplicationNext, Launch, InitiateTPM, WakeUp, Setup, Call, FinalizeContext
<1>2. CASE CallerNext
  BY <1>2 DEF CallerNext, Send, ConnectFails, Receive, Exit
<1>3. CASE ServerNext
  BY <1>3 DEF ServerNext, EnableNv, NVEnable, Manufacture, ManufactureFails, DisableNv, StartPowerOn, SignalPowerOn,
              StartNvOn, Spawn, Bind, CommandAccept, Accept, CommandClose, Close, CommandServe
<1>4. CASE PlatformNext
  BY <1>4 DEF PlatformNext, PlatformBind, PlatformAccept, Accept, PlatformClose, Close, PlatformServe, SignalPowerOff,
              SignalPowerOn, NVEnable
<1>5. CASE Kill
  BY <1>5 DEF Kill
<1>6. CASE UNCHANGED vars
  BY <1>6 DEF vars
<1> QED  BY <1>1, <1>2, <1>3, <1>4, <1>5, <1>6 DEF Next

\* Nobody serves before the TPM is started, NV in memory is the file while it is
\* open, what was sent is what the caller waits for, and a connection is left for
\* whoever connects.
THEOREM SimulatorInvariant == Spec => []SimulatorInv
<1> QED  BY SimulatorInit, SimulatorStep, PTL DEF Spec

\* Each connection stands once, at one port; what the caller is connected to is there, and
\* all else that is there is ended, unless setup lost a connection.
THEOREM LinesInvariant == Spec => []LinesInv
<1> QED  BY LinesInit, LinesStep, SimulatorInvariant, PTL DEF Spec

\* While a call waits, nothing but ended connections is before its own, and the thread of
\* the port accepts or serves: there is no wait in a circle, for any number of setups.
THEOREM CallsAreNotBlocked == Spec => []NothingBlocksCall
<1>1. SimulatorInv /\ LinesInv => NothingBlocksCall
  <2> SUFFICES ASSUME SimulatorInv, LinesInv, waiting, answer = "none", ~ overwritten,
                      NEW p, p = PortOf(caller)
               PROVE  /\ context[p] \in InLine(p) /\ sent[context[p]] = caller
                      /\ \A c \in InLine(p) \ {context[p]} : sent[c] = "SessionEnd"
                      /\ ThreadOf(p) = IF serving[p] = NoConnection THEN "accept" ELSE "serve"
    BY DEF NothingBlocksCall, ThreadOf
  <2>1. p \in Port /\ context[p] # NoConnection
    BY DEF SimulatorInv, SocketsInv, RoomFits, PortOf, Port
  <2>2. LineFits(p) /\ sent[context[p]] = caller
    BY <2>1 DEF LinesInv, CallerConnected
  <2> QED  BY <2>1, <2>2 DEF LineFits
<1> QED  BY <1>1, SimulatorInvariant, LinesInvariant, PTL

\* Each step of its service brings a waiting call nearer to its turn, and no other step moves
\* it away; with the steps that CallsAreNotBlocked finds, a service that runs comes to it.
THEOREM CallsGetTheirTurn == Spec => CallsComeNearer
<1>1. SimulatorInv /\ LinesInv /\ [Next]_vars =>
        [\A p \in Port : p = PortOf(caller) /\ Waits /\ Waits' =>
            /\ caller' = caller
            /\ Ahead(p) \in Nat
            /\ IF ServiceNext(p) THEN Ahead(p)' < Ahead(p) ELSE Ahead(p)' = Ahead(p)]_vars
  <2> SUFFICES ASSUME SimulatorInv, LinesInv, [Next]_vars,
                      NEW p \in Port, p = PortOf(caller), Waits, Waits'
               PROVE  /\ caller' = caller
                      /\ Ahead(p) \in Nat
                      /\ IF ServiceNext(p) THEN Ahead(p)' < Ahead(p) ELSE Ahead(p)' = Ahead(p)
    OBVIOUS
  <2>1. /\ caller' = caller
        /\ IF ServiceNext(p) THEN Ahead(p)' < Ahead(p) ELSE Ahead(p)' = Ahead(p)
    BY WaitsShorten
  <2>2. Ahead(p) \in Nat
    BY AheadIsNat DEF SimulatorInv
  <2> QED  BY <2>1, <2>2
<1> QED  BY <1>1, SimulatorInvariant, LinesInvariant, PTL DEF Spec, CallsComeNearer

\* A setup that finds both ports open and the TPM manufactured never ends the
\* process: how the two services take turns does not matter.
THEOREM ReadySucceeds == Spec => []ReadySetupSucceeds
<1>1. SimulatorInv => ReadySetupSucceeds
  BY DEF SimulatorInv, ControlInv
<1> QED  BY <1>1, SimulatorInvariant, PTL

\* A file that was manufactured stays so, whatever kills the process and whenever.
THEOREM NvKept == Spec => NvIsNeverLost
<1>1. SimulatorInv /\ [Next]_vars => [nvFile = "manufactured" => nvFile' = "manufactured"]_vars
  BY FileStep
<1> QED  BY <1>1, SimulatorInvariant, PTL DEF Spec, NvIsNeverLost
=============================================================================

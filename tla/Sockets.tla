---- MODULE Sockets ----
(***************************************************************************)
(* The gateway's connections to WhatsApp for QR-linked numbers:            *)
(* BaileysManager (services/baileys.ts) with the control messages, the     *)
(* bootstrap timer and the shutdown of whatsapp-gateway.ts, and the two    *)
(* routes of routes/dashboard.ts that create and disconnect a channel.     *)
(* The manager keeps its maps per channel, so one channel is followed.     *)
(*                                                                         *)
(* start() checks the sockets map, then awaits, and fills the map at the   *)
(* end; the handlers of a socket await their database writes while the     *)
(* socket goes on. QR codes, phone numbers and error texts are left out.   *)
(* An unhandled rejection ends a Node process: such an error is a crash.   *)
(***************************************************************************)
EXTENDS FiniteSets, Naturals

CONSTANTS
    MaxSockets,  \* bound: sockets at a time, counted until their writes are done
    Faults       \* which of "crash", "db_error", "lost_command" may happen

ASSUME SocketsAssumption ==
    /\ MaxSockets \in Nat
    /\ Faults \subseteq {"crash", "db_error", "lost_command"}

VARIABLES
    channel,   \* Channel.status, "NONE" before it exists
    link,      \* WhatsApp: the account has never linked the device, has, or has removed it
    sock,      \* each socket: "free" (does not exist), "opening" or "open"
    entry,     \* the sockets map
    starting,  \* callers whose start() is past the check and has not made its socket
    timer,     \* the reconnect timer in the timers map is running
    loose,     \* a reconnect timer is running that the map has forgotten
    stops,     \* the stops set holds the channel
    pending,   \* writes that handlers of sockets have still to do
    stopping,  \* where disconnect() is
    leaving,   \* the socket that disconnect() logs out
    commands,  \* messages on whatsapp-control
    overlap,   \* history: two starts have overlapped in this process
    blurred,   \* history: Channel.status may not tell the truth for now
    cut        \* history: a disconnect() ran ("going") and ended ("done") undisturbed

socketVars == <<sock, entry, pending>>
startVars == <<starting, timer, loose>>
stopVars == <<stops, stopping, leaving>>
historyVars == <<overlap, blurred, cut>>
vars == <<channel, link, socketVars, startVars, stopVars, commands, historyVars>>

Socket == 1..MaxSockets
NoSocket == 0

(* bootstrap and send handle a start that rejects, the timer and the       *)
(* control message do not. Bound: one of each kind at a time.              *)
Starter == {"awaited", "detached"}
Status == {"PENDING", "CONNECTED", "ERROR", "DISCONNECTED"}
Write == {"open", "lost", "left"}

Live == {s \in Socket : sock[s] # "free"}

Init ==
    /\ channel = "NONE" /\ link = "new"
    /\ sock = [s \in Socket |-> "free"] /\ entry = NoSocket /\ pending = {}
    /\ starting = {} /\ timer = FALSE /\ loose = FALSE
    /\ stops = FALSE /\ stopping = "idle" /\ leaving = NoSocket
    /\ commands = {} /\ overlap = FALSE /\ blurred = FALSE /\ cut = "no"

-----------------------------------------------------------------------------
(* The dashboard's routes *)

(* createBaileysChannel and the message that follows it. *)
CreateChannel ==
    /\ channel = "NONE"
    /\ channel' = "PENDING"
    /\ commands' = {"start"}
    /\ UNCHANGED <<link, socketVars, startVars, stopVars, historyVars>>

ApiDisconnect ==
    /\ channel # "NONE"
    /\ channel' = "DISCONNECTED"
    /\ commands' = commands \cup {"stop"}
    /\ UNCHANGED <<link, socketVars, startVars, stopVars, historyVars>>

(* Redis keeps no message for a subscriber that is away. *)
LoseCommand ==
    /\ commands # {}
    /\ "lost_command" \in Faults
    /\ commands' = {}
    /\ UNCHANGED <<channel, link, socketVars, startVars, stopVars, historyVars>>

-----------------------------------------------------------------------------
(* start *)

Disturb == cut' = IF cut = "going" THEN "no" ELSE cut

(* Mistake: start does not look for a socket.                              *)
StartUnchecked(k) ==
    /\ k \notin starting
    /\ starting' = starting \cup {k}
    /\ stops' = FALSE
    /\ overlap' = (overlap \/ starting # {} \/ leaving # NoSocket)

(* Up to the first await. A second start that gets here before the first   *)
(* has filled the map, or while a socket that has left the map is still    *)
(* being logged out, will make a second socket.                            *)
Start(k) ==
    IF entry # NoSocket THEN UNCHANGED <<starting, stops, overlap>>
    ELSE /\ k \notin starting
         /\ starting' = starting \cup {k}
         /\ stops' = FALSE
         /\ overlap' = (overlap \/ starting # {} \/ leaving # NoSocket)

(* At boot and every 30 s. That the list is read a moment before the start *)
(* adds nothing to a start that awaits while the row changes.              *)
Bootstrap ==
    /\ channel \in {"PENDING", "CONNECTED", "ERROR"}
    /\ Start("awaited")
    /\ Disturb
    /\ UNCHANGED <<channel, link, socketVars, timer, loose, stopping, leaving, commands, blurred>>

(* The callback removes whatever timer the map holds by now. *)
TimerFires ==
    /\ timer \/ loose
    /\ timer' = FALSE
    /\ loose' \in IF timer /\ loose THEN {TRUE} ELSE {FALSE}
    /\ Start("detached")
    /\ Disturb
    /\ UNCHANGED <<channel, link, socketVars, stopping, leaving, commands, blurred>>

StartArrives ==
    /\ "start" \in commands
    /\ commands' = commands \ {"start"}
    /\ Start("detached")
    /\ Disturb
    /\ UNCHANGED <<channel, link, socketVars, timer, loose, stopping, leaving, blurred>>

(* A job of the outbound queue finds no socket: send starts one and throws.*)
SendStarts ==
    /\ link # "new"
    /\ entry = NoSocket
    /\ Start("awaited")
    /\ cut' = "no"
    /\ UNCHANGED <<channel, link, socketVars, timer, loose, stopping, leaving, commands, blurred>>

Gone == {s \in Socket : sock[s] = "free" /\ \A w \in Write : <<s, w>> \notin pending}

(* The session and the version have been read. *)
MakeSocket(k, s) ==
    /\ k \in starting
    /\ s \in Gone /\ \A older \in Gone : s <= older
    /\ sock' = [sock EXCEPT ![s] = "opening"]
    /\ entry' = s
    /\ starting' = starting \ {k}
    /\ UNCHANGED <<channel, link, pending, timer, loose, stopVars, commands, historyVars>>

-----------------------------------------------------------------------------
(* What happens to a socket, and the handler of connection.update *)

(* Mistake: the map's entry is left behind.                                *)
CloseKeepsEntry(s, loggedOut) ==
    /\ sock' = [sock EXCEPT ![s] = "free"]
    /\ entry' = entry
    /\ stops' = (stops /\ loggedOut)
    /\ pending' = pending \cup {<<s, IF loggedOut \/ stops THEN "left" ELSE "lost">>}

(* The map's entry goes, whichever socket it holds. || short-circuits: a   *)
(* logged-out close leaves stops alone.                                    *)
Close(s, loggedOut) ==
    /\ sock' = [sock EXCEPT ![s] = "free"]
    /\ entry' = NoSocket
    /\ stops' = (stops /\ loggedOut)
    /\ pending' = pending \cup {<<s, IF loggedOut \/ stops THEN "left" ELSE "lost">>}

(* WhatsApp restarts the connection after the code was scanned. *)
Scanned(s) ==
    /\ sock[s] = "opening" /\ link = "new"
    /\ link' = "linked"
    /\ Close(s, FALSE)
    /\ UNCHANGED <<channel, startVars, stopping, leaving, commands, historyVars>>

Opens(s) ==
    /\ sock[s] = "opening" /\ link = "linked"
    /\ sock' = [sock EXCEPT ![s] = "open"]
    /\ pending' = pending \cup {<<s, "open">>}
    /\ UNCHANGED <<channel, link, entry, startVars, stopVars, commands, historyVars>>

LosesConnection(s) ==
    /\ s \in Live
    /\ Close(s, FALSE)
    /\ UNCHANGED <<channel, link, startVars, stopping, leaving, commands, historyVars>>

(* The customer removed the device on the phone, now or earlier. *)
IsRefused(s) ==
    /\ s \in Live /\ link # "new"
    /\ link' = "revoked"
    /\ Close(s, TRUE)
    /\ UNCHANGED <<channel, startVars, stopping, leaving, commands, historyVars>>

(* Two handlers' writes are not ordered: an earlier one may come last.     *)
Overtaken == \E s \in Socket : <<s, "open">> \in pending

(* The row tells the truth again with the last write of what has happened. *)
Settles == blurred' = (pending' # {} /\ (blurred \/ Overtaken))

WriteOpen(s) ==
    /\ <<s, "open">> \in pending
    /\ channel' = "CONNECTED"
    /\ pending' = pending \ {<<s, "open">>}
    /\ UNCHANGED <<link, sock, entry, startVars, stopVars, commands, historyVars>>

(* Mistake: the row is not updated after a logout.                         *)
WriteLeftNothing(s) ==
    /\ <<s, "left">> \in pending
    /\ pending' = pending \ {<<s, "left">>}
    /\ Settles
    /\ UNCHANGED <<channel, link, sock, entry, startVars, stopVars, commands, overlap, cut>>

WriteLeft(s) ==
    /\ <<s, "left">> \in pending
    /\ channel' = "DISCONNECTED"
    /\ pending' = pending \ {<<s, "left">>}
    /\ Settles
    /\ UNCHANGED <<link, sock, entry, startVars, stopVars, commands, overlap, cut>>

(* The timers map forgets a timer that is already running. *)
WriteLost(s) ==
    /\ <<s, "lost">> \in pending
    /\ channel' = "ERROR"
    /\ pending' = pending \ {<<s, "lost">>}
    /\ timer' = TRUE
    /\ loose' = (loose \/ timer)
    /\ Settles
    /\ UNCHANGED <<link, sock, entry, starting, stopVars, commands, overlap, cut>>

(* Logged and forgotten; after "lost" no timer is set either. *)
WriteThrows(s, w) ==
    /\ <<s, w>> \in pending
    /\ "db_error" \in Faults
    /\ pending' = pending \ {<<s, w>>}
    /\ blurred' = TRUE
    /\ UNCHANGED <<channel, link, sock, entry, startVars, stopVars, commands, overlap, cut>>

-----------------------------------------------------------------------------
(* disconnect *)

(* Nothing that could still write or reconnect is out of disconnect's reach. *)
Undisturbed ==
    /\ starting = {} /\ ~ loose /\ pending = {}
    /\ Live \subseteq {entry}

(* Mistake: the timer keeps running.                                       *)
StopKeepsTimer ==
    /\ "stop" \in commands /\ "start" \notin commands
    /\ stopping = "idle"
    /\ commands' = {}
    /\ stops' = TRUE
    /\ leaving' = entry
    /\ entry' = NoSocket
    /\ stopping' = IF entry = NoSocket THEN "write" ELSE "logout"
    /\ cut' = IF cut = "done" THEN cut ELSE IF Undisturbed THEN "going" ELSE "no"
    /\ UNCHANGED <<channel, link, sock, pending, startVars, overlap, blurred>>

StopArrives ==
    /\ "stop" \in commands /\ "start" \notin commands
    /\ stopping = "idle"
    /\ commands' = {}
    /\ stops' = TRUE
    /\ timer' = FALSE
    /\ leaving' = entry
    /\ entry' = NoSocket
    /\ stopping' = IF entry = NoSocket THEN "write" ELSE "logout"
    /\ cut' = IF cut = "done" THEN cut ELSE IF Undisturbed THEN "going" ELSE "no"
    /\ UNCHANGED <<channel, link, sock, pending, starting, loose, overlap, blurred>>

LogoutWorks ==
    /\ stopping = "logout"
    /\ leaving \in Live
    /\ link' = IF link = "linked" THEN "revoked" ELSE link
    /\ Close(leaving, TRUE)
    /\ stopping' = "write" /\ leaving' = NoSocket
    /\ UNCHANGED <<channel, startVars, commands, historyVars>>

(* The device stays linked, the socket is ended all the same. *)
LogoutThrows ==
    /\ stopping = "logout"
    /\ IF leaving \in Live THEN Close(leaving, FALSE)
       ELSE UNCHANGED <<socketVars, stops>>
    /\ stopping' = "write" /\ leaving' = NoSocket
    /\ UNCHANGED <<channel, link, startVars, commands, historyVars>>

DisconnectWrites ==
    /\ stopping = "write"
    /\ channel' = "DISCONNECTED"
    /\ stopping' = "idle"
    /\ blurred' = (blurred \/ Overtaken)
    /\ cut' = IF cut # "going" THEN cut ELSE IF Overtaken THEN "no" ELSE "done"
    /\ UNCHANGED <<link, socketVars, startVars, stops, leaving, commands, overlap>>

-----------------------------------------------------------------------------
(* Failures of the process *)

Die ==
    /\ sock' = [s \in Socket |-> "free"] /\ entry' = NoSocket /\ pending' = {}
    /\ starting' = {} /\ timer' = FALSE /\ loose' = FALSE
    /\ stops' = FALSE /\ stopping' = "idle" /\ leaving' = NoSocket
    /\ overlap' = FALSE /\ blurred' = TRUE
    /\ Disturb

(* Killed, or stopped: stopAll first ends the sockets, whose handlers may  *)
(* or may not finish (LosesConnection, WriteLost) before the process exits.*)
Crash ==
    /\ "crash" \in Faults
    /\ Die
    /\ UNCHANGED <<channel, link, commands>>

StartThrows(k) ==
    /\ k \in starting
    /\ "db_error" \in Faults
    /\ IF k = "awaited"
         THEN /\ starting' = starting \ {k}
              /\ UNCHANGED <<socketVars, timer, loose, stopVars, historyVars>>
         ELSE Die
    /\ UNCHANGED <<channel, link, commands>>

DisconnectThrows ==
    /\ stopping = "write"
    /\ "db_error" \in Faults
    /\ Die
    /\ UNCHANGED <<channel, link, commands>>

-----------------------------------------------------------------------------
WriteStep(s) == WriteOpen(s) \/ WriteLeft(s) \/ WriteLost(s)

Next ==
    \/ CreateChannel \/ ApiDisconnect \/ LoseCommand
    \/ Bootstrap \/ TimerFires \/ StartArrives \/ SendStarts
    \/ \E k \in Starter, s \in Socket : MakeSocket(k, s)
    \/ \E k \in Starter : StartThrows(k)
    \/ \E s \in Socket :
         \/ Scanned(s) \/ Opens(s) \/ LosesConnection(s) \/ IsRefused(s)
         \/ WriteStep(s)
         \/ \E w \in Write : WriteThrows(s, w)
    \/ StopArrives \/ LogoutWorks \/ LogoutThrows \/ DisconnectWrites \/ DisconnectThrows
    \/ Crash

Spec == Init /\ [][Next]_vars

(* WhatsApp closes the older of two connections of a device. *)
Replaced(s) == s # entry /\ LosesConnection(s)

(* The bootstrap timer fires every 30 s; a start that is tried again and   *)
(* again succeeds some time, although each try may fail or be cut short;   *)
(* handlers finish and a logout that is not answered times out.            *)
FairSpec ==
    /\ Spec
    /\ WF_vars(Bootstrap)
    /\ SF_vars(\E k \in Starter, s \in Socket : MakeSocket(k, s))
    /\ WF_vars(LogoutThrows \/ \E s \in Socket : WriteStep(s) \/ Replaced(s))

-----------------------------------------------------------------------------
(* Properties *)

TypeOK ==
    /\ channel \in Status \cup {"NONE"}
    /\ link \in {"new", "linked", "revoked"}
    /\ sock \in [Socket -> {"free", "opening", "open"}]
    /\ entry \in Socket \cup {NoSocket}
    /\ starting \in SUBSET Starter
    /\ timer \in BOOLEAN /\ loose \in BOOLEAN /\ stops \in BOOLEAN
    /\ pending \in SUBSET (Socket \X Write)
    /\ stopping \in {"idle", "logout", "write"}
    /\ leaving \in Socket \cup {NoSocket}
    /\ commands \in SUBSET {"start", "stop"}
    /\ overlap \in BOOLEAN /\ blurred \in BOOLEAN
    /\ cut \in {"no", "going", "done"}

(* Unless two starts overlapped, the channel has one socket, the one that  *)
(* send uses and disconnect reaches, apart from one being logged out.      *)
OneLiveSocket ==
    ~ overlap => \A s \in Live : s = entry \/ s = leaving

(* When nothing is under way, the dashboard shows CONNECTED only for a     *)
(* number whose socket is open, whatever closed and reopened before.       *)
Quiet ==
    /\ starting = {} /\ ~ timer /\ ~ loose /\ pending = {}
    /\ stopping = "idle"
    /\ \A s \in Socket : sock[s] # "opening"

ConnectedIsOpen ==
    ~ overlap /\ ~ blurred /\ Quiet /\ channel = "CONNECTED" =>
        entry # NoSocket /\ sock[entry] = "open"

(* A disconnect that met nothing it cannot reach is final: no timer, no    *)
(* handler and no bootstrap brings the channel back, only a later send.    *)
DisconnectHolds == cut = "done" => channel = "DISCONNECTED"

(* A channel that is not DISCONNECTED gets a socket again, after lost      *)
(* connections, failed writes and crashes alike.                           *)
Reconnects ==
    channel \in {"PENDING", "CONNECTED", "ERROR"} ~>
        Live # {} \/ channel = "DISCONNECTED"
====

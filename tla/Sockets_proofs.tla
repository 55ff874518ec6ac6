---- MODULE Sockets_proofs ----
(***************************************************************************)
(* Proofs about Sockets, for any number of sockets and any faults. EntryInv *)
(* says why two starts that do not overlap make one socket; FinalInv why a  *)
(* disconnect that met nothing out of its reach is final; TruthInv what     *)
(* keeps a CONNECTED row true.                                              *)
(***************************************************************************)
EXTENDS Sockets, TLAPS

LEMMA InitTyped == Init => TypeOK
BY DEF Init, TypeOK, Status

(* A start leaves the types alone, and what a close does. *)
LEMMA StartTyped ==
    ASSUME TypeOK, NEW k \in Starter, Start(k)
    PROVE  starting' \in SUBSET Starter /\ stops' \in BOOLEAN /\ overlap' \in BOOLEAN
<1>1. CASE entry # NoSocket
  BY <1>1 DEF Start, TypeOK
<1>2. CASE entry = NoSocket
  <2>1. starting' = starting \cup {k} /\ stops' = FALSE
    BY <1>2, Zenon DEF Start
  <2>2. overlap' \in BOOLEAN
    BY <1>2, Zenon DEF Start
  <2>3. stops' \in BOOLEAN
    BY <2>1, Zenon
  <2> QED BY <2>1, <2>2, <2>3 DEF TypeOK
<1> QED BY <1>1, <1>2

LEMMA CloseTyped ==
    ASSUME TypeOK, NEW s \in Socket, NEW out \in BOOLEAN, Close(s, out)
    PROVE  /\ sock' \in [Socket -> {"free", "opening", "open"}]
           /\ entry' = NoSocket /\ stops' \in BOOLEAN
           /\ pending' \in SUBSET (Socket \X Write)
<1>1. stops' \in BOOLEAN
  BY Zenon DEF Close
<1>2. pending' \in SUBSET (Socket \X Write)
  BY DEF Close, TypeOK, Write
<1> QED BY <1>1, <1>2 DEF Close, TypeOK

LEMMA NextTyped == TypeOK /\ [Next]_vars => TypeOK'
<1> SUFFICES ASSUME TypeOK, [Next]_vars PROVE TypeOK'
  OBVIOUS
<1> USE DEF socketVars, startVars, stopVars, historyVars
<1>a. \A x : Disturb /\ cut \in {"no", "going", "done"} => cut' \in {"no", "going", "done"}
  BY DEF Disturb
<1>1. CASE CreateChannel \/ ApiDisconnect \/ LoseCommand
  <2>1. CASE CreateChannel
    BY <2>1 DEF TypeOK, Status, CreateChannel
  <2>2. CASE ApiDisconnect
    BY <2>2 DEF TypeOK, Status, ApiDisconnect
  <2>3. CASE LoseCommand
    BY <2>3 DEF TypeOK, LoseCommand
  <2> QED BY <1>1, <2>1, <2>2, <2>3
<1>2. CASE Bootstrap
  <2>1. starting' \in SUBSET Starter /\ stops' \in BOOLEAN /\ overlap' \in BOOLEAN
    BY <1>2, StartTyped DEF Bootstrap, Starter
  <2> QED BY <1>2, <1>a, <2>1 DEF TypeOK, Bootstrap
<1>3. CASE TimerFires
  <2>1. starting' \in SUBSET Starter /\ stops' \in BOOLEAN /\ overlap' \in BOOLEAN
    BY <1>3, StartTyped DEF TimerFires, Starter
  <2>2. timer' \in BOOLEAN /\ loose' \in BOOLEAN
    BY <1>3, Zenon DEF TimerFires
  <2>3. UNCHANGED <<channel, link, socketVars, stopping, leaving, commands, blurred>> /\ Disturb
    BY <1>3 DEF TimerFires
  <2> QED BY <1>a, <2>1, <2>2, <2>3 DEF TypeOK
<1>4. CASE StartArrives
  <2>1. starting' \in SUBSET Starter /\ stops' \in BOOLEAN /\ overlap' \in BOOLEAN
    BY <1>4, StartTyped DEF StartArrives, Starter
  <2> QED BY <1>4, <1>a, <2>1 DEF TypeOK, StartArrives
<1>5. CASE SendStarts
  <2>1. starting' \in SUBSET Starter /\ stops' \in BOOLEAN /\ overlap' \in BOOLEAN
    BY <1>5, StartTyped DEF SendStarts, Starter
  <2> QED BY <1>5, <2>1 DEF TypeOK, SendStarts
<1>6. ASSUME NEW k \in Starter, NEW s \in Socket, MakeSocket(k, s) PROVE TypeOK'
  BY <1>6 DEF TypeOK, MakeSocket
<1>7. CASE Die /\ UNCHANGED <<channel, link, commands>>
  <2>1. timer' \in BOOLEAN /\ loose' \in BOOLEAN /\ stops' \in BOOLEAN /\ overlap' \in BOOLEAN
        /\ blurred' \in BOOLEAN
    BY <1>7, Zenon DEF Die
  <2>2. /\ sock' = [s \in Socket |-> "free"] /\ entry' = NoSocket /\ pending' = {} /\ starting' = {}
        /\ stopping' = "idle" /\ leaving' = NoSocket /\ Disturb /\ UNCHANGED <<channel, link, commands>>
    BY <1>7 DEF Die
  <2> QED BY <1>a, <2>1, <2>2 DEF TypeOK
<1>8. ASSUME NEW k \in Starter, StartThrows(k) PROVE TypeOK'
  <2>1. CASE k = "awaited"
    BY <1>8, <2>1 DEF TypeOK, StartThrows
  <2>2. CASE k # "awaited"
    BY <1>7, <1>8, <2>2 DEF StartThrows
  <2> QED BY <2>1, <2>2
<1>9. ASSUME NEW s \in Socket, Scanned(s) PROVE TypeOK'
  <2>1. Close(s, FALSE)
    BY <1>9 DEF Scanned
  <2> QED BY <1>9, <2>1, CloseTyped DEF TypeOK, Scanned
<1>10. ASSUME NEW s \in Socket, Opens(s) PROVE TypeOK'
  BY <1>10 DEF TypeOK, Opens, Write
<1>11. ASSUME NEW s \in Socket, LosesConnection(s) PROVE TypeOK'
  <2>1. Close(s, FALSE)
    BY <1>11 DEF LosesConnection
  <2> QED BY <1>11, <2>1, CloseTyped DEF TypeOK, LosesConnection
<1>12. ASSUME NEW s \in Socket, IsRefused(s) PROVE TypeOK'
  <2>1. Close(s, TRUE)
    BY <1>12 DEF IsRefused
  <2> QED BY <1>12, <2>1, CloseTyped DEF TypeOK, IsRefused
<1>13. ASSUME NEW s \in Socket, WriteOpen(s) PROVE TypeOK'
  BY <1>13 DEF TypeOK, WriteOpen, Status
<1>14. ASSUME NEW s \in Socket, WriteLeft(s) PROVE TypeOK'
  <2>1. blurred' \in BOOLEAN
    BY <1>14, Zenon DEF WriteLeft, Settles
  <2> QED BY <1>14, <2>1 DEF TypeOK, WriteLeft, Status
<1>15. ASSUME NEW s \in Socket, WriteLost(s) PROVE TypeOK'
  <2>1. blurred' \in BOOLEAN /\ loose' \in BOOLEAN /\ timer' \in BOOLEAN
    BY <1>15, Zenon DEF WriteLost, Settles
  <2>2. /\ channel' = "ERROR" /\ pending' \subseteq pending
        /\ UNCHANGED <<link, sock, entry, starting, stopVars, commands, overlap, cut>>
    BY <1>15 DEF WriteLost
  <2> QED BY <2>1, <2>2 DEF TypeOK, Status
<1>16. ASSUME NEW s \in Socket, NEW w \in Write, WriteThrows(s, w) PROVE TypeOK'
  BY <1>16 DEF TypeOK, WriteThrows
<1>17. CASE StopArrives
  BY <1>17 DEF TypeOK, StopArrives
<1>18. CASE LogoutWorks
  <2>1. Close(leaving, TRUE) /\ leaving \in Socket
    BY <1>18 DEF LogoutWorks, Live
  <2> QED BY <1>18, <2>1, CloseTyped DEF TypeOK, LogoutWorks
<1>19. CASE LogoutThrows
  <2>1. CASE leaving \in Live
    <3>1. Close(leaving, FALSE) /\ leaving \in Socket
      BY <1>19, <2>1 DEF LogoutThrows, Live
    <3> QED BY <1>19, <3>1, CloseTyped DEF TypeOK, LogoutThrows
  <2>2. CASE leaving \notin Live
    BY <1>19, <2>2 DEF TypeOK, LogoutThrows
  <2> QED BY <2>1, <2>2
<1>20. CASE DisconnectWrites
  <2>1. blurred' \in BOOLEAN
    BY <1>20, Zenon DEF DisconnectWrites
  <2> QED BY <1>20, <2>1 DEF TypeOK, DisconnectWrites, Status
<1>21. CASE DisconnectThrows \/ Crash
  BY <1>7, <1>21 DEF DisconnectThrows, Crash
<1>22. CASE UNCHANGED vars
  BY <1>22 DEF TypeOK, vars
<1> QED
  BY <1>1, <1>2, <1>3, <1>4, <1>5, <1>6, <1>8, <1>9, <1>10, <1>11, <1>12, <1>13, <1>14, <1>15, <1>16,
     <1>17, <1>18, <1>19, <1>20, <1>21, <1>22
  DEF Next, WriteStep

(* The variables of Sockets keep their types, for any number of sockets.    *)
THEOREM SocketsTypeCorrect == Spec => []TypeOK
<1> QED BY InitTyped, NextTyped, PTL DEF Spec

-----------------------------------------------------------------------------
(* One live socket *)

EntryInv ==
    /\ leaving # NoSocket => stopping = "logout"
    /\ ~ overlap =>
         /\ \A s \in Live : s = entry \/ s = leaving
         /\ starting # {} => Live = {} /\ entry = NoSocket /\ leaving = NoSocket
         /\ \A k, l \in starting : k = l
         /\ leaving = NoSocket \/ entry = NoSocket

StartStep ==
    /\ \E k \in Starter : Start(k)
    /\ UNCHANGED <<channel, socketVars, stopping, leaving, blurred>>

CloseStep ==
    /\ starting' = starting /\ overlap' = overlap /\ blurred' = blurred /\ channel' = channel
    /\ \E s \in Live, out \in BOOLEAN :
         /\ Close(s, out)
         /\ \/ UNCHANGED <<stopping, leaving>>
            \/ s = leaving /\ stopping' = "write" /\ leaving' = NoSocket

(* The steps that matter for sockets, by what they do to them. *)
LEMMA Steps ==
    ASSUME TypeOK, [Next]_vars
    PROVE  \/ StartStep \/ CloseStep \/ StopArrives
           \/ \E k \in Starter, s \in Socket : MakeSocket(k, s)
           \/ \E s \in Socket : Opens(s)
           \/ Die /\ channel' = channel
           \/ \E k \in Starter : StartThrows(k) /\ k = "awaited"
           \/ LogoutThrows /\ leaving \notin Live
           \/ DisconnectWrites
           \/ CreateChannel \/ ApiDisconnect \/ LoseCommand
           \/ \E s \in Socket : WriteStep(s)
           \/ \E s \in Socket, w \in Write : WriteThrows(s, w)
           \/ UNCHANGED vars
<1>1. Bootstrap \/ TimerFires \/ StartArrives \/ SendStarts => StartStep
  BY DEF Bootstrap, TimerFires, StartArrives, SendStarts, StartStep, Starter
<1>2. (\E s \in Socket : Scanned(s) \/ LosesConnection(s) \/ IsRefused(s)) => CloseStep
  <2> SUFFICES ASSUME NEW s \in Socket, Scanned(s) \/ LosesConnection(s) \/ IsRefused(s)
               PROVE  CloseStep
    OBVIOUS
  <2>1. s \in Live /\ \E out \in BOOLEAN : Close(s, out)
    BY DEF Scanned, LosesConnection, IsRefused, Live
  <2>2. UNCHANGED <<channel, starting, overlap, blurred, stopping, leaving>>
    BY DEF Scanned, LosesConnection, IsRefused, startVars, historyVars
  <2> QED BY <2>1, <2>2 DEF CloseStep
<1>3. LogoutWorks => CloseStep
  BY DEF LogoutWorks, CloseStep, startVars, historyVars
<1>4. LogoutThrows /\ leaving \in Live => CloseStep
  BY DEF LogoutThrows, CloseStep, startVars, historyVars
<1>5. Crash \/ DisconnectThrows \/ (\E k \in Starter : StartThrows(k) /\ k # "awaited")
        => Die /\ channel' = channel
  BY DEF Crash, DisconnectThrows, StartThrows
<1> QED BY <1>1, <1>2, <1>3, <1>4, <1>5 DEF Next

LEMMA NextEntry == TypeOK /\ EntryInv /\ [Next]_vars => EntryInv'
<1> SUFFICES ASSUME TypeOK, EntryInv, [Next]_vars PROVE EntryInv'
  OBVIOUS
<1> USE DEF EntryInv, Live, NoSocket, socketVars, startVars, stopVars, historyVars
<1>0. entry \in Nat /\ leaving \in Nat /\ Live \subseteq Socket /\ NoSocket \notin Socket
  BY SocketsAssumption DEF TypeOK, Socket
<1>1. CASE StartStep
  <2>1. PICK k \in Starter : Start(k)
    BY <1>1 DEF StartStep
  <2>2. UNCHANGED <<sock, entry, stopping, leaving>>
    BY <1>1 DEF StartStep
  <2>3. CASE entry # NoSocket
    BY <2>1, <2>2, <2>3 DEF Start
  <2>4. CASE entry = NoSocket
    <3>1. starting' = starting \cup {k}
      BY <2>1, <2>4 DEF Start
    <3>2. ~ overlap' => ~ overlap /\ starting = {} /\ leaving = NoSocket
      BY <2>1, <2>4 DEF Start
    <3>3. ~ overlap' => Live = {}
      BY <1>0, <2>4, <3>2
    <3> QED BY <2>2, <2>4, <3>1, <3>2, <3>3
  <2> QED BY <2>3, <2>4
<1>2. CASE CloseStep
  <2>1. PICK s \in Live, out \in BOOLEAN :
          /\ Close(s, out)
          /\ \/ UNCHANGED <<stopping, leaving>>
             \/ s = leaving /\ stopping' = "write" /\ leaving' = NoSocket
    BY <1>2 DEF CloseStep
  <2>2. sock' = [sock EXCEPT ![s] = "free"] /\ entry' = NoSocket
    BY <2>1 DEF Close
  <2>3. Live' \subseteq Live \ {s}
    BY <2>2 DEF TypeOK
  <2>4. starting' = starting /\ overlap' = overlap
    BY <1>2 DEF CloseStep
  <2>5. s \in Socket /\ s \in Live
    BY <2>1
  <2>6. ~ overlap => starting = {} /\ (s = entry \/ s = leaving)
    BY <2>5
  <2>7. CASE UNCHANGED <<stopping, leaving>>
    <3>1. \A q \in Live' : ~ overlap => q = leaving
      BY <1>0, <2>3, <2>5, <2>6
    <3> QED BY <2>2, <2>4, <2>6, <2>7, <3>1
  <2>8. CASE s = leaving /\ stopping' = "write" /\ leaving' = NoSocket
    <3>1. ~ overlap => entry = NoSocket
      BY <1>0, <2>5, <2>8
    <3>2. ~ overlap => Live' = {}
      BY <1>0, <2>3, <2>8, <3>1
    <3> QED BY <2>2, <2>4, <2>6, <2>8, <3>2
  <2> QED BY <2>1, <2>7, <2>8
<1>3. CASE StopArrives
  BY <1>0, <1>3 DEF StopArrives
<1>4. ASSUME NEW k \in Starter, NEW s \in Socket, MakeSocket(k, s) PROVE EntryInv'
  <2>1. starting # {} /\ starting' = starting \ {k} /\ k \in starting
    BY <1>4 DEF MakeSocket
  <2>2. entry' = s /\ Live' \subseteq Live \cup {s} /\ UNCHANGED <<overlap, leaving, stopping>>
    BY <1>4 DEF MakeSocket, TypeOK
  <2> QED BY <2>1, <2>2
<1>5. ASSUME NEW s \in Socket, Opens(s) PROVE EntryInv'
  <2>1. Live' = Live /\ UNCHANGED <<entry, starting, overlap, leaving, stopping>>
    BY <1>5 DEF Opens, TypeOK
  <2> QED BY <2>1
<1>6. CASE Die
  BY <1>6 DEF Die
<1>7. ASSUME NEW k \in Starter, StartThrows(k), k = "awaited" PROVE EntryInv'
  BY <1>7 DEF StartThrows
<1>8. CASE LogoutThrows /\ leaving \notin Live
  BY <1>8 DEF LogoutThrows
<1>9. CASE DisconnectWrites
  BY <1>9 DEF DisconnectWrites
<1>10. CASE CreateChannel \/ ApiDisconnect \/ LoseCommand
  BY <1>10 DEF CreateChannel, ApiDisconnect, LoseCommand
<1>11. ASSUME NEW s \in Socket, WriteStep(s) \/ \E w \in Write : WriteThrows(s, w) PROVE EntryInv'
  BY <1>11 DEF WriteStep, WriteOpen, WriteLeft, WriteLost, WriteThrows
<1>12. CASE UNCHANGED vars
  BY <1>12 DEF vars
<1> QED
  BY <1>1, <1>2, <1>3, <1>4, <1>5, <1>6, <1>7, <1>8, <1>9, <1>10, <1>11, <1>12, Steps

LEMMA InitEntry == Init => EntryInv
BY DEF Init, EntryInv, Live

(* Unless two starts have overlapped, there is one socket, and the manager  *)
(* knows it.                                                                *)
THEOREM OneSocket == Spec => []OneLiveSocket
<1>1. EntryInv => OneLiveSocket
  BY DEF EntryInv, OneLiveSocket
<1> QED BY <1>1, InitEntry, NextEntry, SocketsTypeCorrect, PTL DEF Spec

-----------------------------------------------------------------------------
(* CONNECTED is true *)

Parting(s) == <<s, "lost">> \in pending \/ <<s, "left">> \in pending

TruthInv ==
    ~ overlap /\ ~ blurred =>
        /\ \A s \in Socket : <<s, "open">> \in pending => sock[s] = "open" \/ Parting(s)
        /\ channel = "CONNECTED" =>
             \/ \E s \in Socket : Parting(s)
             \/ stopping # "idle"
             \/ entry # NoSocket /\ sock[entry] = "open"

LEMMA NextTruth == TypeOK /\ EntryInv /\ TruthInv /\ [Next]_vars => TruthInv'
<1> SUFFICES ASSUME TypeOK, EntryInv, TruthInv, [Next]_vars PROVE TruthInv'
  OBVIOUS
<1> USE DEF TruthInv, Parting, NoSocket, socketVars, startVars, stopVars, historyVars
<1>0. entry \in Nat /\ leaving \in Nat /\ NoSocket \notin Socket
  BY SocketsAssumption DEF TypeOK, Socket
<1>1. CASE StartStep
  <2>1. UNCHANGED <<channel, sock, entry, pending, stopping, blurred>>
    BY <1>1 DEF StartStep
  <2>2. ~ overlap' => ~ overlap
    BY <1>1 DEF StartStep, Start
  <2> QED BY <2>1, <2>2
<1>2. CASE CloseStep
  <2>1. PICK s \in Live, out \in BOOLEAN : Close(s, out)
    BY <1>2 DEF CloseStep
  <2>2. s \in Socket
    BY DEF Live
  <2>3. \A q \in Socket \ {s} : sock'[q] = sock[q]
    BY <2>1 DEF Close, TypeOK
  <2>4. Parting(s)' /\ pending \subseteq pending'
        /\ \A q \in Socket : <<q, "open">> \in pending' => <<q, "open">> \in pending
    BY <2>1 DEF Close
  <2>5. overlap' = overlap /\ blurred' = blurred
    BY <1>2 DEF CloseStep
  <2>6. \A q \in Socket : Parting(q) => Parting(q)'
    BY <2>4
  <2> HIDE DEF Parting
  <2> QED BY <2>2, <2>3, <2>4, <2>5, <2>6
<1>3. CASE StopArrives
  BY <1>0, <1>3 DEF StopArrives
<1>4. ASSUME NEW k \in Starter, NEW s \in Socket, MakeSocket(k, s) PROVE TruthInv'
  <2>1. <<s, "open">> \notin pending
    BY <1>4 DEF MakeSocket, Gone, Write
  <2>2. ~ overlap => entry = NoSocket
    BY <1>4 DEF MakeSocket, EntryInv
  <2>3. \A q \in Socket \ {s} : sock'[q] = sock[q]
    BY <1>4 DEF MakeSocket, TypeOK
  <2>4. UNCHANGED <<pending, overlap, blurred, channel, stopping>>
    BY <1>4 DEF MakeSocket
  <2> QED BY <2>1, <2>2, <2>3, <2>4
<1>5. ASSUME NEW s \in Socket, Opens(s) PROVE TruthInv'
  <2>1. /\ UNCHANGED <<entry, overlap, blurred, channel, stopping>>
        /\ pending' = pending \cup {<<s, "open">>}
        /\ sock'[s] = "open" /\ \A q \in Socket : sock[q] = "open" => sock'[q] = "open"
    BY <1>5 DEF Opens, TypeOK
  <2>2. entry # NoSocket => entry \in Socket
    BY DEF TypeOK
  <2> QED BY <2>1, <2>2
<1>6. CASE Die
  BY <1>6 DEF Die
<1>7. ASSUME NEW k \in Starter, StartThrows(k), k = "awaited" PROVE TruthInv'
  BY <1>7 DEF StartThrows
<1>8. CASE LogoutThrows /\ leaving \notin Live
  BY <1>8 DEF LogoutThrows
<1>9. CASE DisconnectWrites
  BY <1>9 DEF DisconnectWrites
<1>10. CASE CreateChannel \/ ApiDisconnect \/ LoseCommand
  BY <1>10 DEF CreateChannel, ApiDisconnect, LoseCommand
<1>11. ASSUME NEW s \in Socket, WriteOpen(s) PROVE TruthInv'
  <2>1. /\ UNCHANGED <<sock, entry, overlap, blurred, stopping>>
        /\ pending' = pending \ {<<s, "open">>} /\ <<s, "open">> \in pending
    BY <1>11 DEF WriteOpen
  <2>2. \A q \in Socket : Parting(q)' <=> Parting(q)
    BY <2>1
  <2>3. sock[s] = "open" /\ ~ overlap => s = entry \/ (s = leaving /\ stopping = "logout")
    BY <1>0 DEF EntryInv, Live
  <2>4. s # NoSocket
    BY <1>0
  <2> HIDE DEF Parting, NoSocket
  <2> QED BY <2>1, <2>2, <2>3, <2>4
<1>12. ASSUME NEW s \in Socket, WriteLeft(s) \/ WriteLost(s) PROVE TruthInv'
  <2>1. channel' # "CONNECTED" /\ pending' \subseteq pending /\ Settles
    BY <1>12 DEF WriteLeft, WriteLost
  <2>2. ~ blurred' => \A q \in Socket : <<q, "open">> \notin pending'
    BY <2>1 DEF Settles, Overtaken
  <2> QED BY <2>1, <2>2
<1>13. ASSUME NEW s \in Socket, NEW w \in Write, WriteThrows(s, w) PROVE TruthInv'
  BY <1>13 DEF WriteThrows
<1>14. CASE UNCHANGED vars
  BY <1>14 DEF vars
<1> QED
  BY <1>1, <1>2, <1>3, <1>4, <1>5, <1>6, <1>7, <1>8, <1>9, <1>10, <1>11, <1>12, <1>13, <1>14, Steps
  DEF WriteStep

(* Whatever closed and reopened: when nothing is under way and the last     *)
(* writes were not out of order, a CONNECTED channel has an open socket.    *)
THEOREM ConnectedIsTrue == Spec => []ConnectedIsOpen
<1>1. Init => TruthInv
  BY DEF Init, TruthInv
<1>2. TruthInv => ConnectedIsOpen
  BY DEF TruthInv, ConnectedIsOpen, Quiet, Parting
<1> QED BY <1>1, <1>2, InitEntry, NextEntry, NextTruth, SocketsTypeCorrect, PTL DEF Spec

-----------------------------------------------------------------------------
(* A disconnect is final *)

Idle(names) ==
    /\ starting = {} /\ ~ timer /\ ~ loose
    /\ entry = NoSocket
    /\ "start" \notin commands
    /\ \A s \in Socket, w \in Write : <<s, w>> \in pending => w \in names

FinalInv ==
    /\ "stop" \in commands => channel # "NONE"
    /\ cut = "going" =>
         /\ Idle({"open", "left"})
         /\ stopping # "idle" /\ channel # "NONE"
         /\ Live \subseteq {leaving}
         /\ Live # {} => stops
    /\ cut = "done" =>
         /\ Idle({"left"})
         /\ channel = "DISCONNECTED"
         /\ Live = {}

LEMMA NextFinal == TypeOK /\ EntryInv /\ FinalInv /\ [Next]_vars => FinalInv'
<1> SUFFICES ASSUME TypeOK, EntryInv, FinalInv, [Next]_vars PROVE FinalInv'
  OBVIOUS
<1> USE DEF FinalInv, Idle, Live, socketVars, startVars, stopVars, historyVars
<1>0. entry \in Nat /\ leaving \in Nat /\ Live \subseteq Socket /\ NoSocket \notin Socket
  BY SocketsAssumption DEF TypeOK, Socket, NoSocket
<1>a. Disturb => cut' # "going" /\ (cut' = "done" => cut = "done")
  BY DEF Disturb
<1>1. CASE CreateChannel
  BY <1>1 DEF CreateChannel
<1>2. CASE ApiDisconnect
  BY <1>2 DEF ApiDisconnect
<1>3. CASE LoseCommand
  BY <1>3 DEF LoseCommand
<1>4. CASE Bootstrap
  BY <1>4, <1>a DEF Bootstrap
<1>5. CASE TimerFires
  BY <1>5, <1>a DEF TimerFires
<1>6. CASE StartArrives
  BY <1>6, <1>a DEF StartArrives
<1>7. CASE SendStarts
  BY <1>7 DEF SendStarts
<1>8. ASSUME NEW k \in Starter, NEW s \in Socket, MakeSocket(k, s) PROVE FinalInv'
  BY <1>8 DEF MakeSocket
<1>9. CASE Die /\ UNCHANGED <<channel, link, commands>>
  BY <1>9, <1>a DEF Die
<1>10. ASSUME NEW k \in Starter, StartThrows(k) PROVE FinalInv'
  BY <1>9, <1>10 DEF StartThrows
<1>11. ASSUME NEW s \in Socket, NEW out \in BOOLEAN, s \in Live, Close(s, out),
              UNCHANGED <<channel, starting, timer, loose, commands, cut>>,
              stopping' # "idle" \/ stopping' = stopping,
              leaving' = leaving \/ s = leaving
       PROVE  FinalInv'
  <2>1. entry' = NoSocket /\ Live' \subseteq Live \ {s}
    BY <1>11 DEF Close, TypeOK
  <2>2. cut = "going" => s = leaving /\ stops /\ Live' = {}
    BY <1>11, <2>1
  <2>3. cut = "going" => pending' = pending \cup {<<s, "left">>}
    BY <1>11, <2>2 DEF Close
  <2>4. cut # "done"
    BY <1>11
  <2> QED BY <1>11, <2>1, <2>2, <2>3, <2>4
<1>12. ASSUME NEW s \in Socket, Scanned(s) \/ LosesConnection(s) \/ IsRefused(s) PROVE FinalInv'
  <2>1. s \in Live /\ \E out \in BOOLEAN : Close(s, out)
    BY <1>12 DEF Scanned, LosesConnection, IsRefused
  <2>2. UNCHANGED <<channel, starting, timer, loose, commands, cut, stopping, leaving>>
    BY <1>12 DEF Scanned, LosesConnection, IsRefused
  <2> QED BY <1>11, <2>1, <2>2
<1>13. ASSUME NEW s \in Socket, Opens(s) PROVE FinalInv'
  <2>1. Live' = Live /\ s \in Live
    BY <1>13 DEF Opens, TypeOK
  <2>2. pending' = pending \cup {<<s, "open">>}
    BY <1>13 DEF Opens
  <2> QED BY <1>13, <2>1, <2>2 DEF Opens
<1>14. ASSUME NEW s \in Socket, WriteOpen(s) PROVE FinalInv'
  BY <1>14 DEF WriteOpen, Write
<1>15. ASSUME NEW s \in Socket, WriteLeft(s) PROVE FinalInv'
  BY <1>15 DEF WriteLeft
<1>16. ASSUME NEW s \in Socket, WriteLost(s) PROVE FinalInv'
  BY <1>16 DEF WriteLost, Write
<1>17. ASSUME NEW s \in Socket, NEW w \in Write, WriteThrows(s, w) PROVE FinalInv'
  BY <1>17 DEF WriteThrows
<1>18. CASE StopArrives
  <2>1. CASE cut = "done"
    BY <1>18, <2>1 DEF StopArrives
  <2>2. CASE cut # "done" /\ Undisturbed
    <3>1. Live' = Live /\ Live \subseteq {entry} /\ leaving' = entry
      BY <1>18, <2>2 DEF StopArrives, Undisturbed
    <3> QED BY <1>18, <2>2, <3>1 DEF StopArrives, Undisturbed
  <2>3. CASE cut # "done" /\ ~ Undisturbed
    BY <1>18, <2>3 DEF StopArrives
  <2> QED BY <2>1, <2>2, <2>3
<1>19. CASE LogoutWorks
  <2>1. leaving \in Live /\ leaving \in Socket /\ Close(leaving, TRUE)
    BY <1>19 DEF LogoutWorks
  <2>2. UNCHANGED <<channel, starting, timer, loose, commands, cut>> /\ stopping' # "idle"
    BY <1>19 DEF LogoutWorks
  <2> QED BY <1>11, <2>1, <2>2
<1>20. CASE LogoutThrows
  <2>1. UNCHANGED <<channel, starting, timer, loose, commands, cut>> /\ stopping' # "idle"
    BY <1>20 DEF LogoutThrows
  <2>2. CASE leaving \in Live
    <3>1. leaving \in Socket /\ Close(leaving, FALSE)
      BY <1>20, <2>2 DEF LogoutThrows
    <3> QED BY <1>11, <2>1, <2>2, <3>1
  <2>3. CASE leaving \notin Live
    <3>1. UNCHANGED <<sock, entry, pending, stops>>
      BY <1>20, <2>3 DEF LogoutThrows
    <3>2. Live' = Live
      BY <3>1
    <3>3. cut = "going" => Live = {}
      BY <2>3
    <3> QED BY <2>1, <3>1, <3>2, <3>3
  <2> QED BY <2>2, <2>3
<1>21. CASE DisconnectWrites
  <2>1. leaving = NoSocket
    BY <1>21 DEF DisconnectWrites, EntryInv
  <2>2. cut = "going" => Live = {}
    BY <1>0, <2>1
  <2>3. cut = "going" /\ cut' = "done" =>
          \A s \in Socket, w \in Write : <<s, w>> \in pending => w \in {"left"}
    BY <1>21 DEF DisconnectWrites, Overtaken
  <2>4. cut' # "going" /\ (cut' = "done" => cut \in {"going", "done"})
    BY <1>21 DEF DisconnectWrites
  <2> QED BY <1>21, <2>2, <2>3, <2>4 DEF DisconnectWrites
<1>22. CASE DisconnectThrows \/ Crash
  BY <1>9, <1>22 DEF DisconnectThrows, Crash
<1>23. CASE UNCHANGED vars
  BY <1>23 DEF vars
<1> QED
  BY <1>1, <1>2, <1>3, <1>4, <1>5, <1>6, <1>7, <1>8, <1>10, <1>12, <1>13, <1>14, <1>15, <1>16, <1>17,
     <1>18, <1>19, <1>20, <1>21, <1>22, <1>23
  DEF Next, WriteStep

(* A disconnect that nothing out of its reach disturbed stays final through *)
(* timers, handlers, bootstraps and crashes, for any number of sockets.     *)
THEOREM DisconnectIsFinal == Spec => []DisconnectHolds
<1>1. Init => FinalInv
  BY DEF Init, FinalInv
<1>2. FinalInv => DisconnectHolds
  BY DEF FinalInv, DisconnectHolds
<1> QED BY <1>1, <1>2, InitEntry, NextEntry, NextFinal, SocketsTypeCorrect, PTL DEF Spec
====

--------------------------- MODULE SessionProofs ---------------------------
(***************************************************************************)
(* Session holds its invariants for every value of the periods and bounds. *)
(***************************************************************************)
EXTENDS Session, TLAPS

(* The two queues keep their types whatever a step does to them.           *)
LEMMA QueueTypes ==
  ASSUME TypeOK
  PROVE  /\ \A f \in DeviceFrames :
              /\ Append(toServer, f) \in Seq(DeviceFrames)
              /\ Outbox(f) \in Seq(DeviceFrames)
         /\ \A f \in ServerFrames : Append(toDevice, f) \in Seq(ServerFrames)
         /\ toServer # <<>> => Tail(toServer) \in Seq(DeviceFrames)
         /\ toDevice # <<>> => Tail(toDevice) \in Seq(ServerFrames)
         /\ <<>> \in Seq(DeviceFrames) /\ <<>> \in Seq(ServerFrames)
  BY DEF TypeOK, Outbox

(* What the steps put into the bounded variables.                          *)
LEMMA Bounds ==
  /\ PingPeriod \in Nat /\ NetworkTimeout \in Nat
  /\ 0 \in 0 .. PingPeriod /\ 0 \in 0 .. MaxClients /\ 0 \in 0 .. AgeCap
  /\ AgeCap \in Nat /\ MaxClients \in Nat /\ MaxFaults \in Nat /\ MaxRequests \in Nat
  BY TimeAssumption, BoundAssumption DEF AgeCap

LEMMA DeviceStep ==
  ASSUME DeviceOK, Next
  PROVE  DeviceOK'
<1> USE Bounds DEF DeviceOK, Locations, Handshaking, Stopping
<1>1. CASE LoopReconnect
  BY <1>1 DEF LoopReconnect, BeginDisconnect, Goto
<1>2. CASE ClientStopped
  <2>1. CASE pc = "StoppingReconnect" /\ Goto("Backoff") /\ lastEvent' = "Disconnected"
    BY <1>2, <2>1 DEF ClientStopped, Goto
  <2>2. CASE pc = "StoppingOta" /\ Goto("OtaDelay") /\ UNCHANGED lastEvent
    BY <1>2, <2>2 DEF ClientStopped, Goto
  <2>q. QED
    BY <1>2, <2>1, <2>2 DEF ClientStopped
<1>3. CASE LoopOffline
  BY <1>3 DEF LoopOffline, Goto
<1>4. CASE LoopReceive
  <2>1. CASE BeginDisconnect("StoppingOta")
    BY <1>4, <2>1 DEF LoopReceive, Heard, BeginDisconnect, Goto
  <2>2. CASE UNCHANGED <<pc, wait, pinger, reconnect_requested>>
    BY <1>4, <2>2 DEF LoopReceive, Heard
  <2>q. QED
    BY <1>4, <2>1, <2>2 DEF LoopReceive
<1>5. CASE RunOta
  BY <1>5 DEF RunOta, Reboot, Goto
<1>6. CASE BackoffDone
  <2> DEFINE lost == leaked + (IF client = "Null" THEN 0 ELSE 1)
  <2>0. lost \in Nat
    BY DEF lost
  <2> HIDE DEF lost
  <2>1. CASE /\ lost <= MaxClients /\ leaked' = lost
             /\ Goto("Connecting") /\ client' = "Allocated" /\ authenticated' = FALSE
             /\ UNCHANGED <<pinger, phase, age, reconnect_requested, lastEvent>>
    <3>1. leaked' \in 0 .. MaxClients
      BY <2>0, <2>1
    <3>q. QED
      BY <2>1, <3>1 DEF Goto
  <2>2. CASE Reboot
    BY <2>2 DEF Reboot, Goto
  <2>q. QED
    BY <1>6, <2>1, <2>2 DEF BackoffDone, lost
<1>7. CASE ConnectFail
  BY <1>7 DEF ConnectFail, Goto
<1>8. CASE ConnectOk
  BY <1>8 DEF ConnectOk, Goto
<1>9. CASE NonceReceived
  BY <1>9 DEF NonceReceived, Heard, Goto
<1>10. CASE NonceTimeout
  <2>1. CASE Reboot
    BY <2>1 DEF Reboot, Goto
  <2>2. CASE ~Reboot
    BY <1>10, <2>2 DEF NonceTimeout, Goto
  <2>q. QED
    BY <2>1, <2>2
<1>11. CASE WelcomeReceived
  BY <1>11 DEF WelcomeReceived, Heard, start_ping, Goto
<1>12. CASE BadLogin
  BY <1>12 DEF BadLogin, Heard, Goto
<1>13. CASE Ping
  BY <1>13 DEF Ping
<1>14. CASE Tick
  BY <1>14 DEF Tick, PingDue
<1>15. CASE PowerCycle
  BY <1>15 DEF PowerCycle, Reboot, Goto
<1>16. CASE UNCHANGED device
  BY <1>16 DEF device
<1>q. QED
  BY <1>1, <1>2, <1>3, <1>4, <1>5, <1>6, <1>7, <1>8, <1>9, <1>10, <1>11, <1>12, <1>13, <1>14, <1>15, <1>16
     DEF Next, Sketch, Server, Faults, SrvHello, SrvNonce, SrvSession, SrvRequest,
         SrvClose, Drop, Stall, Resume

LEMMA LinkStep ==
  ASSUME LinkOK, Next
  PROVE  LinkOK'
<1> USE DEF LinkOK
<1>1. CASE ClientStopped
  BY <1>1 DEF ClientStopped, HangUp
<1>2. CASE RunOta
  BY <1>2 DEF RunOta, Reboot, HangUp
<1>3. CASE BackoffDone
  BY <1>3 DEF BackoffDone, Reboot, HangUp
<1>4. CASE ConnectOk
  BY <1>4 DEF ConnectOk
<1>5. CASE NonceTimeout
  BY <1>5 DEF NonceTimeout, Reboot, HangUp
<1>6. CASE SrvHello
  BY <1>6 DEF SrvHello
<1>7. CASE SrvNonce
  BY <1>7 DEF SrvNonce
<1>8. CASE SrvClose
  BY <1>8 DEF SrvClose, HangUp
<1>9. CASE Drop
  BY <1>9 DEF Drop, HangUp
<1>10. CASE Stall
  BY <1>10 DEF Stall
<1>11. CASE Resume
  BY <1>11 DEF Resume
<1>12. CASE PowerCycle
  BY <1>12 DEF PowerCycle, Reboot, HangUp
<1>13. CASE UNCHANGED <<link, stalled, srv>>
  BY <1>13
<1>q. QED
  BY <1>1, <1>2, <1>3, <1>4, <1>5, <1>6, <1>7, <1>8, <1>9, <1>10, <1>11,
         <1>12, <1>13
     DEF Next, Sketch, Server, Faults, LoopReconnect, LoopOffline,
         LoopReceive, ConnectFail, NonceReceived, WelcomeReceived, BadLogin,
         Ping, Tick, SrvSession, SrvRequest, network

LEMMA QueueStep ==
  ASSUME TypeOK, Next
  PROVE  toServer' \in Seq(DeviceFrames) /\ toDevice' \in Seq(ServerFrames)
<1>0. /\ toServer \in Seq(DeviceFrames) /\ toDevice \in Seq(ServerFrames)
      /\ {"Hello", "Nonce", "Junk", "Ping", "Ack"} \subseteq DeviceFrames
      /\ {"Challenge", "Welcome", "Reject", "Ack"} \subseteq ServerFrames
      /\ Requests \subseteq ServerFrames
  BY DEF TypeOK, DeviceFrames, ServerFrames
<1> USE <1>0, QueueTypes
<1>1. CASE ClientStopped
  BY <1>1 DEF ClientStopped, HangUp
<1>2. CASE LoopReceive
  BY <1>2 DEF LoopReceive, is_connected
<1>3. CASE RunOta
  BY <1>3 DEF RunOta, Reboot, HangUp
<1>4. CASE BackoffDone
  BY <1>4 DEF BackoffDone, Reboot, HangUp
<1>5. CASE ConnectOk
  BY <1>5 DEF ConnectOk, DeviceFrames
<1>6. CASE NonceReceived
  BY <1>6 DEF NonceReceived
<1>7. CASE NonceTimeout
  BY <1>7 DEF NonceTimeout, Reboot, HangUp
<1>8. CASE WelcomeReceived
  BY <1>8 DEF WelcomeReceived
<1>9. CASE BadLogin
  BY <1>9 DEF BadLogin
<1>10. CASE Ping
  BY <1>10 DEF Ping
<1>11. CASE SrvHello
  BY <1>11 DEF SrvHello, SrvReads
<1>12. CASE SrvNonce
  BY <1>12 DEF SrvNonce, SrvReads
<1>13. CASE SrvSession
  BY <1>13 DEF SrvSession, SrvReads
<1>14. CASE SrvRequest
  BY <1>14 DEF SrvRequest
<1>15. CASE SrvClose
  BY <1>15 DEF SrvClose, HangUp
<1>16. CASE Drop
  BY <1>16 DEF Drop, HangUp
<1>17. CASE PowerCycle
  BY <1>17 DEF PowerCycle, Reboot, HangUp
<1>18. CASE UNCHANGED <<toServer, toDevice>>
  BY <1>18
<1>q. QED
  BY <1>1, <1>2, <1>3, <1>4, <1>5, <1>6, <1>7, <1>8, <1>9, <1>10, <1>11,
         <1>12, <1>13, <1>14, <1>15, <1>16, <1>17, <1>18
     DEF Next, Sketch, Server, Faults, LoopReconnect, LoopOffline,
         ConnectFail, Tick, Stall, Resume, network

LEMMA BudgetStep ==
  ASSUME faults \in 0 .. MaxFaults, requests \in 0 .. MaxRequests, Next
  PROVE  faults' \in 0 .. MaxFaults /\ requests' \in 0 .. MaxRequests
<1> USE Bounds
<1>1. CASE ConnectFail
  BY <1>1 DEF ConnectFail
<1>2. CASE SrvRequest
  BY <1>2 DEF SrvRequest
<1>3. CASE Drop
  BY <1>3 DEF Drop, Fault
<1>4. CASE Stall
  BY <1>4 DEF Stall, Fault
<1>5. CASE PowerCycle
  BY <1>5 DEF PowerCycle, Fault
<1>6. CASE UNCHANGED budget
  BY <1>6 DEF budget
<1>q. QED
  BY <1>1, <1>2, <1>3, <1>4, <1>5, <1>6
     DEF Next, Sketch, Server, Faults, LoopReconnect, ClientStopped,
         LoopOffline, LoopReceive, RunOta, BackoffDone, ConnectOk,
         NonceReceived, NonceTimeout, WelcomeReceived, BadLogin, Ping, Tick,
         SrvHello, SrvNonce, SrvSession, SrvClose, Resume, budget

LEMMA TypeStep ==
  ASSUME TypeOK, [Next]_vars
  PROVE  TypeOK'
<1>1. CASE Next
  BY <1>1, DeviceStep, LinkStep, QueueStep, BudgetStep DEF TypeOK
<1>2. CASE UNCHANGED vars
  BY <1>2 DEF TypeOK, DeviceOK, LinkOK, vars, device, network, budget
<1>q. QED
  BY <1>1, <1>2

(* ControlInv: what each location says of the connection.                  *)
LEMMA ControlStep ==
  ASSUME IInv, Next
  PROVE  ControlInv'
<1> USE DEF device, network, IInv, ControlInv, LoginInv, TickerInv, RequestServable, TypeOK, DeviceOK, LinkOK, Locations, Handshaking, Stopping
<1>1. CASE LoopReconnect
  BY <1>1 DEF LoopReconnect, BeginDisconnect, Goto
<1>2. CASE ClientStopped
  BY <1>2 DEF ClientStopped, HangUp, Goto
<1>3. CASE LoopOffline
  BY <1>3 DEF LoopOffline, is_connected, Goto
<1>4. CASE LoopReceive
  BY <1>4 DEF LoopReceive, BeginDisconnect, Goto
<1>5. CASE RunOta
  BY <1>5 DEF RunOta, Reboot, HangUp, Goto
<1>6. CASE BackoffDone
  BY <1>6 DEF BackoffDone, Reboot, HangUp, Goto
<1>7. CASE ConnectFail
  BY <1>7 DEF ConnectFail, Goto
<1>8. CASE ConnectOk
  BY <1>8 DEF ConnectOk, Goto
<1>9. CASE NonceReceived
  BY <1>9 DEF NonceReceived, Goto
<1>10. CASE NonceTimeout
  BY <1>10 DEF NonceTimeout, Reboot, HangUp, Goto
<1>11. CASE WelcomeReceived
  BY <1>11 DEF WelcomeReceived, Goto
<1>12. CASE BadLogin
  BY <1>12 DEF BadLogin, Goto
<1>13. CASE Ping
  BY <1>13 DEF Ping
<1>14. CASE Tick
  BY <1>14 DEF Tick
<1>15. CASE SrvHello
  BY <1>15 DEF SrvHello, SrvReads
<1>16. CASE SrvNonce
  BY <1>16 DEF SrvNonce, SrvReads
<1>17. CASE SrvSession
  BY <1>17 DEF SrvSession, SrvReads
<1>18. CASE SrvRequest
  BY <1>18 DEF SrvRequest
<1>19. CASE SrvClose
  BY <1>19 DEF SrvClose, HangUp
<1>20. CASE Drop
  BY <1>20 DEF Drop, HangUp
<1>21. CASE PowerCycle
  BY <1>21 DEF PowerCycle, Reboot, HangUp, Goto
<1>22. CASE UNCHANGED <<pc, client, authenticated, link, toDevice, lastEvent>>
  BY <1>22
<1>q. QED
  BY <1>1, <1>2, <1>3, <1>4, <1>5, <1>6, <1>7, <1>8, <1>9, <1>10, <1>11,
         <1>12, <1>13, <1>14, <1>15, <1>16, <1>17, <1>18, <1>19, <1>20, <1>21,
         <1>22
     DEF Next, Sketch, Server, Faults, Stall, Resume, device, network

(* TickerInv: ping() runs when there is something to watch, and only then. *)
LEMMA TickerStep ==
  ASSUME IInv, Next
  PROVE  TickerInv'
<1> USE DEF IInv, TickerInv, RequestServable, AppWatched, ControlInv, Handshaking, Stopping
<1>1. CASE LoopReconnect
  BY <1>1 DEF LoopReconnect, BeginDisconnect, Goto
<1>2. CASE ClientStopped
  BY <1>2 DEF ClientStopped, Goto
<1>3. CASE LoopOffline
  BY <1>3 DEF LoopOffline, Goto
<1>4. CASE LoopReceive
  BY <1>4 DEF LoopReceive, is_connected, BeginDisconnect, Goto
<1>5. CASE RunOta
  BY <1>5 DEF RunOta, Reboot, Goto
<1>6. CASE BackoffDone
  BY <1>6 DEF BackoffDone, Reboot, Goto
<1>7. CASE ConnectFail
  BY <1>7 DEF ConnectFail, Goto
<1>8. CASE ConnectOk
  BY <1>8 DEF ConnectOk, Goto
<1>9. CASE NonceReceived
  BY <1>9 DEF NonceReceived, Goto
<1>10. CASE NonceTimeout
  BY <1>10 DEF NonceTimeout, Reboot, Goto
<1>11. CASE WelcomeReceived
  BY <1>11 DEF WelcomeReceived, start_ping, Goto
<1>12. CASE BadLogin
  BY <1>12 DEF BadLogin, Goto
<1>13. CASE Ping
  BY <1>13 DEF Ping, PingDue
<1>14. CASE PowerCycle
  BY <1>14 DEF PowerCycle, Reboot, Goto
<1>15. CASE UNCHANGED <<pc, client, pinger, reconnect_requested, lastEvent>>
  BY <1>15
<1>q. QED
  BY <1>1, <1>2, <1>3, <1>4, <1>5, <1>6, <1>7, <1>8, <1>9, <1>10, <1>11,
         <1>12, <1>13, <1>14, <1>15
     DEF Next, Sketch, Server, Faults, Tick, SrvHello, SrvNonce, SrvSession,
         SrvRequest, SrvClose, Drop, Stall, Resume, Tick, device

(* SilenceInv: each second of silence is a second of the ticker's period.   *)
LEMMA SilenceStep ==
  ASSUME IInv, Next
  PROVE  SilenceInv'
<1>0. /\ age \in Nat /\ phase \in Nat /\ NetworkTimeout \in Nat
      /\ pinger \in BOOLEAN /\ reconnect_requested \in BOOLEAN
  BY Bounds DEF IInv, TypeOK, DeviceOK
<1>i. SilenceInv
  BY DEF IInv
<1> USE <1>0, <1>i DEF SilenceInv
<1>1. CASE LoopReconnect
  BY <1>1 DEF LoopReconnect, BeginDisconnect
<1>2. CASE LoopReceive
  BY <1>2 DEF LoopReceive, Heard, BeginDisconnect
<1>3. CASE RunOta
  BY <1>3 DEF RunOta, Reboot
<1>4. CASE BackoffDone
  <2>1. CASE Reboot
    BY <2>1 DEF Reboot
  <2>2. CASE UNCHANGED <<pinger, phase, age, reconnect_requested>>
    BY <2>2
  <2>q. QED
    BY <1>4, <2>1, <2>2 DEF BackoffDone
<1>5. CASE NonceReceived
  BY <1>5 DEF NonceReceived, Heard
<1>6. CASE NonceTimeout
  <2>1. CASE Reboot
    BY <2>1 DEF Reboot
  <2>2. CASE UNCHANGED <<pinger, phase, age, reconnect_requested>>
    BY <2>2
  <2>q. QED
    BY <1>6, <2>1, <2>2 DEF NonceTimeout
<1>7. CASE WelcomeReceived
  BY <1>7 DEF WelcomeReceived, Heard, start_ping
<1>8. CASE BadLogin
  BY <1>8 DEF BadLogin, Heard
<1>9. CASE Ping
  BY <1>9 DEF Ping, TimedOut
<1>10. CASE Tick
  BY <1>10 DEF Tick, PingDue
<1>11. CASE PowerCycle
  BY <1>11 DEF PowerCycle, Reboot
<1>12. CASE UNCHANGED <<pinger, phase, age, reconnect_requested>>
  BY <1>12
<1>q. QED
  BY <1>1, <1>2, <1>3, <1>4, <1>5, <1>6, <1>7, <1>8, <1>9, <1>10, <1>11, <1>12
     DEF Next, Sketch, Server, Faults, ClientStopped, LoopOffline,
         ConnectFail, ConnectOk, SrvHello, SrvNonce, SrvSession, SrvRequest,
         SrvClose, Drop, Stall, Resume, device

(* BeliefInv: ping() has the last word before the silence is too long.      *)
LEMMA BeliefStep ==
  ASSUME IInv, Next
  PROVE  BeliefInv'
<1>0. /\ age \in Nat /\ phase \in 0 .. PingPeriod
      /\ NetworkTimeout \in Nat /\ PingPeriod \in Nat
      /\ pinger \in BOOLEAN /\ reconnect_requested \in BOOLEAN
  BY Bounds DEF IInv, TypeOK, DeviceOK
<1>i. BeliefInv /\ ControlInv /\ TickerInv /\ SilenceInv
  BY DEF IInv
<1> USE <1>0, <1>i DEF BeliefInv, told
<1>1. CASE Tick
  <2> SUFFICES ASSUME told' = "Connected"
               PROVE  age' <= NetworkTimeout + PingPeriod
    OBVIOUS
  <2>1. pc = "Loop" /\ ~reconnect_requested
    BY <1>1 DEF Tick, DeviceWaits, ControlInv, Handshaking
  <2>2. pinger
    BY <1>1, <2>1 DEF Tick, TickerInv, AppWatched
  <2>3. phase < PingPeriod
    BY <1>1, <2>2 DEF Tick, PingDue
  <2>4. age <= NetworkTimeout + phase
    BY <2>1, <2>2 DEF SilenceInv
  <2>5. age' <= age + 1
    BY <1>1 DEF Tick
  <2>q. QED
    BY <2>3, <2>4, <2>5, <1>1 DEF Tick
<1>2. CASE LoopReconnect
  BY <1>2 DEF LoopReconnect
<1>3. CASE ClientStopped
  BY <1>3 DEF ClientStopped, Goto, Stopping
<1>4. CASE LoopOffline
  BY <1>4 DEF LoopOffline
<1>5. CASE LoopReceive
  BY <1>5 DEF LoopReceive, Heard
<1>6. CASE RunOta
  BY <1>6 DEF RunOta, Reboot
<1>7. CASE BackoffDone
  BY <1>7 DEF BackoffDone, Reboot, Goto
<1>8. CASE ConnectFail
  BY <1>8 DEF ConnectFail, Goto
<1>9. CASE ConnectOk
  BY <1>9 DEF ConnectOk, Goto
<1>10. CASE NonceReceived
  BY <1>10 DEF NonceReceived, Heard
<1>11. CASE NonceTimeout
  BY <1>11 DEF NonceTimeout, Reboot, Goto
<1>12. CASE WelcomeReceived
  BY <1>12 DEF WelcomeReceived, Heard
<1>13. CASE BadLogin
  BY <1>13 DEF BadLogin, Goto, ControlInv, Handshaking
<1>14. CASE PowerCycle
  BY <1>14 DEF PowerCycle, Reboot
<1>15. CASE UNCHANGED <<pc, age, lastEvent>>
  BY <1>15
<1>q. QED
  BY <1>1, <1>2, <1>3, <1>4, <1>5, <1>6, <1>7, <1>8, <1>9,
     <1>10, <1>11, <1>12, <1>13, <1>14, <1>15
     DEF Next, Sketch, Server, Faults, Ping, SrvHello, SrvNonce, SrvSession,
         SrvRequest, SrvClose, Drop, Stall, Resume, device

(* LoginInv: only a welcome the server sent makes a session.               *)
LEMMA LoginStep ==
  ASSUME IInv, Next
  PROVE  LoginInv'
<1> USE DEF device, network, IInv, LoginInv, SessionAgreed, ControlInv, TypeOK,
            LinkOK, DeviceOK, Handshaking
<1>1. CASE ClientStopped
  BY <1>1 DEF ClientStopped, HangUp
<1>2. CASE LoopReceive
  BY <1>2 DEF LoopReceive
<1>3. CASE RunOta
  BY <1>3 DEF RunOta, Reboot, HangUp
<1>4. CASE BackoffDone
  BY <1>4 DEF BackoffDone, Reboot, HangUp
<1>5. CASE ConnectOk
  BY <1>5 DEF ConnectOk
<1>6. CASE NonceReceived
  BY <1>6 DEF NonceReceived
<1>7. CASE NonceTimeout
  BY <1>7 DEF NonceTimeout, Reboot, HangUp
<1>8. CASE WelcomeReceived
  BY <1>8 DEF WelcomeReceived, IsHello
<1>9. CASE BadLogin
  <2>1. link' = link /\ srv' = srv /\ authenticated' = authenticated /\ client' = client
    BY <1>9 DEF BadLogin
  <2>2. toDevice' = toDevice \/ (toDevice # <<>> /\ toDevice' = Tail(toDevice))
    BY <1>9 DEF BadLogin
  <2>3. \A i \in DOMAIN toDevice' : \E j \in DOMAIN toDevice : toDevice'[i] = toDevice[j]
    BY <2>2
  <2>q. QED
    BY <2>1, <2>3
<1>10. CASE SrvHello
  BY <1>10 DEF SrvHello, SrvReads
<1>11. CASE SrvNonce
  <2>1. link = "Up" /\ link' = link /\ srv = "WaitNonce" /\ UNCHANGED authenticated
    BY <1>11 DEF SrvNonce
  <2>2. CASE srv' = "Accepted"
    BY <2>1, <2>2
  <2>3. CASE toDevice' \in {toDevice, Append(toDevice, "Reject")} /\ srv' = "Rejected"
    <3>1. \A i \in DOMAIN toDevice' : toDevice'[i] # "Welcome"
      BY <2>1, <2>3 DEF ServerFrames
    <3>q. QED
      BY <2>1, <2>3, <3>1
  <2>q. QED
    BY <1>11, <2>2, <2>3 DEF SrvNonce
<1>12. CASE SrvSession
  BY <1>12 DEF SrvSession, SrvReads
<1>13. CASE SrvRequest
  BY <1>13 DEF SrvRequest, Requests
<1>14. CASE SrvClose
  BY <1>14 DEF SrvClose, HangUp
<1>15. CASE Drop
  BY <1>15 DEF Drop, HangUp
<1>16. CASE PowerCycle
  BY <1>16 DEF PowerCycle, Reboot, HangUp
<1>17. CASE UNCHANGED <<link, toDevice, srv, authenticated>>
  BY <1>17
<1>q. QED
  BY <1>1, <1>2, <1>3, <1>4, <1>5, <1>6, <1>7, <1>8, <1>9, <1>10, <1>11,
         <1>12, <1>13, <1>14, <1>15, <1>16, <1>17
     DEF Next, Sketch, Server, Faults, LoopReconnect, LoopOffline,
         ConnectFail, Ping, Tick, Stall, Resume, device, network

-----------------------------------------------------------------------------
LEMMA IInvInit == Init => IInv
<1> SUFFICES ASSUME Init PROVE IInv
  OBVIOUS
<1>1. TypeOK
  <2>1. DeviceOK
    BY Bounds DEF Init, DeviceOK, Locations
  <2>2. LinkOK
    BY DEF Init, LinkOK
  <2>3. faults \in 0 .. MaxFaults /\ requests \in 0 .. MaxRequests
    BY Bounds DEF Init
  <2>4. toServer \in Seq(DeviceFrames) /\ toDevice \in Seq(ServerFrames)
    BY DEF Init
  <2>q. QED
    BY <2>1, <2>2, <2>3, <2>4 DEF TypeOK
<1>2. ControlInv /\ TickerInv /\ LoginInv
  BY DEF Init, ControlInv, TickerInv, LoginInv, RequestServable, AppWatched,
         SessionAgreed, Handshaking, Stopping
<1>3. SilenceInv /\ BeliefInv
  BY DEF Init, SilenceInv, BeliefInv, told
<1>q. QED
  BY <1>1, <1>2, <1>3 DEF IInv

LEMMA IInvStep == IInv /\ [Next]_vars => IInv'
<1> SUFFICES ASSUME IInv, [Next]_vars PROVE IInv'
  OBVIOUS
<1>1. TypeOK'
  BY TypeStep DEF IInv
<1>2. CASE Next
  BY <1>1, <1>2, ControlStep, TickerStep, SilenceStep, BeliefStep, LoginStep DEF IInv
<1>3. CASE UNCHANGED vars
  BY <1>1, <1>3 DEF IInv, ControlInv, TickerInv, SilenceInv, BeliefInv, told, LoginInv,
                    RequestServable, AppWatched, SessionAgreed, vars, device, network
<1>q. QED
  BY <1>2, <1>3

(* The inductive invariant: what the locations of the sketch, the ticker,  *)
(* the silence and the login say of one another in every reachable state.  *)
THEOREM Invariance == Spec => []IInv
<1>1. IInv /\ [Next]_vars => IInv'
  BY IInvStep
<1>q. QED
  BY <1>1, IInvInit, PTL DEF Spec

(* Every variable keeps its type: among others the age and the phase stay  *)
(* within their periods, and the heap never holds more clients than it can.*)
THEOREM TypeCorrect == Spec => []TypeOK
<1>1. IInv => TypeOK
  BY DEF IInv
<1>q. QED
  BY <1>1, Invariance, PTL

(* ping() gives a silent connection up within NETWORK_TIMEOUT and one ping *)
(* period (domoio.cpp:153-168), whatever their values.                     *)
THEOREM SilenceBounded == Spec => []SilenceBound
<1>1. IInv => SilenceBound
  <2> SUFFICES ASSUME IInv, pinger, age > NetworkTimeout + PingPeriod
               PROVE  reconnect_requested
    BY DEF SilenceBound
  <2>1. age \in Nat /\ phase \in 0 .. PingPeriod /\ reconnect_requested \in BOOLEAN
    BY Bounds DEF IInv, TypeOK, DeviceOK
  <2>2. ~reconnect_requested => age <= NetworkTimeout + phase
    BY DEF IInv, SilenceInv
  <2>q. QED
    BY <2>1, <2>2, Bounds
<1>q. QED
  BY <1>1, Invariance, PTL

(* A reconnection ping() asks for always finds a client to disconnect, and *)
(* ping() itself never writes through a null one.                          *)
THEOREM RequestsServable == Spec => []RequestServable
<1>1. IInv => RequestServable
  BY DEF IInv, TickerInv
<1>q. QED
  BY <1>1, Invariance, PTL

(* An application that was told EVENT_CONNECTED is watched over by the     *)
(* keep-alive until it is told otherwise or the device restarts.           *)
THEOREM ApplicationWatched == Spec => []AppWatched
<1>1. IInv => AppWatched
  BY DEF IInv, TickerInv
<1>q. QED
  BY <1>1, Invariance, PTL

(* A device that believes it is logged in, on a live connection, is.       *)
THEOREM LoginAgreement == Spec => []SessionAgreed
<1>1. IInv => SessionAgreed
  BY DEF IInv, LoginInv
<1>q. QED
  BY <1>1, Invariance, PTL

(* connect() only ever forgets a client whose connection is dead.          *)
THEOREM OnlyDeadClientsLeak == Spec => NoLiveClientLeaked
<1>1. IInv /\ [Next]_vars => [leaked' > leaked => link = "Down"]_vars
  <2> SUFFICES ASSUME IInv, [Next]_vars, leaked' > leaked
               PROVE  link = "Down"
    BY DEF IInv
  <2>1. leaked \in Nat
    BY Bounds DEF IInv, TypeOK, DeviceOK
  <2>2. leaked' # leaked /\ leaked' # 0
    BY <2>1
  <2>3. BackoffDone
    BY <2>2 DEF Next, Sketch, Server, Faults, vars, device, LoopReconnect,
            ClientStopped, LoopOffline, LoopReceive, RunOta, ConnectFail, ConnectOk,
            NonceReceived, NonceTimeout, WelcomeReceived, BadLogin, Ping, Tick,
            SrvHello, SrvNonce, SrvSession, SrvRequest, SrvClose, Drop, Stall,
            Resume, PowerCycle, Reboot
  <2>q. QED
    BY <2>3 DEF BackoffDone, IInv, ControlInv
<1>q. QED
  BY <1>1, Invariance, PTL DEF Spec, NoLiveClientLeaked

-----------------------------------------------------------------------------
(* With a prompt server the keep-alive is content.                         *)

(* Before the first fault none has happened.                               *)
LEMMA NoFault ==
  ASSUME IInv, Next, faults' = 0
  PROVE  faults = 0 /\ ~ConnectFail /\ ~Drop /\ ~Stall /\ ~PowerCycle
<1>1. faults \in Nat  BY Bounds DEF IInv, TypeOK
<1>2. ~ConnectFail /\ ~Drop /\ ~Stall /\ ~PowerCycle
  BY <1>1 DEF ConnectFail, Drop, Stall, PowerCycle, Fault
<1>3. faults' = faults
  BY <1>2 DEF Next, Sketch, Server, Faults, budget, LoopReconnect, ClientStopped,
         LoopOffline, LoopReceive, RunOta, BackoffDone, ConnectOk, NonceReceived,
         NonceTimeout, WelcomeReceived, BadLogin, Ping, Tick, SrvHello, SrvNonce,
         SrvSession, SrvRequest, SrvClose, Resume
<1> QED  BY <1>2, <1>3

(* What was to be read or answered still is, unless the device reads.      *)
LEMMA AnswerKept ==
  ASSUME IInv, AnswerDue, SrvSession \/ SrvRequest, srv = "Accepted"
  PROVE  AnswerDue'
<1>1. toServer \in Seq(DeviceFrames) /\ toDevice \in Seq(ServerFrames)  BY DEF IInv, TypeOK
<1>2. CASE SrvRequest
  <2>1. PICK m \in Requests : toDevice' = Append(toDevice, m)  BY <1>2 DEF SrvRequest
  <2>2. Append(toDevice, m) # <<>>
    <3>1. m \in ServerFrames  BY DEF ServerFrames
    <3> QED  BY <1>1, <3>1
  <2> QED  BY <2>1, <2>2 DEF AnswerDue
<1>3. CASE SrvSession
  <2>1. CASE toDevice # <<>>
    <3>1. toDevice' = toDevice \/ toDevice' = Append(toDevice, "Ack")  BY <1>3 DEF SrvSession
    <3>2. Append(toDevice, "Ack") # <<>>
      <4>1. "Ack" \in ServerFrames  BY DEF ServerFrames
      <4> QED  BY <1>1, <4>1
    <3> QED  BY <2>1, <3>1, <3>2 DEF AnswerDue
  <2>2. CASE toDevice = <<>> /\ toServer[1] = "Ping"
    BY <1>1, <1>3, <2>2 DEF SrvSession, SrvReads, AnswerDue, ServerFrames
  <2>3. CASE toDevice = <<>> /\ toServer[1] # "Ping"
    <3>1. PICK i \in DOMAIN toServer : toServer[i] = "Ping"  BY <2>3 DEF AnswerDue
    <3>2. toServer # <<>> /\ toServer' = Tail(toServer)  BY <1>3 DEF SrvSession, SrvReads
    <3>3. i - 1 \in DOMAIN toServer' /\ toServer'[i - 1] = toServer[i]
      BY <1>1, <2>3, <3>1, <3>2
    <3> QED  BY <3>1, <3>3 DEF AnswerDue
  <2> QED  BY <2>1, <2>2, <2>3
<1> QED  BY <1>2, <1>3

LEMMA PromptStep ==
  ASSUME IInv, PromptInv, Next, PromptServer, PingPeriod <= NetworkTimeout
  PROVE  PromptInv'
<1> SUFFICES ASSUME faults' = 0
             PROVE  /\ ~stalled' /\ ~reconnect_requested'
                    /\ link' = "Down" => \A i \in DOMAIN toDevice' : toDevice'[i] # "Welcome"
                    /\ pinger' =>
                         /\ pc' = "Loop" /\ link' = "Up" /\ srv' = "Accepted"
                         /\ age' <= phase' \/ (age' <= PingPeriod /\ AnswerDue')
  BY DEF PromptInv
<1>0. /\ age \in Nat /\ phase \in 0 .. PingPeriod /\ PingPeriod \in Nat /\ NetworkTimeout \in Nat
      /\ pinger \in BOOLEAN /\ client \in {"Null", "Allocated"} /\ link \in {"Up", "Down"}
      /\ toServer \in Seq(DeviceFrames) /\ toDevice \in Seq(ServerFrames)
  BY Bounds DEF IInv, TypeOK, DeviceOK, LinkOK
<1>1. faults = 0 /\ ~ConnectFail /\ ~Drop /\ ~Stall /\ ~PowerCycle  BY NoFault
<1>2. /\ ~stalled /\ ~reconnect_requested
      /\ link = "Down" => \A i \in DOMAIN toDevice : toDevice[i] # "Welcome"
      /\ pinger =>
           /\ pc = "Loop" /\ link = "Up" /\ srv = "Accepted"
           /\ age <= phase \/ (age <= PingPeriod /\ AnswerDue)
  BY <1>1 DEF PromptInv
<1>3. pinger => age <= PingPeriod /\ client = "Allocated" /\ is_connected
  BY <1>0, <1>2 DEF IInv, TickerInv, RequestServable, is_connected
<1>4. CASE LoopReconnect  BY <1>2, <1>4 DEF LoopReconnect
<1>5. CASE ClientStopped
  <2>1. ~pinger  BY <1>2, <1>5 DEF ClientStopped, Stopping
  <2> QED  BY <1>2, <1>5, <2>1 DEF ClientStopped, HangUp
<1>6. CASE LoopOffline
  <2>1. ~pinger  BY <1>3, <1>6 DEF LoopOffline
  <2> QED  BY <1>2, <1>6, <2>1 DEF LoopOffline, network
<1>7. CASE LoopReceive
  <2>1. toDevice' = Tail(toDevice) /\ toDevice # <<>> /\ age' = 0
        /\ UNCHANGED <<link, stalled, srv, phase>> /\ pc = "Loop"
    BY <1>7 DEF LoopReceive, Heard
  <2>2. \A i \in DOMAIN toDevice' : \E j \in DOMAIN toDevice : toDevice'[i] = toDevice[j]
    BY <1>0, <2>1
  <2>3. ~reconnect_requested' /\ (pinger' => pinger /\ pc' = "Loop")
    BY <1>2, <1>7, <2>1 DEF LoopReceive, BeginDisconnect
  <2> QED  BY <1>0, <1>2, <2>1, <2>2, <2>3
<1>8. CASE RunOta  BY <1>8 DEF RunOta, Reboot, HangUp
<1>9. CASE BackoffDone
  <2>1. ~pinger  BY <1>2, <1>9 DEF BackoffDone
  <2> QED  BY <1>2, <1>9, <2>1 DEF BackoffDone, Reboot, HangUp
<1>10. CASE ConnectOk
  <2>1. ~pinger  BY <1>2, <1>10 DEF ConnectOk
  <2> QED  BY <1>2, <1>10, <2>1 DEF ConnectOk
<1>11. CASE NonceReceived
  <2>1. ~pinger  BY <1>2, <1>11 DEF NonceReceived
  <2>2. \A i \in DOMAIN toDevice' : \E j \in DOMAIN toDevice : toDevice'[i] = toDevice[j]
    BY <1>0, <1>11 DEF NonceReceived
  <2> QED  BY <1>2, <1>11, <2>1, <2>2 DEF NonceReceived
<1>12. CASE NonceTimeout
  <2>1. ~pinger  BY <1>2, <1>12 DEF NonceTimeout
  <2> QED  BY <1>2, <1>12, <2>1 DEF NonceTimeout, Reboot, HangUp
<1>13. CASE WelcomeReceived
  <2>1. 1 \in DOMAIN toDevice /\ toDevice[1] = "Welcome"
    BY <1>0, <1>13 DEF WelcomeReceived, IsHello
  <2>2. link = "Up" /\ srv = "Accepted"  BY <1>0, <1>2, <2>1 DEF IInv, LoginInv
  <2> QED  BY <1>2, <1>13, <2>2 DEF WelcomeReceived, Heard, start_ping, Goto
<1>14. CASE BadLogin
  <2>1. ~pinger  BY <1>2, <1>14 DEF BadLogin
  <2>2. \A i \in DOMAIN toDevice' : \E j \in DOMAIN toDevice : toDevice'[i] = toDevice[j]
    <3>1. toDevice' = toDevice \/ (toDevice # <<>> /\ toDevice' = Tail(toDevice))
      BY <1>14 DEF BadLogin
    <3> QED  BY <1>0, <3>1
  <2> QED  BY <1>2, <1>14, <2>1, <2>2 DEF BadLogin
<1>15. CASE Ping
  <2>1. pinger /\ ~TimedOut  BY <1>0, <1>3, <1>15 DEF Ping, PingDue, TimedOut
  <2>2. toServer' = Append(toServer, "Ping")  BY <1>2, <1>15, <2>1 DEF Ping, Outbox
  <2>3. AnswerDue'
    <3>1. "Ping" \in DeviceFrames  BY DEF DeviceFrames
    <3>2. Len(toServer) + 1 \in DOMAIN toServer' /\ toServer'[Len(toServer) + 1] = "Ping"
      BY <1>0, <2>2, <3>1
    <3> QED  BY <3>2 DEF AnswerDue
  <2> QED  BY <1>2, <1>3, <1>15, <2>1, <2>3 DEF Ping
<1>16. CASE Tick
  <2>1. ASSUME pinger  PROVE age' <= phase'
    <3>1. toServer = <<>> /\ toDevice = <<>>
      BY <1>2, <1>3, <1>16, <2>1 DEF Tick, DeviceWaits, ServerWaits, Handshaking
    <3>2. ~AnswerDue  BY <3>1 DEF AnswerDue
    <3>3. age <= phase  BY <1>2, <2>1, <3>2
    <3> QED  BY <1>0, <1>16, <2>1, <3>3 DEF Tick
  <2> QED  BY <1>2, <1>16, <2>1 DEF Tick, network
<1>17. CASE SrvHello
  <2>1. ~pinger  BY <1>2, <1>17 DEF SrvHello
  <2>2. link # "Down"  BY <1>17 DEF SrvHello, IInv, LoginInv
  <2> QED  BY <1>2, <1>17, <2>1, <2>2 DEF SrvHello, device
<1>18. CASE SrvNonce
  <2>1. ~pinger  BY <1>2, <1>18 DEF SrvNonce
  <2>2. link # "Down"  BY <1>18 DEF SrvNonce, IInv, LoginInv
  <2> QED  BY <1>2, <1>18, <2>1, <2>2 DEF SrvNonce, device
<1>19. CASE SrvSession \/ SrvRequest
  <2>1. link # "Down"  BY <1>19 DEF SrvSession, SrvRequest, IInv, LoginInv
  <2>2. UNCHANGED <<device, link, stalled, srv>>  BY <1>19 DEF SrvSession, SrvRequest
  <2>3. pinger /\ AnswerDue => AnswerDue'  BY <1>2, <1>19, AnswerKept
  <2> QED  BY <1>2, <2>1, <2>2, <2>3 DEF device
<1>20. CASE SrvClose
  <2>1. ~pinger  BY <1>2, <1>20 DEF SrvClose
  <2>2. link = "Up"  BY <1>0, <1>20 DEF SrvClose, IInv, LoginInv
  <2>3. \A i \in DOMAIN toDevice : toDevice[i] # "Welcome"
    BY <1>20, <2>2 DEF SrvClose, IInv, LoginInv
  <2> QED  BY <1>2, <1>20, <2>1, <2>3 DEF SrvClose, HangUp, device
<1>21. CASE Resume  BY <1>2, <1>21 DEF Resume
<1> QED
  BY <1>1, <1>4, <1>5, <1>6, <1>7, <1>8, <1>9, <1>10, <1>11, <1>12, <1>13, <1>14,
     <1>15, <1>16, <1>17, <1>18, <1>19, <1>20, <1>21 DEF Next, Sketch, Server, Faults

(* Before the first fault a prompt server's answers keep the connection:   *)
(* the period of the pings is no longer than NETWORK_TIMEOUT, and a frame  *)
(* is read before the next ping looks (domoio.cpp:48, 153-168).            *)
THEOREM NeverGivenUp ==
  ASSUME PromptServer, PingPeriod <= NetworkTimeout
  PROVE  Spec => []NeverGivesUp
<1>1. Init => PromptInv
  BY DEF Init, PromptInv
<1>2. IInv /\ PromptInv /\ [Next]_vars => PromptInv'
  <2>1. ASSUME IInv, PromptInv, UNCHANGED vars  PROVE PromptInv'
    BY <2>1 DEF PromptInv, AnswerDue, vars, device, network, budget
  <2> QED  BY <2>1, PromptStep
<1>3. PromptInv => NeverGivesUp
  BY DEF PromptInv, NeverGivesUp
<1> QED  BY <1>1, <1>2, <1>3, Invariance, PTL DEF Spec

-----------------------------------------------------------------------------
(* Session implements Presence: every step of it is a step the application *)
(* was promised, or none it can see.                                       *)

LEMMA ViewInit == Init => AppView!Init
  BY DEF Init, AppView!Init, told

LEMMA ViewStep ==
  ASSUME IInv, IInv', [Next]_vars
  PROVE  [AppView!Next]_AppView!vars
<1>0. /\ age \in Nat /\ phase \in 0 .. PingPeriod /\ NetworkTimeout \in Nat
      /\ PingPeriod \in Nat
  BY Bounds DEF IInv, TypeOK, DeviceOK
<1>b. told' = "Connected" => age' <= NetworkTimeout + PingPeriod
  BY DEF IInv, BeliefInv
<1> USE DEF AppView!vars, AppView!Next, told
<1>1. CASE LoopReconnect
  BY <1>1 DEF LoopReconnect, BeginDisconnect, Goto, AppView!Close
<1>2. CASE ClientStopped
  <2>1. CASE pc = "StoppingReconnect"
    BY <1>2, <2>1 DEF ClientStopped, Goto, AppView!Close
  <2>2. CASE pc = "StoppingOta"
    BY <1>2, <2>2 DEF ClientStopped, Goto
  <2>q. QED
    BY <1>2, <2>1, <2>2 DEF ClientStopped, Stopping
<1>3. CASE LoopOffline
  BY <1>3 DEF LoopOffline, Goto, AppView!Close
<1>4. CASE LoopReceive
  <2>1. CASE BeginDisconnect("StoppingOta")
    BY <1>4, <2>1 DEF LoopReceive, BeginDisconnect, Goto, AppView!Leave
  <2>2. CASE UNCHANGED pc
    BY <1>4, <2>2 DEF LoopReceive, Heard, AppView!Hear
  <2>q. QED
    BY <1>4, <2>1, <2>2 DEF LoopReceive
<1>5. CASE Reboot
  BY <1>5 DEF Reboot, Goto, AppView!Restart
<1>6. CASE BackoffDone /\ ~Reboot
  BY <1>6 DEF BackoffDone, Goto
<1>7. CASE ConnectFail \/ ConnectOk \/ BadLogin \/ NonceReceived
  <2>1. lastEvent = "Disconnected" /\ lastEvent' = lastEvent
    BY <1>7 DEF ConnectFail, ConnectOk, BadLogin, NonceReceived, IInv, ControlInv,
                Handshaking
  <2>2. pc \notin {"StoppingOta", "OtaDelay"} /\ pc' \notin {"StoppingOta", "OtaDelay"}
    BY <1>7 DEF ConnectFail, ConnectOk, BadLogin, NonceReceived, Goto
  <2>q. QED
    BY <2>1, <2>2
<1>8. CASE NonceTimeout /\ ~Reboot
  BY <1>8 DEF NonceTimeout, Goto, IInv, ControlInv, Handshaking
<1>9. CASE WelcomeReceived
  BY <1>9 DEF WelcomeReceived, Heard, Goto, IInv, ControlInv, Handshaking, AppView!Open
<1>10. CASE Tick
  <2>1. CASE told = "Connected"
    <3>1. age' = age \/ age' = age + 1
      BY <1>10 DEF Tick
    <3>2. told' = "Connected"
      BY <1>10, <2>1 DEF Tick
    <3>3. CASE age' = age
      BY <1>10, <3>2, <3>3, <2>1 DEF Tick
    <3>4. CASE age' = age + 1
      BY <1>10, <1>0, <1>b, <2>1, <3>2, <3>4 DEF Tick, AppView!Pass
    <3>q. QED
      BY <3>1, <3>3, <3>4
  <2>2. CASE told # "Connected"
    BY <1>10, <2>2 DEF Tick
  <2>q. QED
    BY <2>1, <2>2
<1>11. CASE UNCHANGED <<pc, age, lastEvent>>
  BY <1>11
<1>q. QED
  BY <1>1, <1>2, <1>3, <1>4, <1>5, <1>6, <1>7, <1>8, <1>9, <1>10, <1>11
     DEF Next, Sketch, Server, Faults, RunOta, Ping, SrvHello, SrvNonce, SrvSession,
         SrvRequest, SrvClose, Drop, Stall, Resume, PowerCycle, vars, device

(* The session keeps the promise of module Presence to the application.    *)
THEOREM PresenceKept == Spec => KeepsPresence
<1>1. IInv /\ IInv' /\ [Next]_vars => [AppView!Next]_AppView!vars
  BY ViewStep
<1>q. QED
  BY <1>1, ViewInit, Invariance, PTL DEF Spec, KeepsPresence, AppView!Spec

=============================================================================

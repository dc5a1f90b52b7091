------------------------------ MODULE Session ------------------------------
(***************************************************************************)
(* The device's session with the Domoio server: the sketch's main loop     *)
(* (main.cpp: loop), the connection life cycle and the keep-alive          *)
(* (domoio.cpp: connect, handsake, disconnect, receive_messages, ping),    *)
(* next to the server and the TCP link it talks through (external).        *)
(*                                                                         *)
(* Two actors run on the device.  The sketch is a control-flow location    *)
(* `pc`; what it does between two points where it yields is one action.    *)
(* The ping_ticker callback runs only at those points, in any `pc`.        *)
(* Time is counted in seconds by Tick.  session_started (written at        *)
(* domoio.cpp:121 and read nowhere) and the message ids are left out.      *)
(***************************************************************************)
EXTENDS Integers, Sequences

CONSTANTS
  PingPeriod,      \* seconds between two runs of ping(): attach(10, ping)
  NetworkTimeout,  \* NETWORK_TIMEOUT, in seconds
  HandshakeWait,   \* seconds block_until_receive() waits for a frame
  Backoff,         \* seconds loop() sleeps before it calls connect()
  OtaDelay,        \* seconds loop() sleeps before it runs an update
  ConnectTime,     \* bound: seconds client->connect() may block
  MaxClients,      \* bound: unreachable WiFiClientSecure objects the heap holds
  MaxFaults,       \* bound: faults of the link, the server and the power
  MaxRequests,     \* bound: messages the server starts by itself
  PromptServer     \* TRUE when the server answers within the second

ASSUME TimeAssumption ==
  /\ PingPeriod \in Nat \ {0}
  /\ NetworkTimeout \in Nat
  /\ {HandshakeWait, Backoff, OtaDelay, ConnectTime} \subseteq Nat

ASSUME BoundAssumption ==
  /\ {MaxClients, MaxFaults, MaxRequests} \subseteq Nat
  /\ PromptServer \in BOOLEAN

VARIABLES
  pc,                   \* where the sketch is
  wait,                 \* seconds it has been there, where it waits
  client,               \* the global client pointer: "Null" or "Allocated"
  leaked,               \* client objects whose pointer was overwritten
  pinger,               \* ping_ticker is attached
  phase,                \* seconds since ping_ticker was attached or last ran
  age,                  \* millis() - last_seen_at, saturating at AgeCap
  reconnect_requested,
  authenticated,        \* handsake() returned true on the current client
  lastEvent,            \* the last event handle_event() gave the application
  link,                 \* the TCP connection of the current client
  stalled,              \* the link delivers nothing, and nobody was told
  toServer, toDevice,   \* frames in flight, oldest first
  srv,                  \* what the server takes the connection for
  faults, requests      \* how much of the two budgets is spent

device  == <<pc, wait, client, leaked, pinger, phase, age,
             reconnect_requested, authenticated, lastEvent>>
network == <<link, stalled, toServer, toDevice, srv>>
budget  == <<faults, requests>>
vars    == <<device, network, budget>>

Handshaking == {"AwaitNonce", "AwaitHello"}
Stopping    == {"StoppingReconnect", "StoppingOta"}
Locations   == {"Loop", "Backoff", "Connecting", "OtaDelay"}
                 \cup Handshaking \cup Stopping

(* The frames.  Junk is the nonce handsake() makes up after a time-out;    *)
(* Welcome is "HELLO"; Reject is any other answer to a nonce.              *)
DeviceFrames == {"Hello", "Nonce", "Junk", "Ping", "Ack"}
Requests     == {"Set", "Ping", "Flash"}
ServerFrames == {"Challenge", "Welcome", "Reject", "Ack"} \cup Requests

(* `age` is only ever compared with NetworkTimeout, and stops here.        *)
AgeCap == NetworkTimeout + PingPeriod + 1

DeviceOK ==
  /\ pc \in Locations
  /\ wait \in Nat
  /\ client \in {"Null", "Allocated"}
  /\ leaked \in 0 .. MaxClients
  /\ pinger \in BOOLEAN
  /\ phase \in 0 .. PingPeriod
  /\ age \in 0 .. AgeCap
  /\ reconnect_requested \in BOOLEAN
  /\ authenticated \in BOOLEAN
  /\ lastEvent \in {"None", "Connected", "Disconnected"}

LinkOK ==
  /\ link \in {"Up", "Down"}
  /\ stalled \in BOOLEAN
  /\ srv \in {"Idle", "WaitHello", "WaitNonce", "Accepted", "Rejected"}

TypeOK ==
  /\ DeviceOK
  /\ LinkOK
  /\ toServer \in Seq(DeviceFrames)
  /\ toDevice \in Seq(ServerFrames)
  /\ faults \in 0 .. MaxFaults
  /\ requests \in 0 .. MaxRequests

(* setup() has joined the wifi network: nothing is connected yet.          *)
Init ==
  /\ pc = "Loop" /\ wait = 0
  /\ client = "Null" /\ leaked = 0
  /\ pinger = FALSE /\ phase = 0
  /\ age = 0
  /\ reconnect_requested = FALSE
  /\ authenticated = FALSE
  /\ lastEvent = "None"
  /\ link = "Down" /\ stalled = FALSE
  /\ toServer = <<>> /\ toDevice = <<>>
  /\ srv = "Idle"
  /\ faults = 0 /\ requests = 0

-----------------------------------------------------------------------------
(* Steps the actions share.  A definition named ..._Bug is what the one    *)
(* after it would be with a slip in the code; README.md says which         *)
(* property notices it.                                                    *)

is_connected_NullTestBug == client = "Allocated"
is_connected_LoginBug == client = "Allocated" /\ link = "Up" /\ authenticated

(* client->connected() of WiFiClientSecure: the peer is there, or bytes    *)
(* it sent before it went are still unread.                                *)
is_connected == client = "Allocated" /\ (link = "Up" \/ toDevice # <<>>)

Heard_Bug == age' = age

(* receive() notes the time of whatever it reads.                          *)
Heard == age' = 0

TimedOut_Bug == age > 2 * NetworkTimeout

(* The test of ping(): nothing was read for too long.                      *)
TimedOut == age > NetworkTimeout

IsHello_Bug(frame) == frame \in {"Welcome", "Reject"}

(* The test of handsake() on the server's last word.                       *)
IsHello(frame) == frame = "Welcome"

start_ping_Bug == pinger' = pinger /\ phase' = 0

(* start_ping(): attaching the ticker starts a new period.                 *)
start_ping == pinger' = TRUE /\ phase' = 0

Outbox(frame) == IF link = "Up" THEN Append(toServer, frame) ELSE toServer

Goto(location) == pc' = location /\ wait' = 0

HangUp ==
  /\ link' = "Down" /\ srv' = "Idle" /\ stalled' = FALSE
  /\ toServer' = <<>>

(* ESP.reset(), an exception or a power cycle: RAM is lost and setup()     *)
(* brings the device back to the first turn of loop().                     *)
Reboot ==
  /\ Goto("Loop")
  /\ client' = "Null" /\ leaked' = 0
  /\ pinger' = FALSE /\ phase' = 0
  /\ age' = 0
  /\ reconnect_requested' = FALSE
  /\ authenticated' = FALSE
  /\ lastEvent' = "None"
  /\ HangUp /\ toDevice' = <<>>

BeginDisconnect_TickerBug(location) ==
  /\ Goto(location)
  /\ reconnect_requested' = FALSE
  /\ UNCHANGED pinger

BeginDisconnect_FlagBug(location) ==
  /\ Goto(location)
  /\ pinger' = FALSE
  /\ UNCHANGED reconnect_requested

(* The head of disconnect(), up to client->stop(), which may yield.        *)
BeginDisconnect(location) ==
  /\ Goto(location)
  /\ pinger' = FALSE
  /\ reconnect_requested' = FALSE

-----------------------------------------------------------------------------
(* The sketch: loop().                                                     *)

(* ping() asked for a reconnection: tell the application and disconnect.   *)
LoopReconnect ==
  /\ pc = "Loop"
  /\ reconnect_requested /\ client = "Allocated"
  /\ lastEvent' = "Disconnected"
  /\ BeginDisconnect("StoppingReconnect")
  /\ UNCHANGED <<client, leaked, phase, age, authenticated, network, budget>>

(* The tail of disconnect(); loop() then finds the device disconnected     *)
(* (and tells the application), or sleeps before the update it scheduled.  *)
ClientStopped ==
  /\ pc \in Stopping
  /\ client' = "Null"
  /\ authenticated' = FALSE
  /\ HangUp /\ toDevice' = <<>>
  /\ \/ pc = "StoppingReconnect" /\ Goto("Backoff") /\ lastEvent' = "Disconnected"
     \/ pc = "StoppingOta" /\ Goto("OtaDelay") /\ UNCHANGED lastEvent
  /\ UNCHANGED <<leaked, pinger, phase, age, reconnect_requested, budget>>

LoopOffline_Bug ==
  /\ pc = "Loop" /\ ~is_connected
  /\ reconnect_requested => client = "Null"
  /\ lastEvent' = IF lastEvent = "None" THEN "Disconnected" ELSE lastEvent
  /\ Goto("Backoff")
  /\ UNCHANGED <<client, leaked, pinger, phase, age, reconnect_requested,
                 authenticated, network, budget>>

(* The connection is gone, or never was there.                             *)
LoopOffline ==
  /\ pc = "Loop" /\ ~is_connected
  /\ reconnect_requested => client = "Null"
  /\ lastEvent' = "Disconnected"
  /\ Goto("Backoff")
  /\ UNCHANGED <<client, leaked, pinger, phase, age, reconnect_requested,
                 authenticated, network, budget>>

(* receive_messages() and process_message() on one frame.  Frames of the   *)
(* handshake are not valid CoAP, and an acknowledgement matches no URI.    *)
LoopReceive ==
  /\ pc = "Loop"
  /\ is_connected /\ ~reconnect_requested
  /\ toDevice # <<>>
  /\ toDevice' = Tail(toDevice)
  /\ Heard
  /\ \/ Head(toDevice) \in {"Set", "Ping"}
        /\ toServer' = Outbox("Ack")
        /\ UNCHANGED <<pc, wait, pinger, reconnect_requested>>
     \/ Head(toDevice) = "Flash"
        /\ toServer' = Outbox("Ack")
        /\ BeginDisconnect("StoppingOta")
     \/ Head(toDevice) \notin Requests
        /\ UNCHANGED <<toServer, pc, wait, pinger, reconnect_requested>>
  /\ UNCHANGED <<client, leaked, phase, authenticated, lastEvent, link,
                 stalled, srv, budget>>

(* run_ota_update() always ends in reset(), whatever the update returned.  *)
RunOta ==
  /\ pc = "OtaDelay" /\ wait >= OtaDelay
  /\ Reboot
  /\ UNCHANGED budget

-----------------------------------------------------------------------------
(* The sketch: connect() and handsake().                                   *)

(* client = new WiFiClientSecure(): the previous object, if there is one,  *)
(* is lost.  When the heap has no room for another, new panics.            *)
BackoffDone ==
  LET lost == leaked + (IF client = "Null" THEN 0 ELSE 1)
  IN /\ pc = "Backoff" /\ wait >= Backoff
     /\ \/ lost <= MaxClients
           /\ Goto("Connecting")
           /\ client' = "Allocated" /\ leaked' = lost
           /\ authenticated' = FALSE
           /\ HangUp /\ toDevice' = <<>>
           /\ UNCHANGED <<pinger, phase, age, reconnect_requested, lastEvent>>
        \/ lost > MaxClients /\ Reboot
     /\ UNCHANGED budget

ConnectFail ==
  /\ pc = "Connecting"
  /\ faults < MaxFaults /\ faults' = faults + 1
  /\ Goto("Loop")
  /\ UNCHANGED <<client, leaked, pinger, phase, age, reconnect_requested,
                 authenticated, lastEvent, network, requests>>

(* The connection is open and handsake() has sent its hello.               *)
ConnectOk ==
  /\ pc = "Connecting"
  /\ Goto("AwaitNonce")
  /\ link' = "Up" /\ srv' = "WaitHello"
  /\ toServer' = <<"Hello">>
  /\ UNCHANGED <<client, leaked, pinger, phase, age, reconnect_requested,
                 authenticated, lastEvent, stalled, toDevice, budget>>

(* The first frame to come is taken for the challenge.                     *)
NonceReceived ==
  /\ pc = "AwaitNonce"
  /\ toDevice # <<>>
  /\ toDevice' = Tail(toDevice)
  /\ Heard
  /\ toServer' = Outbox(IF Head(toDevice) = "Challenge" THEN "Nonce" ELSE "Junk")
  /\ Goto("AwaitHello")
  /\ UNCHANGED <<client, leaked, pinger, phase, reconnect_requested,
                 authenticated, lastEvent, link, stalled, srv, budget>>

(* No frame came: size is -1, `byte nounce_clean[size]` is undefined, and  *)
(* the build either sends 40 bytes of the stack or dies of an exception.   *)
NonceTimeout ==
  /\ pc = "AwaitNonce"
  /\ toDevice = <<>> /\ wait >= HandshakeWait
  /\ \/ /\ toServer' = Outbox("Junk")
        /\ Goto("AwaitHello")
        /\ UNCHANGED <<client, leaked, pinger, phase, age, reconnect_requested,
                       authenticated, lastEvent, link, stalled, toDevice, srv>>
     \/ Reboot
  /\ UNCHANGED budget

(* "HELLO" came: the session is up, and start_ping() arms the keep-alive.  *)
WelcomeReceived ==
  /\ pc = "AwaitHello"
  /\ toDevice # <<>> /\ IsHello(Head(toDevice))
  /\ toDevice' = Tail(toDevice)
  /\ Goto("Loop")
  /\ Heard
  /\ authenticated' = TRUE
  /\ lastEvent' = "Connected"
  /\ start_ping
  /\ UNCHANGED <<client, leaked, reconnect_requested, link, stalled, toServer,
                 srv, budget>>

(* BAD LOGIN: another frame, or none.  connect() returns, the client stays *)
(* open and the ticker as it was.                                          *)
BadLogin ==
  /\ pc = "AwaitHello"
  /\ \/ /\ toDevice # <<>> /\ ~IsHello(Head(toDevice))
        /\ toDevice' = Tail(toDevice)
        /\ Heard
     \/ /\ toDevice = <<>> /\ wait >= HandshakeWait
        /\ UNCHANGED <<toDevice, age>>
  /\ Goto("Loop")
  /\ UNCHANGED <<client, leaked, pinger, phase, reconnect_requested,
                 authenticated, lastEvent, link, stalled, toServer, srv, budget>>

-----------------------------------------------------------------------------
(* The ticker and the clock.                                               *)

(* attach(10, ping): the ticker runs ping() at the end of every period.    *)
PingDue == pinger /\ phase = PingPeriod

(* ping(): give the connection up, or send a ping on whatever the client   *)
(* is connected to.                                                        *)
Ping ==
  /\ PingDue
  /\ phase' = 0
  /\ \/ /\ TimedOut
        /\ reconnect_requested' = TRUE
        /\ UNCHANGED toServer
     \/ /\ ~TimedOut
        /\ toServer' = Outbox("Ping")
        /\ UNCHANGED reconnect_requested
  /\ UNCHANGED <<pc, wait, client, leaked, pinger, age, authenticated,
                 lastEvent, link, stalled, toDevice, srv, budget>>

(* Nothing the sketch could do now: it computes in no time, and waits.     *)
DeviceWaits ==
  \/ pc = "Loop" /\ is_connected /\ ~reconnect_requested /\ toDevice = <<>>
  \/ pc = "Backoff" /\ wait < Backoff
  \/ pc = "Connecting" /\ wait < ConnectTime
  \/ pc \in Handshaking /\ toDevice = <<>> /\ wait < HandshakeWait
  \/ pc = "OtaDelay" /\ wait < OtaDelay

ServerWaits == stalled \/ (toServer = <<>> /\ srv # "Rejected")

Tick ==
  /\ DeviceWaits /\ ~PingDue
  /\ PromptServer => ServerWaits
  /\ age' = IF age < AgeCap THEN age + 1 ELSE age
  /\ phase' = IF pinger THEN phase + 1 ELSE phase
  /\ wait' = IF pc = "Loop" THEN 0 ELSE wait + 1
  /\ UNCHANGED <<pc, client, leaked, pinger, reconnect_requested, authenticated,
                 lastEvent, network, budget>>

-----------------------------------------------------------------------------
(* The server, modelled from what handsake() and process_message() expect  *)
(* of it: it greets, checks the nonce, answers pings, sends requests and   *)
(* drops who failed to log in.                                             *)

SrvReads == ~stalled /\ toServer # <<>>

SrvHello ==
  /\ SrvReads /\ srv = "WaitHello"
  /\ toServer' = Tail(toServer)
  /\ srv' = "WaitNonce"
  /\ toDevice' = Append(toDevice, "Challenge")
  /\ UNCHANGED <<device, link, stalled, budget>>

SrvNonce ==
  /\ SrvReads /\ srv = "WaitNonce"
  /\ toServer' = Tail(toServer)
  /\ \/ /\ Head(toServer) = "Nonce"
        /\ srv' = "Accepted"
        /\ toDevice' = Append(toDevice, "Welcome")
     \/ /\ Head(toServer) # "Nonce"
        /\ srv' = "Rejected"
        /\ toDevice' \in {toDevice, Append(toDevice, "Reject")}
  /\ UNCHANGED <<device, link, stalled, budget>>

SrvSession ==
  /\ SrvReads /\ srv \in {"Accepted", "Rejected"}
  /\ toServer' = Tail(toServer)
  /\ toDevice' = IF srv = "Accepted" /\ Head(toServer) = "Ping"
                   THEN Append(toDevice, "Ack") ELSE toDevice
  /\ UNCHANGED <<device, link, stalled, srv, budget>>

SrvRequest ==
  /\ ~stalled /\ srv = "Accepted"
  /\ requests < MaxRequests /\ requests' = requests + 1
  /\ \E m \in Requests : toDevice' = Append(toDevice, m)
  /\ UNCHANGED <<device, link, stalled, toServer, srv, faults>>

SrvClose ==
  /\ ~stalled /\ srv = "Rejected"
  /\ HangUp
  /\ UNCHANGED <<device, toDevice, budget>>

-----------------------------------------------------------------------------
(* The faults.                                                             *)

Fault == faults < MaxFaults /\ faults' = faults + 1

(* The connection breaks; what had arrived may still be read, or not.      *)
Drop ==
  /\ Fault /\ link = "Up"
  /\ HangUp
  /\ toDevice' \in {toDevice, <<>>}
  /\ UNCHANGED <<device, requests>>

Stall ==
  /\ Fault /\ link = "Up" /\ ~stalled
  /\ stalled' = TRUE
  /\ UNCHANGED <<device, link, toServer, toDevice, srv, requests>>

Resume ==
  /\ stalled
  /\ stalled' = FALSE
  /\ UNCHANGED <<device, link, toServer, toDevice, srv, budget>>

PowerCycle ==
  /\ Fault
  /\ Reboot
  /\ UNCHANGED requests

-----------------------------------------------------------------------------
Sketch ==
  \/ LoopReconnect \/ ClientStopped \/ LoopOffline \/ LoopReceive \/ RunOta
  \/ BackoffDone \/ ConnectFail \/ ConnectOk
  \/ NonceReceived \/ NonceTimeout \/ WelcomeReceived \/ BadLogin

Server == SrvHello \/ SrvNonce \/ SrvSession \/ SrvRequest \/ SrvClose

Faults == Drop \/ Stall \/ Resume \/ PowerCycle

Next == Sketch \/ Ping \/ Tick \/ Server \/ Faults

Spec == Init /\ [][Next]_vars

(* loop() is called for ever, the ticker fires and time passes.            *)
DeviceFairness == WF_vars(Sketch) /\ WF_vars(Ping) /\ WF_vars(Tick)

DeviceSpec == Spec /\ DeviceFairness

(* A server that reads what reaches it, and drops who failed to log in.    *)
ServerFairness ==
  WF_vars(SrvHello \/ SrvNonce \/ SrvSession) /\ WF_vars(SrvClose)

FairSpec == DeviceSpec /\ ServerFairness

-----------------------------------------------------------------------------
(* Properties.                                                             *)

(* While the keep-alive is armed, a peer silent for longer than            *)
(* NETWORK_TIMEOUT and one more ping period has been given up: ping()      *)
(* bounds how long a dead connection goes unnoticed.                       *)
SilenceBound ==
  pinger /\ age > NetworkTimeout + PingPeriod => reconnect_requested

(* A requested reconnection can be served: there is a client for           *)
(* disconnect() to close (it returns before it clears the flag when there  *)
(* is none, and the request would be served on the connection that comes   *)
(* next), and the ticker never writes through a null client.               *)
RequestServable ==
  /\ reconnect_requested => pinger
  /\ pinger => client = "Allocated"

(* As long as the application was last told EVENT_CONNECTED, the           *)
(* keep-alive is armed, unless the device is on its way to an update: it   *)
(* will not believe in a dead session for ever.                            *)
AppWatched ==
  lastEvent = "Connected" /\ pc \notin {"StoppingOta", "OtaDelay"} => pinger

(* The device and the server agree that the login succeeded, as long as    *)
(* they are connected.                                                     *)
SessionAgreed == authenticated /\ link = "Up" => srv = "Accepted"

(* connect() overwrites the pointer of a client that is still allocated    *)
(* only when that client's connection is dead: no live connection is left  *)
(* open behind the device's back.                                          *)
NoLiveClientLeaked == [][leaked' > leaked => link = "Down"]_vars

(* What the application sees of all this is module Presence: a connection  *)
(* it believes in was heard of within NETWORK_TIMEOUT and one ping period, *)
(* and EVENT_CONNECTED only ever follows EVENT_DISCONNECTED.               *)
told == IF pc \in {"StoppingOta", "OtaDelay"} THEN "Leaving" ELSE lastEvent

AppView == INSTANCE Presence WITH
  Limit <- NetworkTimeout + PingPeriod,
  quiet <- IF told = "Connected" THEN age ELSE 0

KeepsPresence == AppView!Spec

(* With a prompt server and before the first fault, ping() never gives a   *)
(* connection up: its period leaves room for the answers that refresh      *)
(* last_seen_at in receive().                                              *)
NeverGivesUp == faults = 0 => ~reconnect_requested

(* A reconnection ping() asked for is eventually carried out, whatever the *)
(* server does.                                                            *)
RequestServed == reconnect_requested ~> ~reconnect_requested

(* A connection that breaks, or goes silent and stays so, does not leave   *)
(* the application believing it is connected.                              *)
Lost == link = "Down" \/ stalled
LossNoticed == (lastEvent = "Connected" /\ Lost) ~> (lastEvent # "Connected" \/ ~Lost)

(* ping() has a session torn down only when its peer has been silent for   *)
(* longer than NETWORK_TIMEOUT ("Check the timeout", domoio.cpp:154).      *)
TornDownOnTimeout == [][LoopReconnect /\ authenticated => TimedOut]_vars

-----------------------------------------------------------------------------
(* The inductive invariant behind the safety properties (SessionProofs).   *)

(* What each location of the sketch says of the client and its connection. *)
ControlInv ==
  /\ pc \in {"Connecting"} \cup Handshaking => client = "Allocated" /\ ~authenticated
  /\ pc \in {"Backoff", "Connecting", "OtaDelay"} \/ client = "Null" => link = "Down"
  /\ pc = "Connecting" => toDevice = <<>>
  /\ pc \in {"Backoff", "Connecting"} \cup Handshaking => lastEvent = "Disconnected"

(* A ticker that runs has a client; while disconnect() stops the client    *)
(* none runs, and no request is pending.                                   *)
TickerInv ==
  /\ RequestServable
  /\ pc \in Stopping => client = "Allocated" /\ ~pinger
  /\ AppWatched

(* Between two runs of ping() the silence grows with the ticker's phase.   *)
SilenceInv == pinger /\ ~reconnect_requested => age <= NetworkTimeout + phase

(* When ping() gives the connection up, loop() tells the application       *)
(* before another second passes.                                           *)
BeliefInv == told = "Connected" => age <= NetworkTimeout + PingPeriod

(* The server accepted whoever it has welcomed, and nobody else.           *)
LoginInv ==
  /\ link = "Down" => srv = "Idle"
  /\ link = "Up" /\ (\E i \in DOMAIN toDevice : toDevice[i] = "Welcome") => srv = "Accepted"
  /\ SessionAgreed

(* The whole of it: every reachable state of the session satisfies it.     *)
IInv == TypeOK /\ ControlInv /\ TickerInv /\ SilenceInv /\ BeliefInv /\ LoginInv


-----------------------------------------------------------------------------
(* What makes NeverGivesUp inductive, as long as the server is prompt.     *)

(* Something is there to be read, or will be as soon as a ping is answered.*)
AnswerDue == toDevice # <<>> \/ \E i \in DOMAIN toServer : toServer[i] = "Ping"

(* Before the first fault the ticker runs on a session only, and the       *)
(* silence is no older than its period, or about to end.                   *)
PromptInv ==
  faults = 0 =>
    /\ ~stalled /\ ~reconnect_requested
    /\ link = "Down" => \A i \in DOMAIN toDevice : toDevice[i] # "Welcome"
    /\ pinger =>
         /\ pc = "Loop" /\ link = "Up" /\ srv = "Accepted"
         /\ age <= phase \/ (age <= PingPeriod /\ AnswerDue)

=============================================================================

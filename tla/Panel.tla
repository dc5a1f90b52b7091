------------------------------- MODULE Panel -------------------------------
(***************************************************************************)
(* What a user sees and touches: the reset button (led.cpp, scenes.h:      *)
(* HomeIM) and the LED (HomeController, led.cpp), over the life of the     *)
(* device (Lifecycle) and the turns of loop() (main.cpp) by which it keeps *)
(* its connection (Session).                                               *)
(*                                                                         *)
(* The sketch looks at the button only where it calls reactduino::loop():  *)
(* in between the user may do anything.  A tick is a unit of time.  The    *)
(* ticker blinks at any time.  Neither memory nor LED outlives a restart;  *)
(* the user's finger does.                                                 *)
(***************************************************************************)
EXTENDS Integers

CONSTANTS
  MaxPowerCycles, MaxFlashes,  \* bounds of Lifecycle
  ResetTimeout                 \* RESET_TIMEOUT in ticks

ASSUME PanelAssumption ==
  {MaxPowerCycles, MaxFlashes} \subseteq Nat /\ ResetTimeout \in Nat \ {0}

VARIABLES
  pc, keys, wifi, ota, id, apOk, typed, request,
  powerCycles, created, attempts,  \* of Lifecycle
  turn,        \* where loop() is, once pc is "Online"
  down,        \* the user holds the button
  held,        \* for how long, or for how long last time
  missed,      \* let go and pressed again while the sketch believed it held
  pressed, reset_mode,
  age,         \* millis() - pressed_at
  flipper,     \* the period of the ticker in ms, or 0: detached
  lit          \* led_state

Life == INSTANCE Lifecycle

life   == <<pc, keys, wifi, ota, id, apOk, typed, request, powerCycles, created, attempts>>
finger == <<down, held>>
button == <<pressed, reset_mode, age, missed>>
led    == <<flipper, lit>>
vars   == <<life, turn, finger, button, led>>

Turns == {"Lost", "Connecting", "Handshake", "Loop", "Limbo", "Flashing"}

(* Times beyond this make no difference.                                   *)
Longest == ResetTimeout + 1

TypeOK ==
  /\ Life!TypeOK
  /\ turn \in Turns
  /\ down \in BOOLEAN /\ missed \in BOOLEAN
  /\ pressed \in BOOLEAN /\ reset_mode \in BOOLEAN /\ lit \in BOOLEAN
  /\ held \in 0 .. Longest /\ age \in 0 .. Longest
  /\ flipper \in {0, 50, 200, 400, 1000}

Init ==
  /\ Life!Init
  /\ turn = "Lost" /\ down = FALSE /\ held = 0
  /\ pressed = FALSE /\ reset_mode = FALSE /\ age = 0 /\ missed = FALSE
  /\ flipper = 0 /\ lit = FALSE

Restarted ==
  /\ turn' = "Lost"
  /\ pressed' = FALSE /\ reset_mode' = FALSE /\ age' = 0 /\ missed' = FALSE
  /\ flipper' = 0 /\ lit' = FALSE

(* The rest of a step: a restart, or nothing.                              *)
Otherwise == IF pc' = "Setup" THEN Restarted ELSE UNCHANGED <<turn, button, led>>

-----------------------------------------------------------------------------
(* HomeController::dispatch().  current_action is never set: an action that*)
(* is dispatched twice starts its period anew.                             *)

Period(action) ==
  CASE action = "CONNECTING_WIFI" -> 400
    [] action = "CONNECTING_DOMOIO" -> 200
    [] action = "AP_SERVER" -> 1000
    [] action \in {"FLASHING", "AP_SETUP_WIFI_CONFIG", "AP_RESET_WIFI_CONFIG"} -> 50

Connected_Bug == lit' = TRUE /\ flipper' = flipper

Connected == flipper' = 0 /\ lit' = TRUE

Dispatch(action) == flipper' = Period(action) /\ UNCHANGED lit

(* led::blink(), by the ticker.                                            *)
Blink ==
  /\ flipper # 0
  /\ lit' = ~lit
  /\ UNCHANGED <<life, turn, finger, button, flipper>>

-----------------------------------------------------------------------------
(* Lifecycle, and what it dispatches.                                      *)

VerifyKeys ==
  /\ Life!VerifyKeys
  /\ IF keys THEN UNCHANGED led ELSE Dispatch("FLASHING")
  /\ UNCHANGED <<turn, finger, button>>

OtaFound ==
  Life!OtaFound /\ Dispatch("CONNECTING_WIFI") /\ UNCHANGED <<turn, finger, button>>

OtaJoined(contents) ==
  Life!OtaJoined(contents) /\ Dispatch("FLASHING") /\ UNCHANGED <<turn, finger, button>>

connect_wifi ==
  /\ Life!connect_wifi
  /\ Dispatch(IF Life!is_configured THEN "CONNECTING_WIFI" ELSE "AP_SERVER")
  /\ UNCHANGED <<turn, finger, button>>

AskConfig ==
  Life!AskConfig /\ Dispatch("AP_SETUP_WIFI_CONFIG") /\ UNCHANGED <<turn, finger, button>>

(* These change nothing of the panel, unless they end in reset().          *)
Silently ==
  /\ \/ Life!OtaNotFound \/ Life!OtaUpdated \/ Life!Joined \/ Life!PortalJoined
     \/ Life!Registered \/ Life!SaveId \/ Life!SaveWifi \/ Life!SaveOta
  /\ Otherwise /\ UNCHANGED finger

-----------------------------------------------------------------------------
(* loop().                                                                 *)

Online(from) == pc = "Online" /\ turn = from /\ UNCHANGED <<life, finger, button>>

connect ==
  /\ Online("Lost")
  /\ Dispatch("CONNECTING_DOMOIO") /\ turn' = "Connecting"

(* client->connect() blocks until it succeeds or fails.                    *)
ClientConnects ==
  /\ Online("Connecting")
  /\ turn' \in {"Handshake", "Lost"} /\ UNCHANGED led

(* After BAD LOGIN the connection stays open.                              *)
handsake ==
  /\ Online("Handshake")
  /\ \/ turn' = "Loop" /\ Connected
     \/ turn' = "Limbo" /\ UNCHANGED led

(* The connection drops, or is given up.                                   *)
Loses ==
  /\ Online("Loop") \/ Online("Limbo")
  /\ turn' = "Lost" /\ UNCHANGED led

run_ota_update ==
  /\ Online("Loop") \/ Online("Limbo")
  /\ Dispatch("FLASHING") /\ turn' = "Flashing"

SessionUpdate ==
  turn = "Flashing" /\ Life!SessionUpdate /\ Restarted /\ UNCHANGED finger

-----------------------------------------------------------------------------
(* The button: HomeIM::loop(), where the sketch calls it.                  *)

Polls ==
  pc \in Life!Polled /\ (pc = "Online" => turn \notin {"Connecting", "Flashing"})

Shared == UNCHANGED <<life, turn, finger>>

press_Bug ==
  /\ Polls /\ down /\ ~pressed
  /\ pressed' = TRUE /\ missed' = FALSE
  /\ UNCHANGED <<reset_mode, age, led>> /\ Shared

press ==
  /\ Polls /\ down /\ ~pressed
  /\ pressed' = TRUE /\ age' = 0 /\ missed' = FALSE
  /\ UNCHANGED <<reset_mode, led>> /\ Shared

EnterResetMode_Bug ==
  /\ Polls /\ down /\ pressed /\ ~reset_mode
  /\ age >= ResetTimeout
  /\ reset_mode' = TRUE /\ Dispatch("AP_RESET_WIFI_CONFIG")
  /\ UNCHANGED <<pressed, age, missed>> /\ Shared

EnterResetMode ==
  /\ Polls /\ down /\ pressed /\ ~reset_mode
  /\ age > ResetTimeout
  /\ reset_mode' = TRUE /\ Dispatch("AP_RESET_WIFI_CONFIG")
  /\ UNCHANGED <<pressed, age, missed>> /\ Shared

(* Short presses call the application: reset_btn_callback().               *)
ReleaseShort ==
  /\ Polls /\ ~down /\ pressed /\ ~reset_mode
  /\ pressed' = FALSE
  /\ UNCHANGED <<reset_mode, age, missed, led>> /\ Shared

ReleaseLong_Bug ==
  /\ pc = "Online" /\ Polls /\ ~down /\ pressed /\ reset_mode
  /\ Life!ButtonReset /\ Restarted /\ UNCHANGED finger

(* delete_credentials(), whose reset() comes five seconds later.           *)
ReleaseLong ==
  /\ Polls /\ ~down /\ pressed /\ reset_mode
  /\ Life!ButtonReset /\ Restarted /\ UNCHANGED finger

-----------------------------------------------------------------------------
(* The user and the world.                                                 *)

Grown(t) == IF t < Longest THEN t + 1 ELSE t

Tick ==
  /\ held' = (IF down THEN Grown(held) ELSE held)
  /\ age' = (IF pressed THEN Grown(age) ELSE age)
  /\ UNCHANGED <<life, turn, down, pressed, reset_mode, missed, led>>

FingerDown ==
  /\ ~down
  /\ down' = TRUE /\ held' = 0
  /\ missed' = (missed \/ pressed)
  /\ UNCHANGED <<life, turn, pressed, reset_mode, age, led>>

FingerUp ==
  down /\ down' = FALSE /\ UNCHANGED <<life, turn, held, button, led>>

World ==
  \/ (Life!AskFlash \/ Life!ApChange) /\ UNCHANGED <<turn, finger, button, led>>
  \/ Life!PowerCycle /\ Restarted /\ UNCHANGED finger
  \/ OtaJoined("Torn") \/ AskConfig

Sketch ==
  \/ VerifyKeys \/ OtaFound \/ OtaJoined("Saved") \/ connect_wifi \/ Silently
  \/ connect \/ ClientConnects \/ handsake \/ SessionUpdate

Button == press \/ EnterResetMode \/ ReleaseShort \/ ReleaseLong

Next ==
  \/ Sketch \/ Loses \/ run_ota_update \/ Button \/ Blink
  \/ Tick \/ FingerDown \/ FingerUp \/ World

Spec == Init /\ [][Next]_vars

(* The sketch runs, and loop() polls the button in every turn, even when   *)
(* each of its connections fails.                                          *)
FairSpec == Spec /\ WF_vars(Sketch) /\ SF_vars(ReleaseLong)

-----------------------------------------------------------------------------
(* Properties.                                                             *)

(* The periods a stage is to be told by.                                   *)
Shown ==
  CASE pc \in {"Setup", "CheckOta", "CheckWifi"} -> {0}
    [] pc \in {"OtaJoin", "Joining"} -> {400}
    [] pc \in {"Portal", "FlashJoin", "SaveOta", "CloseOta"} -> {1000}
    [] pc = "Online" /\ turn = "Lost" -> {400, 200, 0}
    [] pc = "Online" /\ turn \in {"Connecting", "Handshake", "Limbo"} -> {200}
    [] pc = "Online" /\ turn = "Loop" -> {0}
    [] OTHER -> {50}

(* The LED tells the stage the sketch is in, or that the button was held   *)
(* long enough; it is steady for a session, or one that was just lost      *)
(* (scenes.h:80-110).                                                      *)
LedTells ==
  /\ flipper \in Shown \/ (reset_mode /\ flipper = 50)
  /\ pc = "Online" /\ flipper = 0 => lit

(* The sketch never believes the button held for longer than it was, but   *)
(* where it was let go and pressed again unseen (led.cpp:42-64).           *)
HeldAsLong ==
  /\ reset_mode => pressed
  /\ pressed /\ down /\ ~missed => age <= held
  /\ reset_mode /\ ~missed => held > ResetTimeout

(* The inductive invariant of PanelProofs.                                 *)
PInv ==
  /\ TypeOK /\ LedTells /\ HeldAsLong
  /\ pc # "Online" => turn = "Lost"

(* Credentials are deleted for a user who held the button for longer than  *)
(* RESET_TIMEOUT and let it go, or who let it go and pressed it again while*)
(* the sketch was not looking: no tap does it, and no time that passes     *)
(* while connect() blocks (scenes.h:45-56).                                *)
HeldToDelete ==
  [][wifi = "Saved" /\ wifi' # "Saved" => ~down /\ (held > ResetTimeout \/ missed)]_vars

(* A user who sees the reset mode and lets the button go gets a restart,   *)
(* however the network fails, or has pressed the button again.             *)
ReleaseRestarts == reset_mode /\ ~down ~> ~reset_mode \/ down

=============================================================================

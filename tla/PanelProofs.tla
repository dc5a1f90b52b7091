---------------------------- MODULE PanelProofs ----------------------------
(***************************************************************************)
(* The device with its panel is a Lifecycle, whose invariants it inherits; *)
(* on them rests what is proved of the LED and of the button.              *)
(***************************************************************************)
EXTENDS Panel, TLAPS

Stores == INSTANCE LifecycleProofs

-----------------------------------------------------------------------------
(* Every step of the panel is a step of Lifecycle or leaves it alone.      *)

LEMMA SketchActions ==
  /\ Life!VerifyKeys => Stores!VerifyKeys
  /\ Life!OtaNotFound => Stores!OtaNotFound
  /\ Life!OtaFound => Stores!OtaFound
  /\ \A c \in {"Saved", "Torn"} : Life!OtaJoined(c) => Stores!OtaJoined(c)
  /\ Life!OtaUpdated => Stores!OtaUpdated
  /\ Life!connect_wifi => Stores!connect_wifi
  /\ Life!Joined => Stores!Joined
  /\ Life!PortalJoined => Stores!PortalJoined
  /\ Life!Registered => Stores!Registered
  /\ Life!SaveId => Stores!SaveId
  /\ Life!SaveWifi => Stores!SaveWifi
  /\ Life!SaveOta => Stores!SaveOta
<1> USE DEF Life!memory, Life!stores, Life!ghosts, Life!Restart,
            Stores!memory, Stores!stores, Stores!ghosts, Stores!Restart
<1>1. Life!VerifyKeys => Stores!VerifyKeys  BY DEF Life!VerifyKeys, Stores!VerifyKeys
<1>2. Life!OtaNotFound => Stores!OtaNotFound  BY DEF Life!OtaNotFound, Stores!OtaNotFound
<1>3. Life!OtaFound => Stores!OtaFound  BY DEF Life!OtaFound, Stores!OtaFound
<1>4. \A c \in {"Saved", "Torn"} : Life!OtaJoined(c) => Stores!OtaJoined(c)
  BY DEF Life!OtaJoined, Stores!OtaJoined
<1>5. Life!OtaUpdated => Stores!OtaUpdated  BY DEF Life!OtaUpdated, Stores!OtaUpdated
<1>6. Life!connect_wifi => Stores!connect_wifi
  BY DEF Life!connect_wifi, Life!is_configured, Stores!connect_wifi, Stores!is_configured
<1>7. Life!Joined => Stores!Joined  BY DEF Life!Joined, Stores!Joined
<1>8. Life!PortalJoined => Stores!PortalJoined
  BY DEF Life!PortalJoined, Stores!PortalJoined
<1>9. Life!Registered => Stores!Registered  BY DEF Life!Registered, Stores!Registered
<1>10. Life!SaveId => Stores!SaveId  BY DEF Life!SaveId, Stores!SaveId
<1>11. Life!SaveWifi => Stores!SaveWifi  BY DEF Life!SaveWifi, Stores!SaveWifi
<1>12. Life!SaveOta => Stores!SaveOta  BY DEF Life!SaveOta, Stores!SaveOta
<1> QED
  BY <1>1, <1>2, <1>3, <1>4, <1>5, <1>6, <1>7, <1>8, <1>9, <1>10, <1>11, <1>12

LEMMA WorldActions ==
  /\ Life!AskConfig => Stores!AskConfig
  /\ Life!AskFlash => Stores!AskFlash
  /\ Life!ButtonReset => Stores!ButtonReset
  /\ Life!SessionUpdate => Stores!SessionUpdate
  /\ Life!PowerCycle => Stores!PowerCycle
  /\ Life!ApChange => Stores!ApChange
<1> USE DEF Life!memory, Life!stores, Life!ghosts, Life!Restart,
            Stores!memory, Stores!stores, Stores!ghosts, Stores!Restart
<1>1. Life!AskConfig => Stores!AskConfig  BY DEF Life!AskConfig, Stores!AskConfig
<1>2. Life!AskFlash => Stores!AskFlash  BY DEF Life!AskFlash, Stores!AskFlash
<1>3. Life!ButtonReset => Stores!ButtonReset
  BY DEF Life!ButtonReset, Life!Polled, Stores!ButtonReset, Stores!Polled
<1>4. Life!SessionUpdate => Stores!SessionUpdate
  BY DEF Life!SessionUpdate, Stores!SessionUpdate
<1>5. Life!PowerCycle => Stores!PowerCycle  BY DEF Life!PowerCycle, Stores!PowerCycle
<1>6. Life!ApChange => Stores!ApChange  BY DEF Life!ApChange, Stores!ApChange
<1> QED  BY <1>1, <1>2, <1>3, <1>4, <1>5, <1>6

LEMMA Mapped == [Next]_vars => [Stores!Next]_(Stores!vars)
<1> SUFFICES ASSUME [Next]_vars PROVE Stores!Next \/ UNCHANGED life
  BY DEF life, Stores!vars, Stores!memory, Stores!stores, Stores!ghosts
<1>1. CASE Sketch
  BY <1>1, SketchActions, WorldActions
     DEF Sketch, VerifyKeys, OtaFound, OtaJoined, connect_wifi, Silently, connect,
         ClientConnects, handsake, SessionUpdate, Online, Stores!Next, Stores!Device,
         Stores!World
<1>2. CASE Loses \/ run_ota_update
  BY <1>2 DEF Loses, run_ota_update, Online
<1>3. CASE Button
  BY <1>3, WorldActions
     DEF Button, press, EnterResetMode, ReleaseShort, ReleaseLong, Shared,
         Stores!Next, Stores!World
<1>4. CASE Blink \/ Tick \/ FingerDown \/ FingerUp
  BY <1>4 DEF Blink, Tick, FingerDown, FingerUp
<1>5. CASE World
  BY <1>5, SketchActions, WorldActions
     DEF World, OtaJoined, AskConfig, Stores!Next, Stores!World
<1>6. CASE UNCHANGED vars  BY <1>6 DEF vars
<1> QED  BY <1>1, <1>2, <1>3, <1>4, <1>5, <1>6 DEF Next

(* What is proved of Lifecycle holds of the device with its panel.         *)
THEOREM IsLifecycle == Spec => Stores!Spec
<1>1. Init => Stores!Init  BY DEF Init, Life!Init, Stores!Init
<1> QED  BY <1>1, Mapped, PTL DEF Spec, Stores!Spec

LEMMA StoresHold == Spec => []Stores!LInv
<1>1. Stores!LifecycleAssumption
  BY PanelAssumption DEF Stores!LifecycleAssumption
<1> QED  BY <1>1, IsLifecycle, Stores!StoresAgree, PTL

-----------------------------------------------------------------------------
(* The inductive invariant.                                                *)

LEMMA SameTypes ==
  /\ Stores!LInv => Life!TypeOK
  /\ Stores!LInv' => Life!TypeOK'
BY DEF Stores!LInv, Stores!TypeOK, Stores!Locations, Stores!Polled, Stores!Stored,
       Life!TypeOK, Life!Locations, Life!Polled, Life!Stored

LEMMA InitPInv == Init /\ Stores!LInv => PInv
<1> SUFFICES ASSUME Init, Stores!LInv PROVE PInv  OBVIOUS
<1>1. TypeOK
  <2>1. held \in 0 .. Longest /\ age \in 0 .. Longest /\ turn \in Turns
    BY PanelAssumption DEF Init, Turns, Longest
  <2>2. Life!TypeOK  BY SameTypes
  <2>3. flipper \in {0, 50, 200, 400, 1000}  BY DEF Init
  <2> QED  BY <2>1, <2>2, <2>3, Zenon DEF Init, TypeOK
<1>2. LedTells  BY DEF Init, Life!Init, LedTells, Shown
<1>3. HeldAsLong  BY DEF Init, HeldAsLong
<1> QED  BY <1>1, <1>2, <1>3 DEF PInv, Init

LEMMA Grows ==
  ASSUME NEW t \in 0 .. Longest
  PROVE  Grown(t) \in 0 .. Longest /\ t <= Grown(t)
BY PanelAssumption DEF Grown, Longest

LEMMA NumberStep ==
  ASSUME PInv, [Next]_vars
  PROVE  /\ turn' \in Turns /\ held' \in 0 .. Longest /\ age' \in 0 .. Longest
         /\ flipper' \in {0, 50, 200, 400, 1000}
<1>1. 0 \in 0 .. Longest  BY PanelAssumption DEF Longest
<1>2. /\ turn \in Turns /\ held \in 0 .. Longest /\ age \in 0 .. Longest
      /\ flipper \in {0, 50, 200, 400, 1000}
  BY DEF PInv, TypeOK
<1> USE <1>1, <1>2 DEF Dispatch, Period, Connected, Restarted, finger, button, led, Turns
<1>3. CASE Sketch
  BY <1>3 DEF Sketch, VerifyKeys, OtaFound, OtaJoined, connect_wifi, Silently, Otherwise,
              connect, ClientConnects, handsake, SessionUpdate, Online
<1>4. CASE Loses \/ run_ota_update  BY <1>4 DEF Loses, run_ota_update, Online
<1>5. CASE Button
  BY <1>5 DEF Button, press, EnterResetMode, ReleaseShort, ReleaseLong, Shared
<1>6. CASE Tick  BY <1>6, Grows DEF Tick
<1>7. CASE Blink \/ FingerUp \/ FingerDown  BY <1>7 DEF Blink, FingerUp, FingerDown
<1>8. CASE World  BY <1>8 DEF World, OtaJoined, AskConfig
<1>9. CASE UNCHANGED vars  BY <1>9 DEF vars
<1> QED  BY <1>3, <1>4, <1>5, <1>6, <1>7, <1>8, <1>9 DEF Next

LEMMA BooleanStep ==
  ASSUME PInv, [Next]_vars
  PROVE  /\ down' \in BOOLEAN /\ missed' \in BOOLEAN /\ pressed' \in BOOLEAN
         /\ reset_mode' \in BOOLEAN /\ lit' \in BOOLEAN
<1>1. /\ down \in BOOLEAN /\ missed \in BOOLEAN /\ pressed \in BOOLEAN
      /\ reset_mode \in BOOLEAN /\ lit \in BOOLEAN
  BY Zenon DEF PInv, TypeOK
<1> USE <1>1 DEF finger, button, led
<1>2. CASE UNCHANGED <<finger, button>> /\ lit' \in BOOLEAN  BY <1>2, Zenon
<1>3. CASE UNCHANGED finger /\ Restarted  BY <1>3, Zenon DEF Restarted
<1>4. CASE Silently  BY <1>2, <1>3, <1>4, Zenon DEF Silently, Otherwise
<1>5. CASE VerifyKeys \/ OtaFound \/ OtaJoined("Saved") \/ connect_wifi
  BY <1>2, <1>5, Zenon DEF VerifyKeys, OtaFound, OtaJoined, connect_wifi, Dispatch
<1>6. CASE connect \/ ClientConnects \/ handsake \/ Loses \/ run_ota_update
  BY <1>2, <1>6, Zenon
     DEF connect, ClientConnects, handsake, Loses, run_ota_update, Online, Dispatch, Connected
<1>7. CASE SessionUpdate \/ ReleaseLong  BY <1>3, <1>7, Zenon DEF SessionUpdate, ReleaseLong
<1>8. CASE press \/ EnterResetMode \/ ReleaseShort
  BY <1>8, Zenon DEF press, EnterResetMode, ReleaseShort, Shared, Dispatch
<1>9. CASE Blink  BY <1>2, <1>9, Zenon DEF Blink
<1>10. CASE Tick  BY <1>10, Zenon DEF Tick
<1>11. CASE FingerUp \/ FingerDown  BY <1>11, Zenon DEF FingerUp, FingerDown
<1>12. CASE World
  BY <1>2, <1>3, <1>12, Zenon DEF World, OtaJoined, AskConfig, Dispatch
<1>13. CASE UNCHANGED vars  BY <1>2, <1>13, Zenon DEF vars
<1> QED
  BY <1>4, <1>5, <1>6, <1>7, <1>8, <1>9, <1>10, <1>11, <1>12, <1>13
     DEF Next, Sketch, Button

LEMMA TypeStep ==
  ASSUME PInv, [Next]_vars, Stores!LInv'  PROVE TypeOK'
<1>1. Life!TypeOK'  BY SameTypes
<1> QED  BY <1>1, NumberStep, BooleanStep DEF TypeOK, Turns, Longest

(* The button and the time it was held.                                    *)
LEMMA HeldStep ==
  ASSUME PInv, [Next]_vars  PROVE HeldAsLong'
<1>1. HeldAsLong /\ TypeOK  BY DEF PInv
<1>2. /\ held \in 0 .. Longest /\ age \in 0 .. Longest /\ Longest = ResetTimeout + 1
      /\ ResetTimeout \in Nat
      /\ missed \in BOOLEAN /\ pressed \in BOOLEAN /\ down \in BOOLEAN
  BY <1>1, PanelAssumption DEF TypeOK, Longest
<1>3. CASE UNCHANGED <<finger, button>>
  BY <1>1, <1>3 DEF HeldAsLong, finger, button
<1>4. CASE Restarted  BY <1>4 DEF Restarted, HeldAsLong
<1>5. CASE Sketch
  BY <1>3, <1>4, <1>5
     DEF Sketch, VerifyKeys, OtaFound, OtaJoined, connect_wifi, Silently, Otherwise,
         connect, ClientConnects, handsake, SessionUpdate, Online, finger, button
<1>6. CASE Loses \/ run_ota_update \/ Blink \/ World
  BY <1>3, <1>4, <1>6
     DEF Loses, run_ota_update, Online, Blink, World, OtaJoined, AskConfig, finger, button
<1>7. CASE press
  BY <1>1, <1>2, <1>7 DEF press, Shared, HeldAsLong, finger
<1>8. CASE EnterResetMode
  BY <1>1, <1>2, <1>8 DEF EnterResetMode, Shared, HeldAsLong, finger
<1>9. CASE ReleaseShort
  BY <1>1, <1>9 DEF ReleaseShort, Shared, HeldAsLong, finger
<1>10. CASE ReleaseLong  BY <1>4, <1>10 DEF ReleaseLong
<1>11. CASE Tick
  <2>1. held <= Grown(held) /\ Grown(held) \in 0 .. Longest  BY <1>2, Grows
  <2>2. age <= held => Grown(age) <= Grown(held)  BY <1>2 DEF Grown
  <2> QED  BY <1>1, <1>2, <1>11, <2>1, <2>2 DEF Tick, HeldAsLong
<1>12. CASE FingerDown  BY <1>1, <1>12 DEF FingerDown, HeldAsLong
<1>13. CASE FingerUp  BY <1>1, <1>13 DEF FingerUp, HeldAsLong, button
<1>14. CASE UNCHANGED vars  BY <1>3, <1>14 DEF vars
<1> QED
  BY <1>5, <1>6, <1>7, <1>8, <1>9, <1>10, <1>11, <1>12, <1>13, <1>14 DEF Next, Button

(* The LED.                                                                *)
LEMMA LedStep ==
  ASSUME PInv, [Next]_vars  PROVE LedTells'
<1>1. /\ LedTells /\ flipper \in {0, 50, 200, 400, 1000} /\ turn \in Turns
      /\ pc # "Online" => turn = "Lost"
  BY DEF PInv, TypeOK
<1>2. CASE UNCHANGED <<pc, turn, reset_mode, led>>
  BY <1>1, <1>2 DEF LedTells, Shown, led
<1>3. CASE pc' = "Setup" /\ Restarted
  BY <1>3 DEF Restarted, LedTells, Shown
<1>4. CASE VerifyKeys
  BY <1>1, <1>4 DEF VerifyKeys, Life!VerifyKeys, Dispatch, Period, LedTells, Shown, led, button
<1>5. CASE OtaFound
  BY <1>5 DEF OtaFound, Life!OtaFound, Dispatch, Period, LedTells, Shown
<1>6. CASE \E c \in {"Saved", "Torn"} : OtaJoined(c)
  BY <1>6 DEF OtaJoined, Life!OtaJoined, Dispatch, Period, LedTells, Shown
<1>7. CASE connect_wifi
  BY <1>7 DEF connect_wifi, Life!connect_wifi, Dispatch, Period, LedTells, Shown
<1>8. CASE AskConfig
  BY <1>8 DEF AskConfig, Life!AskConfig, Dispatch, Period, LedTells, Shown
<1>9. CASE Silently
  <2>1. CASE pc' = "Setup"  BY <1>3, <1>9, <2>1 DEF Silently, Otherwise
  <2>2. CASE pc' # "Setup"
    <3>1. UNCHANGED <<turn, button, led>>  BY <1>9, <2>2 DEF Silently, Otherwise
    <3>2. CASE Life!OtaNotFound
      BY <1>1, <3>1, <3>2 DEF Life!OtaNotFound, LedTells, Shown, led, button
    <3>3. CASE Life!OtaUpdated
      BY <2>2, <3>3 DEF Life!OtaUpdated, Life!Restart
    <3>4. CASE Life!Joined
      BY <1>1, <3>1, <3>4 DEF Life!Joined, LedTells, Shown, led, button, Turns
    <3>5. CASE Life!PortalJoined
      BY <1>1, <3>1, <3>5 DEF Life!PortalJoined, LedTells, Shown, led, button
    <3>6. CASE Life!Registered
      BY <1>1, <3>1, <3>6 DEF Life!Registered, LedTells, Shown, led, button
    <3>7. CASE Life!SaveId
      BY <1>1, <3>1, <3>7 DEF Life!SaveId, LedTells, Shown, led, button
    <3>8. CASE Life!SaveWifi
      BY <1>1, <2>2, <3>1, <3>8 DEF Life!SaveWifi, Life!Restart, LedTells, Shown, led, button
    <3>9. CASE Life!SaveOta
      BY <1>1, <2>2, <3>1, <3>9 DEF Life!SaveOta, Life!Restart, LedTells, Shown, led, button
    <3> QED  BY <1>9, <3>2, <3>3, <3>4, <3>5, <3>6, <3>7, <3>8, <3>9 DEF Silently
  <2> QED  BY <2>1, <2>2
<1>10. CASE connect \/ ClientConnects \/ handsake \/ Loses \/ run_ota_update
  BY <1>1, <1>10
     DEF connect, ClientConnects, handsake, Loses, run_ota_update, Online, Dispatch, Period,
         Connected, LedTells, Shown, led, button, life
<1>11. CASE SessionUpdate \/ ReleaseLong \/ (Life!PowerCycle /\ Restarted)
  BY <1>3, <1>11
     DEF SessionUpdate, ReleaseLong, Life!SessionUpdate, Life!ButtonReset, Life!PowerCycle,
         Life!Restart
<1>12. CASE press \/ ReleaseShort \/ Tick \/ FingerDown \/ FingerUp \/ UNCHANGED vars
  BY <1>2, <1>12
     DEF press, ReleaseShort, Tick, FingerDown, FingerUp, Shared, vars, life, button
<1>13. CASE EnterResetMode
  BY <1>13 DEF EnterResetMode, Shared, Dispatch, Period, LedTells
<1>14. CASE Blink
  BY <1>1, <1>14 DEF Blink, LedTells, Shown, life, button
<1>15. CASE (Life!AskFlash \/ Life!ApChange) /\ UNCHANGED <<turn, finger, button, led>>
  BY <1>1, <1>15 DEF Life!AskFlash, Life!ApChange, LedTells, Shown, led, button
<1> QED
  BY <1>4, <1>5, <1>6, <1>7, <1>8, <1>9, <1>10, <1>11, <1>12, <1>13, <1>14, <1>15
     DEF Next, Sketch, Button, World

(* Until it is online, the sketch is not in loop().                        *)
LEMMA TurnStep ==
  ASSUME PInv, [Next]_vars  PROVE (pc # "Online" => turn = "Lost")'
<1>1. pc # "Online" => turn = "Lost"  BY DEF PInv
<1>2. CASE Restarted  BY <1>2 DEF Restarted
<1>3. CASE UNCHANGED <<pc, turn>>  BY <1>1, <1>3
<1>4. CASE pc # "Online" /\ UNCHANGED turn  BY <1>1, <1>4
<1>5. CASE Silently
  BY <1>2, <1>4, <1>5
     DEF Silently, Otherwise, Life!OtaNotFound, Life!OtaUpdated, Life!Joined,
         Life!PortalJoined, Life!Registered, Life!SaveId, Life!SaveWifi, Life!SaveOta
<1>6. CASE VerifyKeys \/ OtaFound \/ OtaJoined("Saved") \/ connect_wifi \/ World
  BY <1>2, <1>3, <1>4, <1>6
     DEF VerifyKeys, OtaFound, OtaJoined, connect_wifi, World, AskConfig, Life!VerifyKeys,
         Life!OtaFound, Life!OtaJoined, Life!connect_wifi, Life!AskConfig, Life!AskFlash,
         Life!ApChange
<1>7. CASE connect \/ ClientConnects \/ handsake \/ Loses \/ run_ota_update
  BY <1>7 DEF connect, ClientConnects, handsake, Loses, run_ota_update, Online, life
<1>8. CASE SessionUpdate \/ ReleaseLong  BY <1>2, <1>8 DEF SessionUpdate, ReleaseLong
<1>9. CASE press \/ EnterResetMode \/ ReleaseShort \/ Blink \/ Tick \/ FingerDown
           \/ FingerUp \/ UNCHANGED vars
  BY <1>3, <1>9
     DEF press, EnterResetMode, ReleaseShort, Shared, Blink, Tick, FingerDown, FingerUp,
         vars, life
<1> QED  BY <1>5, <1>6, <1>7, <1>8, <1>9 DEF Next, Sketch, Button

(* The LED tells the stage, and the button is never believed held for      *)
(* longer than it was (scenes.h:80-110, led.cpp:42-64).                    *)
THEOREM PanelAgrees == Spec => []PInv
<1>1. PInv /\ [Next]_vars /\ Stores!LInv' => PInv'
  BY TypeStep, HeldStep, LedStep, TurnStep DEF PInv
<1> QED  BY <1>1, InitPInv, StoresHold, PTL DEF Spec

(* No tap deletes the credentials, in any stage and however long connect() *)
(* blocks (scenes.h:45-56).                                                *)
THEOREM HeldBeforeDeleted == Spec => HeldToDelete
<1>1. /\ PInv /\ Stores!LInv /\ [Next]_vars
      => [wifi = "Saved" /\ wifi' # "Saved" => ~down /\ (held > ResetTimeout \/ missed)]_vars
  <2> SUFFICES ASSUME PInv, Stores!LInv, [Next]_vars, wifi = "Saved", wifi' # "Saved"
               PROVE  ~down /\ (held > ResetTimeout \/ missed)
    OBVIOUS
  <2>1. [Stores!Next]_(Stores!vars)  BY Mapped
  <2>2. ReleaseLong
    <3>1. CASE Sketch
      <4>1. pc # "SaveWifi"
        <5>1. Stores!FilesInv  BY DEF Stores!LInv
        <5>2. pc = "SaveWifi" => wifi = "None"  BY <5>1 DEF Stores!FilesInv
        <5> QED  BY <5>2
      <4> QED
        BY <3>1, <4>1
           DEF Sketch, VerifyKeys, OtaFound, OtaJoined, connect_wifi, Silently, connect,
               ClientConnects, handsake, SessionUpdate, Online, life,
               Life!VerifyKeys, Life!OtaNotFound, Life!OtaFound, Life!OtaJoined,
               Life!OtaUpdated, Life!connect_wifi, Life!Joined, Life!PortalJoined,
               Life!Registered, Life!SaveId, Life!SaveWifi, Life!SaveOta,
               Life!SessionUpdate, Life!stores
    <3>2. CASE Loses \/ run_ota_update \/ Blink \/ Tick \/ FingerDown \/ FingerUp
      BY <3>2 DEF Loses, run_ota_update, Online, Blink, Tick, FingerDown, FingerUp, life
    <3>3. CASE World
      BY <3>3 DEF World, OtaJoined, AskConfig, Life!AskFlash, Life!ApChange, Life!PowerCycle,
                  Life!OtaJoined, Life!AskConfig, Life!stores
    <3>4. CASE press \/ EnterResetMode \/ ReleaseShort \/ UNCHANGED vars
      BY <3>4 DEF press, EnterResetMode, ReleaseShort, Shared, vars, life
    <3> QED  BY <3>1, <3>2, <3>3, <3>4 DEF Next, Button
  <2> QED  BY <2>2 DEF ReleaseLong, PInv, HeldAsLong
<1> QED  BY <1>1, PanelAgrees, StoresHold, PTL DEF Spec, HeldToDelete

=============================================================================

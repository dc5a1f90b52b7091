-------------------------- MODULE LifecycleProofs --------------------------
(***************************************************************************)
(* Lifecycle holds its invariants however often the power is cut.          *)
(***************************************************************************)
EXTENDS Lifecycle, TLAPS

LEMMA TypeStep ==
  ASSUME LInv, [Next]_vars
  PROVE  TypeOK'
<1>0. /\ MaxPowerCycles \in Nat /\ MaxFlashes \in Nat
      /\ powerCycles \in 0 .. MaxPowerCycles
      /\ created \in 0 .. MaxFlashes /\ attempts \in 0 .. MaxFlashes
      /\ pc = "OtaJoin" => attempts < created
      /\ pc = "SaveOta" => created < MaxFlashes
  BY LifecycleAssumption DEF LInv, TypeOK, AttemptsInv, Pending
<1>t. TypeOK
  BY DEF LInv
<1> USE <1>0, <1>t DEF TypeOK, Stored, Locations, Polled, vars, memory, stores, ghosts
<1>1. CASE VerifyKeys
  BY <1>1 DEF VerifyKeys
<1>2. CASE OtaNotFound
  BY <1>2 DEF OtaNotFound
<1>3. CASE OtaFound
  BY <1>3 DEF OtaFound
<1>4. CASE \E c \in Stored : OtaJoined(c)
  BY <1>4 DEF OtaJoined
<1>5. CASE OtaUpdated
  BY <1>5 DEF OtaUpdated, Restart
<1>6. CASE connect_wifi
  BY <1>6 DEF connect_wifi, is_configured
<1>7. CASE Joined
  BY <1>7 DEF Joined
<1>8. CASE PortalJoined
  BY <1>8 DEF PortalJoined
<1>9. CASE Registered
  BY <1>9 DEF Registered
<1>10. CASE SaveId
  BY <1>10 DEF SaveId
<1>11. CASE SaveWifi
  BY <1>11 DEF SaveWifi, Restart
<1>12. CASE SaveOta
  <2>1. CASE pc = "SaveOta"
    <3>1. created' \in 0 .. MaxFlashes
      BY <1>12, <2>1 DEF SaveOta
    <3>q. QED
      BY <1>12, <2>1, <3>1 DEF SaveOta
  <2>2. CASE pc = "CloseOta"
    BY <1>12, <2>2 DEF SaveOta, Restart
  <2>q. QED
    BY <1>12, <2>1, <2>2 DEF SaveOta
<1>13. CASE AskConfig
  BY <1>13 DEF AskConfig
<1>14. CASE AskFlash
  BY <1>14 DEF AskFlash
<1>15. CASE ButtonReset
  BY <1>15 DEF ButtonReset, Restart, Polled
<1>16. CASE SessionUpdate
  BY <1>16 DEF SessionUpdate, Restart
<1>17. CASE PowerCycle
  <2>1. powerCycles' \in 0 .. MaxPowerCycles
    BY <1>17 DEF PowerCycle
  <2>q. QED
    BY <1>17, <2>1 DEF PowerCycle, Restart
<1>18. CASE ApChange
  BY <1>18 DEF ApChange
<1>19. CASE UNCHANGED vars
  BY <1>19
<1>q. QED
  BY <1>0, <1>1, <1>2, <1>3, <1>4, <1>5, <1>6, <1>7, <1>8, <1>9,
     <1>10, <1>11, <1>12, <1>13, <1>14, <1>15, <1>16, <1>17, <1>18, <1>19
     DEF Next, Device, World, Stored

(* The files and the id: who is unconfigured, and what is written last.    *)
LEMMA FilesStep ==
  ASSUME LInv, [Next]_vars
  PROVE  FilesInv' /\ ConfiguredIsRegistered'
<1>0. TypeOK /\ FilesInv /\ ConfiguredIsRegistered
  BY DEF LInv
<1> USE <1>0 DEF FilesInv, ConfiguredIsRegistered, UpdateIsUnconfigured, vars, memory,
                 stores, ghosts
<1>1. CASE VerifyKeys
  BY <1>1 DEF VerifyKeys
<1>2. CASE OtaNotFound
  BY <1>2 DEF OtaNotFound
<1>3. CASE OtaFound
  BY <1>3 DEF OtaFound
<1>4. CASE \E c \in Stored : OtaJoined(c)
  BY <1>4 DEF OtaJoined
<1>5. CASE OtaUpdated
  BY <1>5 DEF OtaUpdated, Restart
<1>6. CASE connect_wifi
  BY <1>6 DEF connect_wifi, is_configured
<1>7. CASE Joined
  BY <1>7 DEF Joined
<1>8. CASE PortalJoined
  BY <1>8 DEF PortalJoined
<1>9. CASE Registered
  BY <1>9 DEF Registered
<1>10. CASE SaveId
  BY <1>10 DEF SaveId
<1>11. CASE SaveWifi
  BY <1>11 DEF SaveWifi, Restart
<1>12. CASE SaveOta
  BY <1>12 DEF SaveOta, Restart
<1>13. CASE AskConfig
  BY <1>13 DEF AskConfig
<1>14. CASE AskFlash
  BY <1>14 DEF AskFlash
<1>15. CASE ButtonReset
  BY <1>15 DEF ButtonReset, Restart, Polled
<1>16. CASE SessionUpdate
  BY <1>16 DEF SessionUpdate, Restart
<1>17. CASE PowerCycle
  BY <1>17 DEF PowerCycle, Restart
<1>18. CASE ApChange
  BY <1>18 DEF ApChange
<1>19. CASE UNCHANGED vars
  BY <1>19
<1>q. QED
  BY <1>0, <1>1, <1>2, <1>3, <1>4, <1>5, <1>6, <1>7, <1>8, <1>9,
     <1>10, <1>11, <1>12, <1>13, <1>14, <1>15, <1>16, <1>17, <1>18, <1>19
     DEF Next, Device, World, Stored

(* The attempts: one for each file that is gone.                           *)
LEMMA AttemptsStep ==
  ASSUME LInv, [Next]_vars
  PROVE  AttemptsInv'
<1>0. /\ MaxFlashes \in Nat /\ created \in Nat /\ attempts \in Nat
      /\ AttemptsInv /\ FilesInv
  BY LifecycleAssumption DEF LInv, TypeOK
<1> USE <1>0 DEF AttemptsInv, FilesInv, Pending, vars, memory, stores, ghosts
<1>1. CASE VerifyKeys
  BY <1>1 DEF VerifyKeys
<1>2. CASE OtaNotFound
  BY <1>2 DEF OtaNotFound
<1>3. CASE OtaFound
  BY <1>3 DEF OtaFound
<1>4. CASE \E c \in Stored : OtaJoined(c)
  BY <1>4 DEF OtaJoined
<1>5. CASE OtaUpdated
  BY <1>5 DEF OtaUpdated, Restart
<1>6. CASE connect_wifi
  BY <1>6 DEF connect_wifi, is_configured
<1>7. CASE Joined
  BY <1>7 DEF Joined
<1>8. CASE PortalJoined
  BY <1>8 DEF PortalJoined
<1>9. CASE Registered
  BY <1>9 DEF Registered
<1>10. CASE SaveId
  BY <1>10 DEF SaveId
<1>11. CASE SaveWifi
  BY <1>11 DEF SaveWifi, Restart
<1>12. CASE SaveOta
  BY <1>12 DEF SaveOta, Restart
<1>13. CASE AskConfig
  BY <1>13 DEF AskConfig
<1>14. CASE AskFlash
  BY <1>14 DEF AskFlash
<1>15. CASE ButtonReset
  BY <1>15 DEF ButtonReset, Restart, Polled
<1>16. CASE SessionUpdate
  BY <1>16 DEF SessionUpdate, Restart
<1>17. CASE PowerCycle
  BY <1>17 DEF PowerCycle, Restart
<1>18. CASE ApChange
  BY <1>18 DEF ApChange
<1>19. CASE UNCHANGED vars
  BY <1>19
<1>q. QED
  BY <1>0, <1>1, <1>2, <1>3, <1>4, <1>5, <1>6, <1>7, <1>8, <1>9,
     <1>10, <1>11, <1>12, <1>13, <1>14, <1>15, <1>16, <1>17, <1>18, <1>19
     DEF Next, Device, World, Stored

LEMMA LInvInit == Init => LInv
<1> SUFFICES ASSUME Init PROVE LInv
  OBVIOUS
<1>1. TypeOK
  <2>1. 0 \in 0 .. MaxPowerCycles /\ 0 \in 0 .. MaxFlashes
    BY LifecycleAssumption
  <2>2. /\ powerCycles \in 0 .. MaxPowerCycles
        /\ created \in 0 .. MaxFlashes /\ attempts \in 0 .. MaxFlashes
    BY <2>1 DEF Init
  <2>3. keys \in BOOLEAN /\ apOk \in BOOLEAN /\ typed \in BOOLEAN
    BY DEF Init
  <2>4. pc \in Locations
    BY DEF Init, Locations
  <2>q. QED
    BY <2>2, <2>3, <2>4 DEF Init, TypeOK, Stored
<1>2. ConfiguredIsRegistered /\ FilesInv
  BY DEF Init, ConfiguredIsRegistered, FilesInv, UpdateIsUnconfigured
<1>3. AttemptsInv
  BY DEF Init, AttemptsInv, Pending
<1>q. QED
  BY <1>1, <1>2, <1>3 DEF LInv

(* In every reachable state, wherever the power was cut, the three stores  *)
(* and the location of the sketch agree.                                   *)
THEOREM StoresAgree == Spec => []LInv
<1>1. LInv /\ [Next]_vars => LInv'
  BY TypeStep, FilesStep, AttemptsStep DEF LInv
<1>q. QED
  BY <1>1, LInvInit, PTL DEF Spec

(* An update file is tried at most once, for any number of power cuts.     *)
THEOREM TriedAtMostOnce == Spec => []AtMostOnce
<1>1. LInv => AtMostOnce
  BY DEF LInv, TypeOK, AttemptsInv, Pending, AtMostOnce
<1>q. QED
  BY <1>1, StoresAgree, PTL

(* A configured device has an id.                                          *)
THEOREM RegisteredFirst == Spec => []ConfiguredIsRegistered
<1>1. LInv => ConfiguredIsRegistered
  BY DEF LInv
<1>q. QED
  BY <1>1, StoresAgree, PTL

(* "/ota" and "/wifi" are never there together, and an update from a file  *)
(* finds no credentials.                                                   *)
THEOREM UpdatesAreUnconfigured == Spec => []UpdateIsUnconfigured
<1>1. LInv => UpdateIsUnconfigured
  BY DEF LInv, FilesInv
<1>q. QED
  BY <1>1, StoresAgree, PTL

(* Only the reset button deletes saved credentials.                        *)
THEOREM OnlyButtonForgets == Spec => CredentialsKept
<1>1. LInv /\ [Next]_vars => [wifi = "Saved" /\ wifi' # "Saved" => ButtonReset]_vars
  <2> SUFFICES ASSUME LInv, [Next]_vars, wifi = "Saved", wifi' # "Saved"
               PROVE  ButtonReset
    OBVIOUS
  <2>1. ~SaveWifi
    <3>1. pc # "SaveWifi"
      BY DEF LInv, FilesInv
    <3>2. CASE pc = "CloseWifi" /\ wifi' = "Saved"
      BY <3>2
    <3>q. QED
      BY <3>1, <3>2 DEF SaveWifi
  <2>q. QED
    BY <2>1 DEF Next, Device, World, VerifyKeys, OtaNotFound, OtaFound, OtaJoined,
            OtaUpdated, connect_wifi, Joined, PortalJoined, Registered, SaveId,
            SaveOta, AskConfig, AskFlash, SessionUpdate, PowerCycle, ApChange, vars,
            stores
<1>q. QED
  BY <1>1, StoresAgree, PTL DEF Spec, CredentialsKept

=============================================================================

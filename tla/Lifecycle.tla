----------------------------- MODULE Lifecycle -----------------------------
(***************************************************************************)
(* The life of a device between power cycles: setup() (main.cpp), the      *)
(* update left in a file (flash.cpp), the wifi credentials (domoio_core.h: *)
(* WifiConfig), the configuration portal (wificonf.cpp), the registration  *)
(* (domoio.cpp: register_device) and the reset button (led.cpp, scenes.h). *)
(*                                                                         *)
(* Three stores outlive a power cut: the files "/wifi" and "/ota" of       *)
(* SPIFFS and the device id in the EEPROM.  Each is written in two steps,  *)
(* so that the power may be cut between them.  What the sketch does once   *)
(* it is on the network is module Session; here it is the location Online. *)
(***************************************************************************)
EXTENDS Integers

CONSTANTS
  MaxPowerCycles,  \* bound: power cuts
  MaxFlashes       \* bound: updates asked for at the portal

ASSUME LifecycleAssumption == {MaxPowerCycles, MaxFlashes} \subseteq Nat

VARIABLES
  pc,           \* where the sketch is
  keys,         \* the RSA keys are in SPIFFS
  wifi, ota,    \* the files: "None", "Torn" (opened, not closed) or "Saved"
  id,           \* the device id in the EEPROM: likewise
  apOk,         \* the access point takes the credentials of whoever asked last
  typed,        \* the credentials typed at the portal are right
  request,      \* what was read of "/ota" before it was removed
  powerCycles,  \* power cuts so far
  created,      \* files "/ota" opened for writing so far
  attempts      \* updates started from such a file so far

memory == <<typed, request>>
stores == <<wifi, ota, id>>
ghosts == <<powerCycles, created, attempts>>
vars   == <<pc, keys, apOk, memory, stores, ghosts>>

Stored == {"None", "Torn", "Saved"}

Polled_Bug == {"OtaJoin", "ConfigJoin", "FlashJoin", "Online"}

(* The loops that call reactduino::loop(), which polls the reset button:   *)
(* wait_for_wifi(), connect_to_ap() and loop() itself.                     *)
Polled == {"OtaJoin", "Joining", "ConfigJoin", "FlashJoin", "Online"}

Locations ==
  {"Setup", "CheckOta", "CheckWifi", "Fatal", "OtaUpdate", "Portal",
   "Register", "SaveId", "CloseId", "SaveWifi", "CloseWifi",
   "SaveOta", "CloseOta"} \cup Polled

TypeOK ==
  /\ pc \in Locations
  /\ keys \in BOOLEAN /\ apOk \in BOOLEAN /\ typed \in BOOLEAN
  /\ wifi \in Stored /\ ota \in Stored /\ id \in Stored /\ request \in Stored
  /\ powerCycles \in 0 .. MaxPowerCycles
  /\ created \in 0 .. MaxFlashes
  /\ attempts \in 0 .. MaxFlashes

(* A device as it leaves the factory, its keys flashed or forgotten.       *)
Init ==
  /\ pc = "Setup"
  /\ keys \in BOOLEAN
  /\ wifi = "None" /\ ota = "None" /\ id = "None"
  /\ apOk = TRUE
  /\ typed = FALSE /\ request = "None"
  /\ powerCycles = 0 /\ created = 0 /\ attempts = 0

(* reset(), or a power cut: setup() starts over, and memory is lost.       *)
Restart == pc' = "Setup" /\ typed' = FALSE /\ request' = "None"

-----------------------------------------------------------------------------
(* setup().                                                                *)

VerifyKeys ==
  /\ pc = "Setup"
  /\ pc' = IF keys THEN "CheckOta" ELSE "Fatal"
  /\ UNCHANGED <<keys, apOk, memory, stores, ghosts>>

OtaNotFound ==
  /\ pc = "CheckOta" /\ ota = "None"
  /\ pc' = "CheckWifi"
  /\ UNCHANGED <<keys, apOk, memory, stores, ghosts>>

OtaFound_Bug ==
  /\ pc = "CheckOta" /\ ota # "None"
  /\ request' = ota
  /\ pc' = "OtaJoin"
  /\ UNCHANGED <<keys, apOk, typed, stores, ghosts>>

(* The file is removed before its update is tried: an update that kills    *)
(* the device is not tried again.                                          *)
OtaFound ==
  /\ pc = "CheckOta" /\ ota # "None"
  /\ request' = ota
  /\ ota' = "None"
  /\ pc' = "OtaJoin"
  /\ UNCHANGED <<keys, apOk, typed, wifi, id, ghosts>>

(* join_wifi_network() succeeds; of a torn file enough may have been read. *)
OtaJoined(contents) ==
  /\ pc = "OtaJoin" /\ request = contents /\ apOk
  /\ pc' = "OtaUpdate"
  /\ attempts' = attempts + 1
  /\ UNCHANGED <<keys, apOk, memory, stores, powerCycles, created>>

(* run() resets the device, whether the update failed or not.              *)
OtaUpdated ==
  /\ pc = "OtaUpdate"
  /\ Restart
  /\ UNCHANGED <<keys, apOk, stores, ghosts>>

(* WifiConfig::is_configured(): the file exists, whatever it holds.        *)
is_configured == wifi # "None"

connect_wifi_Bug ==
  /\ pc = "CheckWifi"
  /\ pc' = IF is_configured /\ apOk THEN "Joining" ELSE "Portal"
  /\ UNCHANGED <<keys, apOk, memory, stores, ghosts>>

connect_wifi ==
  /\ pc = "CheckWifi"
  /\ pc' = IF is_configured THEN "Joining" ELSE "Portal"
  /\ UNCHANGED <<keys, apOk, memory, stores, ghosts>>

(* connect_to_ap(): there is no time-out, and a torn file joins nothing.   *)
Joined ==
  /\ pc = "Joining" /\ wifi = "Saved" /\ apOk
  /\ pc' = "Online"
  /\ UNCHANGED <<keys, apOk, memory, stores, ghosts>>

-----------------------------------------------------------------------------
(* The portal: handle_config() and handle_flash(), on a user's request.    *)

AskConfig ==
  /\ pc = "Portal"
  /\ typed' \in BOOLEAN
  /\ pc' = "ConfigJoin"
  /\ UNCHANGED <<keys, apOk, request, stores, ghosts>>

AskFlash ==
  /\ pc = "Portal" /\ created < MaxFlashes
  /\ typed' \in BOOLEAN
  /\ pc' = "FlashJoin"
  /\ UNCHANGED <<keys, apOk, request, stores, ghosts>>

PortalJoined_Bug ==
  /\ pc \in {"ConfigJoin", "FlashJoin"} /\ typed /\ apOk
  /\ pc' = IF pc = "ConfigJoin" THEN "SaveWifi" ELSE "SaveOta"
  /\ UNCHANGED <<keys, apOk, memory, stores, ghosts>>

(* Both loop until the network takes what was typed.                       *)
PortalJoined ==
  /\ pc \in {"ConfigJoin", "FlashJoin"} /\ typed /\ apOk
  /\ pc' = IF pc = "ConfigJoin" THEN "Register" ELSE "SaveOta"
  /\ UNCHANGED <<keys, apOk, memory, stores, ghosts>>

(* register_device() succeeds at last; an id that is already in the EEPROM *)
(* is not written again.                                                   *)
Registered ==
  /\ pc = "Register"
  /\ \/ pc' = "SaveId"
     \/ id = "Saved" /\ pc' = "SaveWifi"
  /\ UNCHANGED <<keys, apOk, memory, stores, ghosts>>

(* Storage::set_device_id(): EEPROM.commit() erases the sector, then       *)
(* writes it.                                                              *)
SaveId ==
  /\ \/ pc = "SaveId" /\ id' = "Torn" /\ pc' = "CloseId"
     \/ pc = "CloseId" /\ id' = "Saved" /\ pc' = "SaveWifi"
  /\ UNCHANGED <<keys, apOk, memory, wifi, ota, ghosts>>

(* WifiConfig::save(), then reset().                                       *)
SaveWifi ==
  /\ \/ /\ pc = "SaveWifi" /\ wifi' = "Torn" /\ pc' = "CloseWifi"
        /\ UNCHANGED memory
     \/ pc = "CloseWifi" /\ wifi' = "Saved" /\ Restart
  /\ UNCHANGED <<keys, apOk, ota, id, ghosts>>

(* create_ota_update_file(), then reset().                                 *)
SaveOta ==
  /\ \/ /\ pc = "SaveOta" /\ ota' = "Torn" /\ pc' = "CloseOta"
        /\ created' = created + 1
        /\ UNCHANGED memory
     \/ /\ pc = "CloseOta" /\ ota' = "Saved" /\ Restart
        /\ UNCHANGED created
  /\ UNCHANGED <<keys, apOk, wifi, id, powerCycles, attempts>>

-----------------------------------------------------------------------------
(* The world.                                                              *)

(* delete_credentials(): the button was held and released.                 *)
ButtonReset ==
  /\ pc \in Polled
  /\ wifi' = "None"
  /\ Restart
  /\ UNCHANGED <<keys, apOk, ota, id, ghosts>>

(* An update the server asked for ends in reset() (module Session).        *)
SessionUpdate ==
  /\ pc = "Online"
  /\ Restart
  /\ UNCHANGED <<keys, apOk, stores, ghosts>>

PowerCycle ==
  /\ powerCycles < MaxPowerCycles /\ powerCycles' = powerCycles + 1
  /\ Restart
  /\ UNCHANGED <<keys, apOk, stores, created, attempts>>

(* The access point's password changes, or changes back.                   *)
ApChange == apOk' = ~apOk /\ UNCHANGED <<pc, keys, memory, stores, ghosts>>

Device ==
  \/ VerifyKeys \/ OtaNotFound \/ OtaFound \/ OtaJoined("Saved") \/ OtaUpdated
  \/ connect_wifi \/ Joined \/ PortalJoined \/ Registered
  \/ SaveId \/ SaveWifi \/ SaveOta

World ==
  \/ OtaJoined("Torn") \/ AskConfig \/ AskFlash
  \/ ButtonReset \/ SessionUpdate \/ PowerCycle \/ ApChange

Next == Device \/ World

Spec == Init /\ [][Next]_vars

(* The sketch runs.  register_device() succeeds in the end.                *)
FairSpec == Spec /\ WF_vars(Device)

-----------------------------------------------------------------------------
(* Properties.                                                             *)

(* An update left in "/ota" is started at most once, whenever the power is *)
(* cut: the file is gone before try_ota_update_from_file() joins the       *)
(* network, so that a bad update cannot keep the device from booting.      *)
AtMostOnce == attempts <= created

(* Wherever the power is cut, a device with a "/wifi" file has an id: it   *)
(* never goes online with a blank or half-written one in its hello.        *)
ConfiguredIsRegistered == wifi # "None" => id = "Saved"

(* Only an unconfigured device holds or runs an update from a file: after  *)
(* it, the device is back at the portal.                                   *)
UpdateIsUnconfigured ==
  ota # "None" \/ pc \in {"OtaJoin", "OtaUpdate"} => wifi = "None"

(* Saved credentials are lost only through the reset button: no power cut, *)
(* unreachable network or update takes them.                               *)
CredentialsKept == [][wifi = "Saved" /\ wifi' # "Saved" => ButtonReset]_vars

(* A device with saved credentials comes online, unless the network takes  *)
(* them no more or the button deletes them first.                          *)
ComesOnline == wifi = "Saved" ~> (pc = "Online" \/ ~apOk \/ wifi # "Saved")

(* A half-written "/wifi" file, which no network will ever take, is not    *)
(* the end of the device for a user who holds the button until it resets.  *)
TornRecovers == WF_vars(ButtonReset) => (wifi = "Torn" ~> wifi # "Torn")

-----------------------------------------------------------------------------
(* The inductive invariant behind the safety properties (LifecycleProofs). *)

(* Only an unconfigured device is at the portal or past it: "/wifi" and    *)
(* "/ota" are never there together, and "/wifi" is written last.           *)
FilesInv ==
  /\ UpdateIsUnconfigured
  /\ pc \in {"Portal", "ConfigJoin", "FlashJoin", "Register", "SaveId", "CloseId",
             "SaveWifi", "SaveOta", "CloseOta"} => wifi = "None"
  /\ pc \in {"SaveWifi", "CloseWifi"} => id = "Saved"
  /\ pc \in {"CheckWifi", "Joining", "Portal", "ConfigJoin", "FlashJoin", "Register",
             "SaveId", "CloseId", "SaveWifi", "CloseWifi", "SaveOta", "Online",
             "OtaJoin", "OtaUpdate"} => ota = "None"
  /\ pc = "CloseOta" => ota = "Torn"

(* The files "/ota" whose update has not been started yet.                 *)
Pending == IF ota # "None" \/ pc = "OtaJoin" THEN 1 ELSE 0

(* There is room for one more file when the portal goes for it.            *)
AttemptsInv ==
  /\ attempts + Pending <= created
  /\ pc \in {"FlashJoin", "SaveOta"} => created < MaxFlashes

LInv == TypeOK /\ ConfiguredIsRegistered /\ FilesInv /\ AttemptsInv

=============================================================================

----------------------------- MODULE Presence -----------------------------
(***************************************************************************)
(* What Session promises the application, which sees nothing of clients,   *)
(* tickers and handshakes: the events handle_event() gives it.             *)
(*                                                                         *)
(* It is told of a connection only after it was told of a disconnection,   *)
(* and as long as it believes in a connection, the device has heard from   *)
(* the server within Limit seconds.                                        *)
(***************************************************************************)
EXTENDS Naturals

CONSTANT Limit  \* seconds of silence an application may be left to believe in

VARIABLES
  told,   \* the last event, "None" since the restart, or "Leaving" for one
  quiet   \* seconds since the server was heard, while it is "Connected"

vars == <<told, quiet>>

Init == told = "None" /\ quiet = 0

Open == told = "Disconnected" /\ told' = "Connected" /\ quiet' = 0

Close == told' = "Disconnected" /\ quiet' = 0

Hear == told = "Connected" /\ quiet' = 0 /\ UNCHANGED told

Pass == told = "Connected" /\ quiet < Limit /\ quiet' = quiet + 1 /\ UNCHANGED told

(* The device accepts an update, after which it restarts.                  *)
Leave == told' = "Leaving" /\ quiet' = 0

Restart == told' = "None" /\ quiet' = 0

Next == Open \/ Close \/ Hear \/ Pass \/ Leave \/ Restart

Spec == Init /\ [][Next]_vars

=============================================================================

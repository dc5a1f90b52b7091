----------------------------- MODULE MCSession -----------------------------
(***************************************************************************)
(* Session for TLC: what can be said when the faults are over.             *)
(***************************************************************************)
EXTENDS Session

CONSTANT MaxInFlight  \* bound: unread frames in either direction

(* A slow server leaves pings unread without limit: look no further than   *)
(* MaxInFlight of them.                                                    *)
FewInFlight == Len(toServer) <= MaxInFlight /\ Len(toDevice) <= MaxInFlight

(* The device is logged in and its keep-alive is content.                  *)
InSession ==
  /\ authenticated /\ link = "Up" /\ srv = "Accepted"
  /\ pinger /\ ~reconnect_requested

(* connect() gave the login up, but the connection stays open: loop() sees *)
(* a connected client.  Nothing ever tries to log in again: no keep-alive  *)
(* is armed, or a stale one is kept content by the answers of the server.  *)
Limbo == pc = "Loop" /\ link = "Up" /\ ~authenticated

(* Once the faults are over, the device ends in a session for good or,     *)
(* when an answer was late during handsake(), waits for ever on a          *)
(* connection it never logged in on.                                       *)
ConvergesOrStrands == <>[]InSession \/ <>[]Limbo

(* The device ends in a session for good when no answer is ever late:      *)
(* broken connections, refused ones and power cycles are recovered from.   *)
Converges == []~stalled => <>[]InSession

=============================================================================

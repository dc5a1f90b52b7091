------------------------------- MODULE Ports -------------------------------
(***************************************************************************)
(* The ports of the board (port.cpp): what set_value() stores and writes   *)
(* to the pin.  The list of ports never changes after setup().             *)
(***************************************************************************)
EXTENDS Integers

CONSTANTS
  PortIds,  \* of the ports the application set up
  Low,      \* those that are active_low
  Digital,  \* those of port_type PORT_DIGITAL
  Output    \* those of io PORT_OUTPUT

ASSUME PortAssumption ==
  /\ Low \subseteq PortIds
  /\ Digital \subseteq PortIds
  /\ Output \subseteq PortIds

VARIABLES
  value,  \* Port::value
  level   \* the pin: TRUE for HIGH

board == <<value, level>>

PortsOK ==
  /\ value \in [PortIds -> Int]
  /\ level \in [PortIds -> BOOLEAN]

Stored_Bug(p, v) == v

(* An active-low port holds the inverse of what it was set to.             *)
Stored(p, v) == IF p \in Low THEN (IF v = 0 THEN 1 ELSE 0) ELSE v

(* Port::set_value() on a board [value, level]; an analogic port writes no *)
(* pin.                                                                    *)
WithValue(b, p, v) ==
  [value |-> [b.value EXCEPT ![p] = Stored(p, v)],
   level |-> IF p \in Digital THEN [b.level EXCEPT ![p] = Stored(p, v) # 0] ELSE b.level]

(* set_port(): get_port() finds no port of an unknown id.                  *)
WithPort(b, p, v) == IF p \in PortIds THEN WithValue(b, p, v) ELSE b

Board == [value |-> value, level |-> level]

Becomes(b) == value' = b.value /\ level' = b.level

(* init_ports(): the outputs are switched off before they are driven.      *)
OffBoard ==
  [value |-> [p \in PortIds |-> IF p \in Output THEN Stored(p, 0) ELSE 0],
   level |-> [p \in PortIds |-> p \in Output \cap Digital /\ Stored(p, 0) # 0]]

-----------------------------------------------------------------------------
(* The pin of an active-high port is HIGH when it is on, of another LOW.   *)
On(p) == level[p] = (p \notin Low)

=============================================================================

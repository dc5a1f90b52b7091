------------------------------ MODULE MCTimers ------------------------------
(***************************************************************************)
(* Timers for TLC: a clock of 48 values, and waits whose lengths keep the  *)
(* order of 15000, 5000, 10000, 5000 and a watcher's.                      *)
(***************************************************************************)
EXTENDS Timers

SomeLimits == [ping |-> 6, frame |-> 2, wifi |-> 4, button |-> 2, watcher |-> 3]

=============================================================================

------------------------------- MODULE Timers -------------------------------
(***************************************************************************)
(* The waits of the firmware against millis(), a clock that starts over    *)
(* after Wrap milliseconds: the time-out of ping() and the wait of         *)
(* block_until_receive() (domoio.cpp), wait_for_wifi() (wificonf.cpp), the *)
(* reset button (led.cpp) and Watcher::should_run() (domoio.h).            *)
(*                                                                         *)
(* The waits do not depend on each other: a behaviour is about one of      *)
(* them, `kind`.  Each notes millis() when it starts, and polls: it goes   *)
(* on until the first poll that finds it over.                             *)
(***************************************************************************)
EXTENDS Integers

CONSTANTS
  Wrap,    \* milliseconds after which millis() starts over, 2^32
  Limit,   \* of each kind of wait, in milliseconds
  Gap,     \* milliseconds between two polls, at most
  Horizon  \* bound: milliseconds a wait is looked at

Kinds == {"ping", "frame", "wifi", "button", "watcher"}

ASSUME ClockAssumption ==
  /\ Wrap \in Nat /\ Horizon \in Nat
  /\ 2 * Horizon < Wrap
  /\ Gap \in 1 .. Horizon
  /\ Limit \in [Kinds -> 1 .. Horizon]

VARIABLES
  kind,     \* the wait this is about
  running,  \* it has started, and no poll found it over yet
  millis,   \* the clock
  start,    \* what the wait remembers of the clock
  elapsed   \* milliseconds since it started

vars == <<kind, running, millis, start, elapsed>>

TypeOK ==
  /\ kind \in Kinds
  /\ running \in BOOLEAN
  /\ millis \in 0 .. Wrap - 1
  /\ start \in 0 .. Wrap - 1
  /\ elapsed \in 0 .. Horizon

(* The clock may be anywhere: the device has been up for a while.          *)
Init ==
  /\ kind \in Kinds
  /\ running = FALSE
  /\ millis \in 0 .. Wrap - 1
  /\ start = millis /\ elapsed = 0

-----------------------------------------------------------------------------
(* The tests.  Those of ping(), block_until_receive() and the button are   *)
(* on doubles, which do not wrap; millis() - 10000 of wait_for_wifi() is   *)
(* unsigned; a watcher's times are signed.                                 *)

Unsigned(n) == IF n < 0 THEN n + Wrap ELSE n

Signed(n) == IF 2 * n >= Wrap THEN n - Wrap ELSE n

PingOver == millis - start > Limit["ping"]

FrameOver_Bug ==
  (IF start + Limit["frame"] >= Wrap THEN start + Limit["frame"] - Wrap
                                     ELSE start + Limit["frame"]) <= millis

FrameOver == start + Limit["frame"] <= millis

WifiOver == start <= Unsigned(millis - Limit["wifi"])

ButtonOver == start + Limit["button"] < millis

WatcherOver_Bug == Signed(millis) - Signed(start) > Limit["watcher"]

(* should_run(): also when the time has gone backwards.                    *)
WatcherOver ==
  \/ Signed(millis) < Signed(start)
  \/ Signed(millis) - Signed(start) > Limit["watcher"]

Over ==
  \/ kind = "ping" /\ PingOver
  \/ kind = "frame" /\ FrameOver
  \/ kind = "wifi" /\ WifiOver
  \/ kind = "button" /\ ButtonOver
  \/ kind = "watcher" /\ WatcherOver

-----------------------------------------------------------------------------
(* The wait starts: a frame was read, the button pressed, the watcher run. *)
(* It may also start over before its time: what it waited for happened.    *)
Start ==
  /\ running' = TRUE
  /\ start' = millis /\ elapsed' = 0
  /\ UNCHANGED <<kind, millis>>

(* A poll finds the wait over.                                             *)
Expire ==
  /\ running /\ Over
  /\ running' = FALSE
  /\ UNCHANGED <<kind, millis, start, elapsed>>

(* A poll finds that it is not, and the next one comes d later.            *)
Pass(d) ==
  /\ running => ~Over /\ elapsed + d <= Horizon
  /\ millis' = IF millis + d >= Wrap THEN millis + d - Wrap ELSE millis + d
  /\ elapsed' = IF running THEN elapsed + d ELSE elapsed
  /\ UNCHANGED <<kind, running, start>>

Next == Start \/ Expire \/ \E d \in 1 .. Gap : Pass(d)

Spec == Init /\ [][Next]_vars

-----------------------------------------------------------------------------
(* Properties.                                                             *)

(* millis() started over since the wait did.                               *)
Wrapped == millis < start

(* What the wait remembers is from the other half of the signed clock.     *)
TurnedNegative == Signed(millis) < Signed(start)

(* No wait ends before its time, but for two: wait_for_wifi() does not     *)
(* wait in the first ten seconds of the clock, where millis() - 10000      *)
(* wraps, and a watcher runs once too early when the signed clock turns.   *)
NeverEarly ==
  running /\ Over =>
    \/ elapsed >= Limit[kind]
    \/ kind = "wifi" /\ start < Limit["wifi"]
    \/ kind = "watcher" /\ TurnedNegative

(* A wait ends at the first poll after its time, unless the clock started  *)
(* over in between: then ping() sees no silence, block_until_receive()     *)
(* gives nobody up and the button never resets.  A watcher is never late,  *)
(* wait_for_wifi() only when it starts one poll before the end.            *)
NeverLate ==
  running /\ elapsed >= Limit[kind] + Gap + 1 =>
    /\ Wrapped
    /\ \/ kind \in {"ping", "frame", "button"}
       \/ kind = "wifi" /\ start + Gap > Wrap

-----------------------------------------------------------------------------
(* The inductive invariant behind them (TimersProofs): the clock, what the *)
(* wait remembers and the time that passed agree, and so far no poll has   *)
(* found the wait over.                                                    *)
ClockInv ==
  running => millis = start + elapsed \/ millis = start + elapsed - Wrap

(* wait_for_wifi() is late only when the poll that should have ended it    *)
(* came after the clock had passed its ten seconds.                        *)
WifiInv ==
  running /\ kind = "wifi" /\ elapsed >= Limit["wifi"] + Gap => start + Gap > Wrap

TInv == TypeOK /\ ClockInv /\ WifiInv /\ NeverLate

=============================================================================

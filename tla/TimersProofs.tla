---------------------------- MODULE TimersProofs ----------------------------
(***************************************************************************)
(* The waits of module Timers, for a clock of any width: they end neither  *)
(* early nor late, but for the exceptions NeverEarly and NeverLate name.   *)
(***************************************************************************)
EXTENDS Timers, TLAPS

USE ClockAssumption DEF ClockAssumption

(* What a poll that does not find a wait over says of the time it has      *)
(* taken: it is in time, or the clock has started over.                    *)
LEMMA NotOverInTime ==
  ASSUME TypeOK, ClockInv, running, ~Over, elapsed >= Limit[kind]
  PROVE  /\ elapsed > Limit[kind] => Wrapped /\ kind # "watcher"
         /\ kind = "wifi" => start + elapsed - Limit["wifi"] >= Wrap
<1>1. CASE kind = "ping"
  BY <1>1 DEF TypeOK, ClockInv, Over, PingOver, Wrapped
<1>2. CASE kind = "frame"
  BY <1>2 DEF TypeOK, ClockInv, Over, FrameOver, Wrapped, Kinds
<1>3. CASE kind = "wifi"
  BY <1>3 DEF TypeOK, ClockInv, Over, WifiOver, Unsigned, Wrapped, Kinds
<1>4. CASE kind = "button"
  BY <1>4 DEF TypeOK, ClockInv, Over, ButtonOver, Wrapped
<1>5. CASE kind = "watcher"
  BY <1>5 DEF TypeOK, ClockInv, Over, WatcherOver, Signed, Kinds
<1> QED  BY <1>1, <1>2, <1>3, <1>4, <1>5 DEF TypeOK, Kinds

-----------------------------------------------------------------------------
(* The invariant.                                                          *)

LEMMA InitTInv == Init => TInv
<1> SUFFICES ASSUME Init PROVE TInv
  OBVIOUS
<1>1. TypeOK
  <2>1. elapsed \in 0 .. Horizon /\ start \in 0 .. Wrap - 1
    BY DEF Init
  <2> QED  BY <2>1, Zenon DEF Init, TypeOK
<1>2. ~running
  BY DEF Init
<1> QED  BY <1>1, <1>2 DEF TInv, ClockInv, WifiInv, NeverLate

LEMMA NextTInv == TInv /\ [Next]_vars => TInv'
<1> SUFFICES ASSUME TInv, [Next]_vars PROVE TInv'
  OBVIOUS
<1> USE DEF TInv
<1>1. CASE Start
  BY <1>1 DEF Start, TypeOK, ClockInv, WifiInv, NeverLate, Kinds
<1>2. CASE Expire
  BY <1>2 DEF Expire, TypeOK, ClockInv, WifiInv, NeverLate
<1>3. ASSUME NEW d \in 1 .. Gap, Pass(d) PROVE TInv'
  <2>1. TypeOK'
    <3>1. millis' \in 0 .. Wrap - 1
      BY <1>3 DEF Pass, TypeOK
    <3>2. elapsed' \in 0 .. Horizon
      BY <1>3 DEF Pass, TypeOK
    <3> QED  BY <1>3, <3>1, <3>2 DEF Pass, TypeOK
  <2>2. ClockInv'
    BY <1>3 DEF Pass, TypeOK, ClockInv
  <2>3. ASSUME running, elapsed' >= Limit[kind] + Gap
        PROVE  ~Over /\ elapsed' = elapsed + d /\ elapsed >= Limit[kind]
    BY <1>3, <2>3 DEF Pass, TypeOK
  <2>4. WifiInv'
    <3> SUFFICES ASSUME running, kind = "wifi", elapsed' >= Limit["wifi"] + Gap
                 PROVE  start + Gap > Wrap
      BY <1>3 DEF Pass, WifiInv
    <3>1. start + elapsed - Limit["wifi"] >= Wrap
      BY <2>3, NotOverInTime
    <3> QED  BY <3>1 DEF WifiInv, TypeOK, Kinds
  <2>5. NeverLate'
    <3> SUFFICES ASSUME running, elapsed' >= Limit[kind] + Gap + 1
                 PROVE  /\ Wrapped'
                        /\ kind # "watcher"
                        /\ kind = "wifi" => start + Gap > Wrap
      BY <1>3 DEF Pass, NeverLate, TypeOK, Kinds
    <3>1. ~Over /\ elapsed >= Limit[kind] /\ elapsed > Limit[kind]
      BY <1>3, <2>3 DEF Pass, TypeOK
    <3>2. Wrapped /\ kind # "watcher"
      BY <3>1, NotOverInTime
    <3>3. Wrapped'
      BY <1>3, <3>2, <2>1, <2>2 DEF Pass, Wrapped, TypeOK, ClockInv
    <3> QED  BY <2>4, <3>2, <3>3, <1>3 DEF WifiInv, Pass, TypeOK, Kinds
  <2> QED  BY <2>1, <2>2, <2>4, <2>5
<1>4. CASE UNCHANGED vars
  BY <1>4 DEF vars, TypeOK, ClockInv, WifiInv, NeverLate, Wrapped
<1> QED  BY <1>1, <1>2, <1>3, <1>4 DEF Next

(* In every reachable state the clock, the wait's start and the time that  *)
(* passed agree.                                                           *)
THEOREM ClockAgrees == Spec => []TInv
BY InitTInv, NextTInv, PTL DEF Spec

(* No wait of the firmware outlasts its time, unless the clock starts over *)
(* while it runs; a watcher does not even then.                            *)
THEOREM Punctual == Spec => []NeverLate
<1>1. TInv => NeverLate
  BY DEF TInv
<1> QED  BY <1>1, ClockAgrees, PTL

(* No wait ends before its time, but for the two the property names.       *)
THEOREM NotPremature == Spec => []NeverEarly
<1>1. TInv => NeverEarly
  <2> SUFFICES ASSUME TInv, running, Over
               PROVE  \/ elapsed >= Limit[kind]
                      \/ kind = "wifi" /\ start < Limit["wifi"]
                      \/ kind = "watcher" /\ TurnedNegative
    BY DEF NeverEarly
  <2> USE DEF TInv, TypeOK, ClockInv, Over
  <2>1. CASE kind = "ping"
    BY <2>1 DEF PingOver
  <2>2. CASE kind = "frame"
    BY <2>2 DEF FrameOver
  <2>3. CASE kind = "wifi"
    BY <2>3 DEF WifiOver, Unsigned, Kinds
  <2>4. CASE kind = "button"
    BY <2>4 DEF ButtonOver
  <2>5. CASE kind = "watcher"
    BY <2>5 DEF WatcherOver, Signed, TurnedNegative
  <2> QED  BY <2>1, <2>2, <2>3, <2>4, <2>5 DEF Kinds
<1> QED  BY <1>1, ClockAgrees, PTL

=============================================================================

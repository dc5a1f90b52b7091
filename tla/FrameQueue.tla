----------------------------- MODULE FrameQueue -----------------------------
(***************************************************************************)
(* What receive() promises of a connection: frames are taken whole and in  *)
(* the order they were sent, up to the first one that was read before it   *)
(* had arrived, or is too long.  From then on anything may be taken, until *)
(* the connection is replaced.                                             *)
(***************************************************************************)
EXTENDS Integers, Sequences

CONSTANTS Frames, Limit  \* what may be sent, and the longest that is taken

VARIABLES
  queue,    \* the frames sent and not yet taken
  whole,    \* how many of them have arrived
  taken,    \* what the last step took, or NoFrame
  inStep

vars == <<queue, whole, taken, inStep>>

NoFrame == [size |-> -1]

FrameOf(f) == [size |-> Len(f), data |-> f]

Init == queue = <<>> /\ whole = 0 /\ taken = NoFrame /\ inStep = TRUE

Put ==
  /\ inStep
  /\ \E f \in Frames : queue' = Append(queue, f)
  /\ taken' = NoFrame /\ UNCHANGED <<whole, inStep>>

Arrive ==
  /\ inStep
  /\ whole' \in whole .. Len(queue)
  /\ taken' = NoFrame /\ UNCHANGED <<queue, inStep>>

Take ==
  /\ inStep /\ whole > 0 /\ Len(Head(queue)) <= Limit
  /\ taken' = FrameOf(Head(queue))
  /\ queue' = Tail(queue) /\ whole' = whole - 1
  /\ UNCHANGED inStep

Break ==
  /\ inStep /\ queue # <<>>
  /\ whole = 0 \/ Len(Head(queue)) > Limit
  /\ queue' = <<>> /\ whole' = 0 /\ inStep' = FALSE

Garble == ~inStep /\ UNCHANGED <<queue, whole, inStep>>

Reconnect == queue' = <<>> /\ whole' = 0 /\ taken' = NoFrame /\ inStep' = TRUE

Next == Put \/ Arrive \/ Take \/ Break \/ Garble \/ Reconnect

Spec == Init /\ [][Next]_vars

=============================================================================

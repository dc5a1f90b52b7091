------------------------------ MODULE Framing ------------------------------
(***************************************************************************)
(* Frames on the stream of a connection: two bytes of length and the data, *)
(* as send() and the server write them, and receive() of domoio.cpp, which *)
(* does not look how much has arrived: read() returns -1 for a byte that   *)
(* has not.  TCP keeps the bytes in order and delivers them in pieces.     *)
(*                                                                         *)
(* A byte is a digit to the base Base, where the code has 256; Session and *)
(* Messages take frames as wholes, which is what FrameQueue promises.      *)
(***************************************************************************)
EXTENDS Integers, SequencesExt

CONSTANTS
  Base,       \* of the two digits of a length
  Limit,      \* BUFFER_SIZE
  MaxSize,    \* bound: of the frames of the server, in bytes
  MaxBytes    \* bound: on the way and unread

ASSUME FramingAssumption ==
  /\ {Base, Limit, MaxSize, MaxBytes} \subseteq Nat \ {0}
  /\ MaxSize < Base * Base

VARIABLES
  wire,    \* bytes on their way to the device
  inbox,   \* bytes that have arrived, and were not read
  taken,   \* what the last step made of them: a frame, or NoFrame
  queue,   \* what the server means by them: its frames not yet received
  inStep   \* no frame was read in part so far

vars == <<wire, inbox, taken, queue, inStep>>

Byte == 0 .. Base - 1

Frames == BoundedSeq(Byte, MaxSize)

(* (byte) -1                                                               *)
Missing == 255

NoFrame == [size |-> -1]

Init ==
  /\ wire = <<>> /\ inbox = <<>> /\ taken = NoFrame
  /\ queue = <<>> /\ inStep = TRUE

(* What send() and the server write for some data.                         *)
Packet(data) == <<Len(data) \div Base, Len(data) % Base>> \o data

(* The server does not know when the device is out of step.                *)
ServerSends ==
  /\ \E f \in Frames :
       /\ Len(wire) + Len(inbox) + Len(Packet(f)) <= MaxBytes
       /\ wire' = wire \o Packet(f)
       /\ queue' = IF inStep THEN Append(queue, f) ELSE queue
  /\ taken' = NoFrame /\ UNCHANGED <<inbox, inStep>>

(* Bytes arrive, in pieces of any size.                                    *)
Arrive ==
  /\ \E n \in 1 .. Len(wire) :
       /\ inbox' = inbox \o SubSeq(wire, 1, n)
       /\ wire' = SubSeq(wire, n + 1, Len(wire))
  /\ taken' = NoFrame /\ UNCHANGED <<queue, inStep>>

Size_Bug == IF Len(inbox) = 1 THEN -1 ELSE inbox[1] + Base * inbox[2]

(* -1 | x is -1: of a lone byte nothing is left.                           *)
Size == IF Len(inbox) = 1 THEN -1 ELSE inbox[2] + Base * inbox[1]

Overflows_Bug == Size >= Limit

Overflows == Size > Limit

Read(n) == inbox' = SubSeq(inbox, n + 1, Len(inbox))

(* receive() while client->available().                                    *)
receive ==
  /\ inbox # <<>>
  /\ IF Size = -1 \/ Overflows
     THEN taken' = NoFrame /\ Read(2)
     ELSE /\ taken' = [size |-> Size,
                       data |-> [i \in 1 .. Size |->
                                   IF 2 + i <= Len(inbox) THEN inbox[2 + i] ELSE Missing]]
          /\ Read(2 + Size)
  /\ LET whole == queue # <<>> /\ Len(inbox) >= Len(Packet(Head(queue)))
     IN IF inStep /\ whole /\ Len(Head(queue)) <= Limit
        THEN queue' = Tail(queue) /\ UNCHANGED inStep
        ELSE queue' = <<>> /\ inStep' = FALSE
  /\ UNCHANGED wire

(* disconnect(), or a connection that drops, and connect().                *)
Reconnect ==
  /\ wire' = <<>> /\ inbox' = <<>> /\ taken' = NoFrame
  /\ queue' = <<>> /\ inStep' = TRUE

Next == ServerSends \/ Arrive \/ receive \/ Reconnect

Spec == Init /\ [][Next]_vars

-----------------------------------------------------------------------------

(* What the server writes for a sequence of frames.                        *)
Bytes(frames) == FlattenSeq([i \in DOMAIN frames |-> Packet(frames[i])])

(* As long as no frame was read in part, the bytes that were not read are  *)
(* the packets of the frames that were not received: receive() never gets  *)
(* out of step by itself (domoio.cpp:59-70).                               *)
InStep ==
  /\ inbox \in Seq(Byte) /\ wire \in Seq(Byte) /\ queue \in Seq(Frames)
  /\ inStep \in BOOLEAN
  /\ IF inStep THEN inbox \o wire = Bytes(queue) ELSE queue = <<>>

(* The numbers of frames that have arrived to the last byte.               *)
Arrived == {k \in 0 .. Len(queue) : Len(Bytes(SubSeq(queue, 1, k))) <= Len(inbox)}

Whole == Max(Arrived)

Promise == INSTANCE FrameQueue WITH whole <- Whole

(* A frame that has arrived and is not too long is received as it was      *)
(* sent, in its order, and a new connection starts in step, whatever was   *)
(* left of the old one (domoio.cpp:52-73, 129-140).                        *)
KeepsPromise == Promise!Spec

=============================================================================

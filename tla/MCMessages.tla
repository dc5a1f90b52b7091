----------------------------- MODULE MCMessages -----------------------------
(***************************************************************************)
(* Messages for TLC: digital outputs, one of them active-low, and an       *)
(* analogic one; blobs that do and do not fill their last chunk.           *)
(***************************************************************************)
EXTENDS Messages

MCLength == <<3, 4>>

To(p, b) == [port |-> p, type |-> 0, bytes |-> b]

Zero  == <<0, 0, 0, 0>>
One   == <<0, 0, 0, 1>>
Word  == <<0, 0, 1, 0>>    \* 256
Lossy == <<0, 1, 0, 1>>    \* 65537

AFloat == [port |-> 1, type |-> 1, bytes |-> One]

MCPortLists ==
  {<<To(1, One)>>,
   <<AFloat, To(3, Zero)>>,
   <<To(1, Zero), To(2, One), To(2, Zero)>>,
   <<To(2, Lossy), AFloat, To(9, One), To(3, Word)>>}

AnInt(v) == [port |-> 258, type |-> 0, value |-> v]

Float(neg, exp, mant) ==
  [port |-> 3, type |-> 1, value |-> [neg |-> neg, exp |-> exp, mant |-> mant]]

MCValues ==
  {AnInt(0), AnInt(-1), AnInt(2^30 + 12345678),
   Float(FALSE, 0, 0), Float(TRUE, 5, 2^23 + 2^22 + 77),
   Float(TRUE, 128, 2^24 - 1),   \* the least float
   Float(FALSE, -125, 2^23)}     \* the least normal float above 0

MCTexts == {<<104, 105>>}

=============================================================================

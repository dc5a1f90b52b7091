-------------------------- MODULE SimpleListProofs --------------------------
(***************************************************************************)
(* SimpleList accesses its array within bounds, holds no more memory than  *)
(* it has to, and implements ItemList.                                     *)
(***************************************************************************)
EXTENDS SimpleList, SequenceTheorems, TLAPS

USE ListAssumption DEF ListAssumption

(* A new array is a sequence of that many cells, and holds the items that  *)
(* were copied: all of them, behind a free block, or all but the first.    *)
LEMMA NewArrayIs ==
  ASSUME NEW n \in Nat, NEW count \in Nat, NEW to \in Nat, NEW from \in Nat,
         array \in Seq(Cells), count + from <= Len(array)
  PROVE  /\ NewArray(n, count, to, from) \in [1 .. n -> Cells]
         /\ NewArray(n, count, to, from) \in Seq(Cells)
         /\ Len(NewArray(n, count, to, from)) = n
<1>1. ASSUME NEW k \in 1 .. n, k - to \in 1 .. count PROVE array[k - to + from] \in Cells
  BY <1>1
<1>2. NewArray(n, count, to, from) \in [1 .. n -> Cells]
  BY <1>1 DEF NewArray, Cells
<1>3. NewArray(n, count, to, from) \in Seq(Cells)
  BY <1>2
<1> QED  BY <1>2, <1>3

LEMMA CopiedIs ==
  ASSUME NEW n \in Nat, NEW count \in Nat, array \in Seq(Cells),
         count <= n, count <= Len(array)
  PROVE  /\ NewArray(n, count, 0, 0) \in Seq(Cells)
         /\ Len(NewArray(n, count, 0, 0)) = n
         /\ \A i \in 1 .. count : NewArray(n, count, 0, 0)[i] = array[i]
<1>1. 0 \in Nat /\ count + 0 <= Len(array)
  OBVIOUS
<1>2. NewArray(n, count, 0, 0) \in Seq(Cells) /\ Len(NewArray(n, count, 0, 0)) = n
  BY <1>1, NewArrayIs, Zenon
<1>3. \A i \in 1 .. count : NewArray(n, count, 0, 0)[i] = array[i]
  BY DEF NewArray
<1> QED  BY <1>2, <1>3

LEMMA CopiedBehindIs ==
  ASSUME NEW n \in Nat, NEW count \in Nat, array \in Seq(Cells),
         count < n, count <= Len(array)
  PROVE  /\ NewArray(n, count, 1, 0) \in Seq(Cells)
         /\ Len(NewArray(n, count, 1, 0)) = n
         /\ \A i \in 2 .. count + 1 : NewArray(n, count, 1, 0)[i] = array[i - 1]
<1>1. 0 \in Nat /\ 1 \in Nat /\ count + 0 <= Len(array)
  OBVIOUS
<1>2. NewArray(n, count, 1, 0) \in Seq(Cells) /\ Len(NewArray(n, count, 1, 0)) = n
  BY <1>1, NewArrayIs, Zenon
<1>3. \A i \in 2 .. count + 1 : NewArray(n, count, 1, 0)[i] = array[i - 1]
  BY DEF NewArray
<1> QED  BY <1>2, <1>3

LEMMA CopiedButFirstIs ==
  ASSUME NEW n \in Nat, NEW count \in Nat, array \in Seq(Cells),
         count <= n, count < Len(array)
  PROVE  /\ NewArray(n, count, 0, 1) \in Seq(Cells)
         /\ Len(NewArray(n, count, 0, 1)) = n
         /\ \A i \in 1 .. count : NewArray(n, count, 0, 1)[i] = array[i + 1]
<1>1. 0 \in Nat /\ 1 \in Nat /\ count + 1 <= Len(array)
  OBVIOUS
<1>2. NewArray(n, count, 0, 1) \in Seq(Cells) /\ Len(NewArray(n, count, 0, 1)) = n
  BY <1>1, NewArrayIs, Zenon
<1>3. \A i \in 1 .. count : NewArray(n, count, 0, 1)[i] = array[i + 1]
  BY DEF NewArray
<1> QED  BY <1>2, <1>3

(* Moving items in place keeps the array's length and its other cells.     *)
LEMMA MovedIs ==
  ASSUME array \in Seq(Cells), endPosition \in Nat, endPosition <= Len(array),
         NEW p \in 1 .. Len(array)
  PROVE  /\ endPosition < Len(array) => MovedUp(p) \in Seq(Cells)
         /\ MovedDown(p) \in Seq(Cells)
         /\ Len(MovedUp(p)) = Len(array) /\ Len(MovedDown(p)) = Len(array)
<1>1. MovedDown(p) \in [1 .. Len(array) -> Cells]
  BY DEF MovedDown
<1>2. ASSUME endPosition < Len(array) PROVE MovedUp(p) \in [1 .. Len(array) -> Cells]
  BY <1>2 DEF MovedUp
<1>3. DOMAIN MovedUp(p) = 1 .. Len(array)
  BY DEF MovedUp
<1> QED  BY <1>1, <1>2, <1>3

-----------------------------------------------------------------------------
(* What each operation does to the items, and that it keeps the invariant. *)

(* The invariant holds as soon as the new array is one of as many cells,   *)
(* whose items were items before or are new.                               *)
LEMMA KeepsInv ==
  ASSUME array' \in Seq(Cells), Len(array') = allocBlocks',
         endPosition' \in 0 .. MaxLength, endPosition' <= allocBlocks',
         allocBlocks' \in Nat, preAllocBlocks' \in Nat, NoSlack',
         \A i \in 1 .. endPosition' : array'[i] \in Items
  PROVE  ListInv'
BY DEF ListInv, TypeOK, InBounds

LEMMA PushBackIs ==
  ASSUME ListInv, NEW x \in Items, push_back(x)
  PROVE  /\ ListInv'
         /\ endPosition' = endPosition + 1
         /\ \A i \in 1 .. endPosition' :
              array'[i] = IF i <= endPosition THEN array[i] ELSE x
<1> DEFINE room == IF Full THEN NewArray(allocBlocks + 1, endPosition, 0, 0) ELSE array
<1> USE DEF ListInv, TypeOK, InBounds, NoSlack
<1>1. /\ room \in Seq(Cells) /\ Len(room) = allocBlocks' /\ endPosition + 1 <= allocBlocks'
      /\ \A i \in 1 .. endPosition : room[i] = array[i]
  <2>1. CASE Full
    <3>1. room = NewArray(allocBlocks + 1, endPosition, 0, 0)
      BY <2>1
    <3>2. /\ array \in Seq(Cells) /\ allocBlocks + 1 \in Nat /\ endPosition \in Nat
          /\ endPosition <= allocBlocks + 1 /\ endPosition <= Len(array)
      OBVIOUS
    <3> HIDE DEF room
    <3>3. /\ room \in Seq(Cells) /\ Len(room) = allocBlocks + 1
          /\ \A i \in 1 .. endPosition : room[i] = array[i]
      BY <3>1, <3>2, CopiedIs, Zenon
    <3> QED  BY <2>1, <3>3 DEF push_back, Full
  <2>2. CASE ~Full
    BY <2>2 DEF push_back, Full
  <2> QED  BY <2>1, <2>2
<1>2. array' = [room EXCEPT ![endPosition + 1] = x]
  BY DEF push_back
<1> HIDE DEF room
<1>3. /\ array' \in Seq(Cells) /\ Len(array') = allocBlocks'
      /\ \A i \in 1 .. endPosition + 1 : array'[i] = IF i <= endPosition THEN array[i] ELSE x
  BY <1>1, <1>2, ExceptSeq DEF Cells
<1>4. NoSlack'
  BY DEF push_back, Growing, Full
<1> QED  BY <1>1, <1>3, <1>4, KeepsInv DEF push_back, Growing, Full

LEMMA PushFrontIs ==
  ASSUME ListInv, NEW x \in Items, push_front(x)
  PROVE  /\ ListInv'
         /\ endPosition' = endPosition + 1
         /\ \A i \in 1 .. endPosition' : array'[i] = IF i = 1 THEN x ELSE array[i - 1]
<1> DEFINE room == IF Full THEN NewArray(allocBlocks + 1, endPosition, 1, 0) ELSE MovedUp(1)
<1> USE DEF ListInv, TypeOK, InBounds, NoSlack
<1>1. /\ room \in Seq(Cells) /\ Len(room) = allocBlocks' /\ endPosition + 1 <= allocBlocks'
      /\ \A i \in 2 .. endPosition + 1 : room[i] = array[i - 1]
  <2>1. CASE Full
    <3>1. room = NewArray(allocBlocks + 1, endPosition, 1, 0)
      BY <2>1
    <3>2. /\ array \in Seq(Cells) /\ allocBlocks + 1 \in Nat /\ endPosition \in Nat
          /\ endPosition < allocBlocks + 1 /\ endPosition <= Len(array)
      OBVIOUS
    <3> HIDE DEF room
    <3>3. /\ room \in Seq(Cells) /\ Len(room) = allocBlocks + 1
          /\ \A i \in 2 .. endPosition + 1 : room[i] = array[i - 1]
      BY <3>1, <3>2, CopiedBehindIs, Zenon
    <3> QED  BY <2>1, <3>3 DEF push_front, Full
  <2>2. CASE ~Full
    <3>1. room = MovedUp(1)
      BY <2>2
    <3>2. endPosition \in Nat /\ endPosition < Len(array) /\ 1 \in 1 .. Len(array)
      BY <2>2 DEF Full
    <3>3. MovedUp(1) \in Seq(Cells) /\ Len(MovedUp(1)) = Len(array)
      BY <3>2, MovedIs
    <3>4. \A i \in 2 .. endPosition + 1 : MovedUp(1)[i] = array[i - 1]
      BY <3>2 DEF MovedUp
    <3> QED  BY <2>2, <3>1, <3>2, <3>3, <3>4 DEF push_front
  <2> QED  BY <2>1, <2>2
<1>2. array' = [room EXCEPT ![1] = x]
  BY DEF push_front
<1> HIDE DEF room
<1>3. /\ array' \in Seq(Cells) /\ Len(array') = allocBlocks'
      /\ \A i \in 1 .. endPosition + 1 : array'[i] = IF i = 1 THEN x ELSE array[i - 1]
  BY <1>1, <1>2, ExceptSeq DEF Cells
<1>4. NoSlack'
  BY DEF push_front, Growing, Full
<1> QED  BY <1>1, <1>3, <1>4, KeepsInv DEF push_front, Growing, Full

(* What pop_back(), pop_front() and erase() have in common.                *)
LEMMA ShrinkingIs ==
  ASSUME ListInv, Shrinking
  PROVE  /\ endPosition' = endPosition - 1 /\ endPosition' \in 0 .. MaxLength
         /\ endPosition \in 1 .. Len(array) /\ endPosition' <= allocBlocks'
         /\ allocBlocks' \in Nat /\ preAllocBlocks' \in Nat
         /\ allocBlocks' = IF Spare THEN allocBlocks - 1 ELSE allocBlocks
         /\ NoSlack'
BY DEF ListInv, TypeOK, InBounds, NoSlack, Shrinking, Spare

LEMMA PopBackIs ==
  ASSUME ListInv, pop_back
  PROVE  /\ ListInv' /\ endPosition > 0 /\ endPosition' = endPosition - 1
         /\ \A i \in 1 .. endPosition' : array'[i] = array[i]
<1>1. Shrinking
  BY DEF pop_back
<1>2. /\ array' \in Seq(Cells) /\ Len(array') = allocBlocks'
      /\ \A i \in 1 .. endPosition - 1 : array'[i] = array[i]
  <2>1. CASE Spare
    <3>1. array' = NewArray(allocBlocks - 1, endPosition - 1, 0, 0)
      BY <2>1 DEF pop_back
    <3>2. /\ allocBlocks - 1 \in Nat /\ endPosition - 1 \in Nat /\ array \in Seq(Cells)
          /\ endPosition - 1 <= allocBlocks - 1 /\ endPosition - 1 <= Len(array)
      BY <1>1, <2>1, ShrinkingIs DEF ListInv, TypeOK, InBounds
    <3>3. /\ array' \in Seq(Cells) /\ Len(array') = allocBlocks - 1
          /\ \A i \in 1 .. endPosition - 1 : array'[i] = array[i]
      BY <3>1, <3>2, CopiedIs, Zenon
    <3> QED  BY <1>1, <2>1, <3>3, ShrinkingIs
  <2>2. CASE ~Spare
    BY <1>1, <2>2, ShrinkingIs DEF pop_back, ListInv, TypeOK, InBounds
  <2> QED  BY <2>1, <2>2
<1> QED  BY <1>1, <1>2, ShrinkingIs, KeepsInv DEF ListInv, InBounds, TypeOK

LEMMA PopFrontIs ==
  ASSUME ListInv, pop_front
  PROVE  /\ ListInv' /\ endPosition > 0 /\ endPosition' = endPosition - 1
         /\ \A i \in 1 .. endPosition' : array'[i] = array[i + 1]
<1>1. Shrinking
  BY DEF pop_front
<1>2. /\ array' \in Seq(Cells) /\ Len(array') = allocBlocks'
      /\ \A i \in 1 .. endPosition - 1 : array'[i] = array[i + 1]
  <2>1. CASE Spare
    <3>1. array' = NewArray(allocBlocks - 1, endPosition - 1, 0, 1)
      BY <2>1 DEF pop_front
    <3>2. /\ allocBlocks - 1 \in Nat /\ endPosition - 1 \in Nat /\ array \in Seq(Cells)
          /\ endPosition - 1 <= allocBlocks - 1 /\ endPosition - 1 < Len(array)
      BY <1>1, <2>1, ShrinkingIs DEF ListInv, TypeOK, InBounds
    <3>3. /\ array' \in Seq(Cells) /\ Len(array') = allocBlocks - 1
          /\ \A i \in 1 .. endPosition - 1 : array'[i] = array[i + 1]
      BY <3>1, <3>2, CopiedButFirstIs, Zenon
    <3> QED  BY <1>1, <2>1, <3>3, ShrinkingIs
  <2>2. CASE ~Spare
    <3>1. array' = MovedDown(1) /\ allocBlocks' = Len(array)
      BY <1>1, <2>2, ShrinkingIs DEF pop_front, ListInv, InBounds
    <3>2. endPosition \in Nat /\ endPosition <= Len(array) /\ 1 \in 1 .. Len(array)
      BY <1>1, ShrinkingIs DEF ListInv, TypeOK
    <3>3. MovedDown(1) \in Seq(Cells) /\ Len(MovedDown(1)) = Len(array)
      BY <3>2, MovedIs DEF ListInv, TypeOK
    <3>4. \A i \in 1 .. endPosition - 1 : MovedDown(1)[i] = array[i + 1]
      BY <3>2 DEF MovedDown, ListInv, TypeOK
    <3> QED  BY <3>1, <3>3, <3>4
  <2> QED  BY <2>1, <2>2
<1> QED  BY <1>1, <1>2, ShrinkingIs, KeepsInv DEF ListInv, InBounds, TypeOK

LEMMA EraseIs ==
  ASSUME ListInv, NEW p \in 1 .. endPosition, erase(p)
  PROVE  /\ ListInv' /\ endPosition' = endPosition - 1
         /\ \A i \in 1 .. endPosition' : array'[i] = IF i < p THEN array[i] ELSE array[i + 1]
<1>1. CASE p = endPosition /\ pop_back
  BY <1>1, PopBackIs DEF ListInv, TypeOK
<1>2. CASE p < endPosition /\ ~(p = endPosition /\ pop_back)
  <2>1. Shrinking
    BY <1>2 DEF erase
  <2> DEFINE moved == MovedDown(p)
  <2>2. /\ moved \in Seq(Cells) /\ Len(moved) = Len(array) /\ DOMAIN moved = 1 .. Len(array)
        /\ \A i \in 1 .. endPosition - 1 : moved[i] = IF i < p THEN array[i] ELSE array[i + 1]
    <3>1. endPosition \in Nat /\ endPosition <= Len(array) /\ p \in 1 .. Len(array)
      BY <2>1, ShrinkingIs DEF ListInv, TypeOK
    <3>2. moved \in Seq(Cells) /\ Len(moved) = Len(array)
      BY <3>1, MovedIs DEF ListInv, TypeOK
    <3> QED  BY <3>1, <3>2 DEF MovedDown, ListInv, TypeOK
  <2> HIDE DEF moved
  <2>3. /\ array' \in Seq(Cells) /\ Len(array') = allocBlocks'
        /\ \A i \in 1 .. endPosition - 1 : array'[i] = IF i < p THEN array[i] ELSE array[i + 1]
    <3>1. CASE Spare
      <4>1. array' = [k \in 1 .. allocBlocks - 1 |-> IF k < endPosition THEN moved[k] ELSE Junk]
        BY <1>2, <3>1 DEF erase, moved
      <4>2. allocBlocks - 1 \in Nat /\ allocBlocks' = allocBlocks - 1 /\ allocBlocks = Len(array)
            /\ endPosition \in 1 .. Len(array)
        BY <2>1, <3>1, ShrinkingIs DEF ListInv, InBounds
      <4>3. array' \in [1 .. allocBlocks - 1 -> Cells]
        BY <2>2, <4>1, <4>2 DEF Cells
      <4> QED  BY <2>2, <4>1, <4>2, <4>3
    <3>2. CASE ~Spare
      BY <1>2, <2>1, <2>2, <3>2, ShrinkingIs DEF erase, ListInv, InBounds, moved
    <3> QED  BY <3>1, <3>2
  <2> QED  BY <2>1, <2>3, ShrinkingIs, KeepsInv DEF ListInv, InBounds, TypeOK
<1> QED  BY <1>1, <1>2 DEF erase, ListInv, TypeOK

(* reserve(), shrink_to_fit() and copying leave the items as they are.     *)
LEMMA ReallocatedIs ==
  ASSUME ListInv, \/ \E size \in Sizes : reserve(size)
                  \/ shrink_to_fit
                  \/ copy
  PROVE  /\ ListInv' /\ endPosition' = endPosition
         /\ \A i \in 1 .. endPosition : array'[i] = array[i]
<1>1. PICK n \in Nat : /\ array' = NewArray(n, endPosition, 0, 0) /\ allocBlocks' = n
                       /\ endPosition <= n
                       /\ preAllocBlocks' \in Nat /\ NoSlack' /\ endPosition' = endPosition
  <2>1. ASSUME NEW size \in Sizes, reserve(size)
        PROVE  /\ array' = NewArray(size, endPosition, 0, 0) /\ allocBlocks' = size
               /\ endPosition <= size /\ size \in Nat
               /\ preAllocBlocks' \in Nat /\ NoSlack' /\ endPosition' = endPosition
    BY <2>1 DEF reserve, ListInv, TypeOK, InBounds, NoSlack
  <2>2. CASE shrink_to_fit
    BY <2>2 DEF shrink_to_fit, ListInv, TypeOK, InBounds, NoSlack
  <2>3. CASE copy
    BY <2>3 DEF copy, ListInv, TypeOK, InBounds, NoSlack
  <2> QED  BY <2>1, <2>2, <2>3
<1>2. endPosition \in Nat /\ endPosition <= Len(array) /\ array \in Seq(Cells)
  BY DEF ListInv, TypeOK, InBounds
<1>3. /\ array' \in Seq(Cells) /\ Len(array') = n
      /\ \A i \in 1 .. endPosition : array'[i] = array[i]
  BY <1>1, <1>2, CopiedIs, Zenon
<1> QED  BY <1>1, <1>3, KeepsInv DEF ListInv, InBounds, TypeOK

LEMMA ClearIs ==
  ASSUME ListInv, clear
  PROVE  ListInv' /\ endPosition' = 0
<1>1. CASE Spare
  <2>1. /\ array' = NewArray(preAllocBlocks, 0, 0, 0) /\ allocBlocks' = preAllocBlocks
        /\ preAllocBlocks \in Nat /\ 0 \in Nat /\ 0 <= Len(array) /\ 0 <= preAllocBlocks
        /\ array \in Seq(Cells)
    BY <1>1 DEF clear, ListInv, TypeOK
  <2>2. array' \in Seq(Cells) /\ Len(array') = preAllocBlocks
    BY <2>1, CopiedIs, Zenon
  <2> QED  BY <2>1, <2>2, KeepsInv DEF clear, ListInv, TypeOK, NoSlack
<1>2. CASE ~Spare
  BY <1>2, KeepsInv DEF clear, Spare, ListInv, TypeOK, InBounds, NoSlack
<1> QED  BY <1>1, <1>2

-----------------------------------------------------------------------------
(* The invariant.                                                          *)

LEMMA InitListInv == Init => ListInv
<1> SUFFICES ASSUME Init PROVE ListInv
  OBVIOUS
<1>1. array \in Seq(Cells) /\ Len(array) = 0
  BY EmptySeq DEF Init
<1> QED  BY <1>1 DEF Init, ListInv, TypeOK, InBounds, NoSlack

LEMMA NextListInv == ListInv /\ [Next]_vars => ListInv'
<1> SUFFICES ASSUME ListInv, [Next]_vars PROVE ListInv'
  OBVIOUS
<1>1. ASSUME NEW x \in Items, push_back(x) PROVE ListInv'
  BY <1>1, PushBackIs
<1>2. ASSUME NEW x \in Items, push_front(x) PROVE ListInv'
  BY <1>2, PushFrontIs
<1>3. CASE pop_back
  BY <1>3, PopBackIs
<1>4. CASE pop_front
  BY <1>4, PopFrontIs
<1>5. ASSUME NEW p \in 1 .. endPosition, erase(p) PROVE ListInv'
  BY <1>5, EraseIs
<1>6. CASE (\E size \in Sizes : reserve(size)) \/ shrink_to_fit \/ copy
  BY <1>6, ReallocatedIs
<1>7. CASE clear
  BY <1>7, ClearIs
<1>8. CASE UNCHANGED vars
  BY <1>8 DEF vars, ListInv, TypeOK, InBounds, NoSlack
<1> QED  BY <1>1, <1>2, <1>3, <1>4, <1>5, <1>6, <1>7, <1>8 DEF Next

(* In every reachable state the array is what the three numbers say.       *)
THEOREM ArrayAgrees == Spec => []ListInv
BY InitListInv, NextListInv, PTL DEF Spec

(* No operation reads or writes outside the array, or returns an element   *)
(* that was never written.                                                 *)
THEOREM StaysInBounds == Spec => []InBounds
<1>1. ListInv => InBounds
  BY DEF ListInv
<1> QED  BY <1>1, ArrayAgrees, PTL

(* The list never holds more blocks than its items and reserve() need.     *)
THEOREM HoldsNoMore == Spec => []NoSlack
<1>1. ListInv => NoSlack
  BY DEF ListInv
<1> QED  BY <1>1, ArrayAgrees, PTL

-----------------------------------------------------------------------------
(* The refinement.                                                         *)

LEMMA PrefixIs ==
  ASSUME NEW a, NEW n \in Nat, \A i \in 1 .. n : a[i] \in Items
  PROVE  /\ SubSeq(a, 1, n) \in Seq(Items) /\ Len(SubSeq(a, 1, n)) = n
         /\ \A i \in 1 .. n : SubSeq(a, 1, n)[i] = a[i]
<1>1. /\ SubSeq(a, 1, n) \in Seq(Items)
      /\ Len(SubSeq(a, 1, n)) = IF 1 <= n THEN n - 1 + 1 ELSE 0
      /\ \A i \in 1 .. n - 1 + 1 : SubSeq(a, 1, n)[i] = a[1 + i - 1]
  BY SubSeqProperties
<1> QED  BY <1>1

LEMMA ContentsIs ==
  ASSUME ListInv
  PROVE  /\ contents \in Seq(Items) /\ Len(contents) = endPosition /\ endPosition \in Nat
         /\ \A i \in 1 .. endPosition : contents[i] = array[i]
BY PrefixIs DEF ListInv, TypeOK, InBounds, contents

(* The new contents, once they are known to be the items of a sequence.    *)
LEMMA ContentsAre ==
  ASSUME NEW s \in Seq(Items), endPosition' = Len(s),
         \A i \in 1 .. Len(s) : array'[i] = s[i]
  PROVE  contents' = s
<1>1. contents' = SubSeq(array', 1, Len(s))
  BY DEF contents
<1>2. Len(s) \in Nat /\ \A i \in 1 .. Len(s) : array'[i] \in Items
  BY ElementOfSeq
<1>3. /\ contents' \in Seq(Items) /\ Len(contents') = Len(s)
      /\ \A i \in 1 .. Len(s) : contents'[i] = s[i]
  BY <1>1, <1>2, PrefixIs
<1> QED  BY <1>3, SeqEqual

(* Each operation is the one of ItemList.                                  *)
LEMMA CallsAreKept == ListInv => CallsKept
<1> SUFFICES ASSUME ListInv PROVE CallsKept
  OBVIOUS
<1> USE ContentsIs
<1>1. ASSUME NEW x \in Items, push_back(x) PROVE List!push_back(x)
  <2>1. /\ Append(contents, x) \in Seq(Items) /\ Len(Append(contents, x)) = endPosition + 1
        /\ \A i \in 1 .. endPosition : Append(contents, x)[i] = array[i]
        /\ Append(contents, x)[endPosition + 1] = x
    BY AppendProperties
  <2>2. contents' = Append(contents, x)
    <3> DEFINE new == Append(contents, x)
    <3>1. /\ endPosition' = endPosition + 1
          /\ \A i \in 1 .. endPosition' :
               array'[i] = IF i <= endPosition THEN array[i] ELSE x
      BY <1>1, PushBackIs, Zenon
    <3>2. /\ new \in Seq(Items) /\ endPosition' = Len(new)
          /\ \A i \in 1 .. Len(new) : array'[i] = new[i]
      BY <2>1, <3>1
    <3> HIDE DEF new
    <3>3. contents' = new
      BY <3>2, ContentsAre, Zenon
    <3> QED  BY <3>3 DEF new
  <2> QED  BY <2>2 DEF List!push_back
<1>2. ASSUME NEW x \in Items, push_front(x) PROVE List!push_front(x)
  <2>1. <<x>> \in Seq(Items) /\ Len(<<x>>) = 1 /\ <<x>>[1] = x
    OBVIOUS
  <2>2. /\ <<x>> \o contents \in Seq(Items) /\ Len(<<x>> \o contents) = endPosition + 1
        /\ \A i \in 1 .. endPosition + 1 :
             (<<x>> \o contents)[i] = IF i = 1 THEN x ELSE array[i - 1]
    BY <2>1, ConcatProperties
  <2>3. contents' = <<x>> \o contents
    <3> DEFINE new == <<x>> \o contents
    <3>1. /\ endPosition' = endPosition + 1
          /\ \A i \in 1 .. endPosition' : array'[i] = IF i = 1 THEN x ELSE array[i - 1]
      BY <1>2, PushFrontIs, Zenon
    <3>2. /\ new \in Seq(Items) /\ endPosition' = Len(new)
          /\ \A i \in 1 .. Len(new) : array'[i] = new[i]
      BY <2>2, <3>1
    <3> HIDE DEF new
    <3>3. contents' = new
      BY <3>2, ContentsAre, Zenon
    <3> QED  BY <3>3 DEF new
  <2> QED  BY <2>3 DEF List!push_front
<1>3. ASSUME pop_back PROVE List!pop_back
  <2>1. endPosition > 0 /\ endPosition' = endPosition - 1 /\ contents # <<>>
    BY <1>3, PopBackIs, EmptySeq
  <2>2. \A i \in 1 .. endPosition - 1 : contents[i] \in Items
    BY <2>1, ElementOfSeq
  <2>3. /\ SubSeq(contents, 1, endPosition - 1) \in Seq(Items)
        /\ Len(SubSeq(contents, 1, endPosition - 1)) = endPosition - 1
        /\ \A i \in 1 .. endPosition - 1 : SubSeq(contents, 1, endPosition - 1)[i] = array[i]
    BY <2>1, <2>2, PrefixIs
  <2>4. contents' = SubSeq(contents, 1, endPosition - 1)
    BY <1>3, <2>1, <2>3, PopBackIs, ContentsAre
  <2> QED  BY <2>1, <2>4 DEF List!pop_back
<1>4. ASSUME pop_front PROVE List!pop_front
  <2>1. endPosition > 0 /\ endPosition' = endPosition - 1 /\ contents # <<>>
    BY <1>4, PopFrontIs, EmptySeq
  <2>2. /\ Tail(contents) \in Seq(Items) /\ Len(Tail(contents)) = endPosition - 1
        /\ \A i \in 1 .. endPosition - 1 : Tail(contents)[i] = array[i + 1]
    BY <2>1, HeadTailProperties
  <2>3. contents' = Tail(contents)
    BY <1>4, <2>1, <2>2, PopFrontIs, ContentsAre
  <2> QED  BY <2>1, <2>3 DEF List!pop_front
<1>5. ASSUME NEW p \in 1 .. endPosition, erase(p) PROVE List!erase(p)
  <2> DEFINE before == SubSeq(contents, 1, p - 1)
             behind == SubSeq(contents, p + 1, endPosition)
  <2>1. \A i \in 1 .. endPosition : contents[i] \in Items
    BY ElementOfSeq
  <2>2. /\ before \in Seq(Items) /\ Len(before) = p - 1
        /\ \A i \in 1 .. p - 1 : before[i] = array[i]
    BY <2>1, PrefixIs
  <2>3. /\ behind \in Seq(Items) /\ Len(behind) = endPosition - p
        /\ \A i \in 1 .. endPosition - p : behind[i] = array[p + i]
    <3>1. /\ behind \in Seq(Items)
          /\ Len(behind) = IF p + 1 <= endPosition THEN endPosition - (p + 1) + 1 ELSE 0
          /\ \A i \in 1 .. endPosition - (p + 1) + 1 : behind[i] = contents[p + 1 + i - 1]
      BY <2>1, SubSeqProperties
    <3> QED  BY <3>1
  <2> HIDE DEF before, behind
  <2>4. /\ before \o behind \in Seq(Items) /\ Len(before \o behind) = endPosition - 1
        /\ \A i \in 1 .. endPosition - 1 :
             (before \o behind)[i] = IF i < p THEN array[i] ELSE array[i + 1]
    <3>1. /\ before \o behind \in Seq(Items)
          /\ Len(before \o behind) = Len(before) + Len(behind)
          /\ \A i \in 1 .. Len(before) + Len(behind) :
               (before \o behind)[i] =
                 IF i <= Len(before) THEN before[i] ELSE behind[i - Len(before)]
      BY <2>2, <2>3, ConcatProperties, Zenon
    <3>2. ASSUME NEW i \in 1 .. endPosition - 1, i < p PROVE (before \o behind)[i] = array[i]
      BY <2>2, <2>3, <3>1, <3>2
    <3>3. ASSUME NEW i \in 1 .. endPosition - 1, ~(i < p)
          PROVE  (before \o behind)[i] = array[i + 1]
      <4>1. (before \o behind)[i] = behind[i - (p - 1)]
        BY <2>2, <2>3, <3>1, <3>3
      <4>2. i - (p - 1) \in 1 .. endPosition - p /\ p + (i - (p - 1)) = i + 1
        BY <3>3
      <4> QED  BY <2>3, <4>1, <4>2
    <3> QED  BY <2>2, <2>3, <3>1, <3>2, <3>3
  <2>5. contents' = before \o behind
    BY <1>5, <2>4, EraseIs, ContentsAre
  <2> QED  BY <2>5 DEF List!erase, before, behind
<1>6. ASSUME (\E size \in Sizes : reserve(size)) \/ shrink_to_fit \/ copy
      PROVE  contents' = contents
  BY <1>6, ReallocatedIs, ContentsAre
<1>7. ASSUME clear PROVE List!clear
  <2>1. contents' = <<>>
    <3> DEFINE new == <<>>
    <3>1. new \in Seq(Items) /\ Len(new) = 0
      BY EmptySeq
    <3>2. endPosition' = 0
      BY <1>7, ClearIs, Zenon
    <3>3. endPosition' = Len(new) /\ \A i \in 1 .. Len(new) : array'[i] = new[i]
      BY <3>1, <3>2
    <3> HIDE DEF new
    <3>4. contents' = new
      BY <3>1, <3>3, ContentsAre, Zenon
    <3> QED  BY <3>4 DEF new
  <2> QED  BY <2>1 DEF List!clear
<1> QED  BY <1>1, <1>2, <1>3, <1>4, <1>5, <1>6, <1>7 DEF CallsKept

LEMMA Refines == ListInv /\ [Next]_vars => [List!Next]_contents
<1> SUFFICES ASSUME ListInv, [Next]_vars PROVE [List!Next]_contents
  OBVIOUS
<1>1. CallsKept  BY CallsAreKept
<1>2. ASSUME NEW p \in 1 .. endPosition, erase(p) PROVE List!Next
  <2>1. p \in 1 .. Len(contents)  BY ContentsIs
  <2> QED  BY <1>1, <1>2, <2>1 DEF CallsKept, List!Next
<1>3. CASE UNCHANGED vars
  BY <1>3 DEF vars, contents
<1> QED  BY <1>1, <1>2, <1>3 DEF CallsKept, Next, List!Next

(* SimpleList implements a list: whatever blocks it reserves, gives back   *)
(* or copies, its users see the items they put in, in order, and each      *)
(* operation does to them what ItemList says of it.                        *)
THEOREM ImplementsList == Spec => HoldsList
<1>1. Init => List!Init
  BY DEF Init, contents, List!Init
<1>2. ListInv /\ [Next]_vars => [CallsKept]_vars
  BY CallsAreKept
<1> QED  BY <1>1, <1>2, Refines, ArrayAgrees, PTL DEF Spec, HoldsList, List!Spec

=============================================================================

----------------------------- MODULE SimpleList -----------------------------
(***************************************************************************)
(* The class SimpleList (SimpleList.h), which holds the ports and the      *)
(* watchers: an array that is reallocated one block at a time, down to the *)
(* number of blocks that were reserved.                                    *)
(*                                                                         *)
(* A position is the code's index plus one.                                *)
(***************************************************************************)
EXTENDS Integers, Sequences

CONSTANTS
  Items,
  Junk,      \* an element of `new T[]` that was never written
  Sizes,     \* what reserve() is called with
  MaxLength  \* bound: items in the list

ASSUME ListAssumption ==
  /\ Junk \notin Items
  /\ Sizes \subseteq Nat
  /\ MaxLength \in Nat

VARIABLES
  array,           \* _internalArray, empty for NULL
  endPosition,     \* _endPosition
  allocBlocks,     \* _allocBlocks
  preAllocBlocks   \* _preAllocBlocks

vars == <<array, endPosition, allocBlocks, preAllocBlocks>>

Cells == Items \cup {Junk}

TypeOK ==
  /\ array \in Seq(Cells)
  /\ endPosition \in 0 .. MaxLength
  /\ allocBlocks \in Nat
  /\ preAllocBlocks \in Nat

Init ==
  /\ array = <<>>
  /\ endPosition = 0
  /\ allocBlocks = 0 /\ preAllocBlocks = 0

-----------------------------------------------------------------------------
(* A new array of n blocks, to which `count` items are copied: the first   *)
(* goes behind `to` blocks and comes from behind `from`.                   *)
NewArray(n, count, to, from) ==
  [k \in 1 .. n |-> IF k - to \in 1 .. count THEN array[k - to + from] ELSE Junk]

(* The items from p on move up, or those behind p move down, in place.     *)
MovedUp(p) ==
  [k \in DOMAIN array |-> IF k \in p + 1 .. endPosition + 1 THEN array[k - 1] ELSE array[k]]

MovedDown_Bug(p) ==
  [k \in DOMAIN array |-> IF k \in p + 1 .. endPosition - 1 THEN array[k + 1] ELSE array[k]]

MovedDown(p) ==
  [k \in DOMAIN array |-> IF k \in p .. endPosition - 1 THEN array[k + 1] ELSE array[k]]

Full_Bug == endPosition > allocBlocks

Full == endPosition = allocBlocks

Growing == endPosition < MaxLength /\ endPosition' = endPosition + 1

(* AllocOneBlock(), when the array is full.                                *)
push_back(x) ==
  /\ Growing
  /\ array' = [(IF Full THEN NewArray(allocBlocks + 1, endPosition, 0, 0) ELSE array)
                 EXCEPT ![endPosition + 1] = x]
  /\ allocBlocks' = IF Full THEN allocBlocks + 1 ELSE allocBlocks
  /\ UNCHANGED preAllocBlocks

push_front(x) ==
  /\ Growing
  /\ array' = [(IF Full THEN NewArray(allocBlocks + 1, endPosition, 1, 0) ELSE MovedUp(1))
                 EXCEPT ![1] = x]
  /\ allocBlocks' = IF Full THEN allocBlocks + 1 ELSE allocBlocks
  /\ UNCHANGED preAllocBlocks

Spare_Bug == TRUE

(* There are blocks beyond the reserved ones: one of them is given back    *)
(* with every item that goes.                                              *)
Spare == allocBlocks > preAllocBlocks

Shrinking ==
  /\ endPosition > 0 /\ endPosition' = endPosition - 1
  /\ allocBlocks' = IF Spare THEN allocBlocks - 1 ELSE allocBlocks
  /\ UNCHANGED preAllocBlocks

pop_back ==
  /\ Shrinking
  /\ array' = IF Spare THEN NewArray(allocBlocks - 1, endPosition - 1, 0, 0) ELSE array

pop_front ==
  /\ Shrinking
  /\ array' = IF Spare THEN NewArray(allocBlocks - 1, endPosition - 1, 0, 1)
                       ELSE MovedDown(1)

(* erase() of the last item is pop_back().                                 *)
erase(p) ==
  \/ p = endPosition /\ pop_back
  \/ /\ p < endPosition
     /\ Shrinking
     /\ array' = IF Spare
                 THEN [k \in 1 .. allocBlocks - 1 |->
                         IF k < endPosition THEN MovedDown(p)[k] ELSE Junk]
                 ELSE MovedDown(p)

reserve(size) ==
  /\ size # 0 /\ size >= allocBlocks
  /\ allocBlocks' = size /\ preAllocBlocks' = size
  /\ array' = NewArray(size, endPosition, 0, 0)
  /\ UNCHANGED endPosition

clear ==
  /\ endPosition' = 0
  /\ IF Spare
     THEN allocBlocks' = preAllocBlocks /\ array' = NewArray(preAllocBlocks, 0, 0, 0)
     ELSE UNCHANGED <<allocBlocks, array>>
  /\ UNCHANGED preAllocBlocks

shrink_to_fit ==
  /\ preAllocBlocks' = endPosition /\ allocBlocks' = endPosition
  /\ array' = NewArray(endPosition, endPosition, 0, 0)
  /\ UNCHANGED endPosition

(* The list is copied, or assigned to another, which is used from then on. *)
copy ==
  /\ array' = NewArray(allocBlocks, endPosition, 0, 0)
  /\ UNCHANGED <<endPosition, allocBlocks, preAllocBlocks>>

Next ==
  \/ \E x \in Items : push_back(x) \/ push_front(x)
  \/ pop_back \/ pop_front
  \/ \E p \in 1 .. endPosition : erase(p)
  \/ \E size \in Sizes : reserve(size)
  \/ clear \/ shrink_to_fit \/ copy

Spec == Init /\ [][Next]_vars

-----------------------------------------------------------------------------
(* Properties.                                                             *)

(* What the iterators from begin() to end() see.                           *)
contents == SubSeq(array, 1, endPosition)

(* Whatever the reallocations, the list does what module ItemList says:    *)
(* no item is lost, doubled or moved by another's coming or going.         *)
List == INSTANCE ItemList WITH items <- contents

(* Each operation is the one of ItemList with its own arguments.           *)
CallsKept ==
  /\ \A x \in Items : push_back(x) => List!push_back(x)
  /\ \A x \in Items : push_front(x) => List!push_front(x)
  /\ pop_back => List!pop_back
  /\ pop_front => List!pop_front
  /\ \A p \in 1 .. endPosition : erase(p) => List!erase(p)
  /\ clear => List!clear
  /\ (\E size \in Sizes : reserve(size)) \/ shrink_to_fit \/ copy => UNCHANGED contents

HoldsList == List!Spec /\ [][CallsKept]_vars

(* The array is as long as the list thinks, the items are inside it, and   *)
(* every one of them was written: no access is out of bounds.              *)
InBounds ==
  /\ Len(array) = allocBlocks
  /\ endPosition <= allocBlocks
  /\ \A i \in 1 .. endPosition : array[i] \in Items

(* The list holds no memory but for its items and what was reserved.       *)
NoSlack ==
  allocBlocks = IF endPosition > preAllocBlocks THEN endPosition ELSE preAllocBlocks

(* The inductive invariant behind both, and the refinement                 *)
(* (SimpleListProofs).                                                     *)
ListInv == TypeOK /\ InBounds /\ NoSlack

=============================================================================

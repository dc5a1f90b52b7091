------------------------------ MODULE ItemList ------------------------------
(***************************************************************************)
(* What SimpleList promises its users: a list of items, which nothing but  *)
(* the six operations below changes.                                       *)
(***************************************************************************)
EXTENDS Integers, Sequences

CONSTANT Items

VARIABLE items

Init == items = <<>>

push_back(x) == items' = Append(items, x)

push_front(x) == items' = <<x>> \o items

pop_back == items # <<>> /\ items' = SubSeq(items, 1, Len(items) - 1)

pop_front == items # <<>> /\ items' = Tail(items)

erase(p) == items' = SubSeq(items, 1, p - 1) \o SubSeq(items, p + 1, Len(items))

clear == items' = <<>>

Next ==
  \/ \E x \in Items : push_back(x) \/ push_front(x)
  \/ pop_back \/ pop_front \/ clear
  \/ \E p \in 1 .. Len(items) : erase(p)

Spec == Init /\ [][Next]_items

=============================================================================

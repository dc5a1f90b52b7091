---------------------------- MODULE CoapMessage ----------------------------
(***************************************************************************)
(* What the class CoapPDU (cantcoap.cpp) promises whoever builds a message *)
(* with it: a token, a payload, and options that may be added in any order *)
(* of their numbers and are kept in ascending order, options of the same   *)
(* number in the order in which they were added.                           *)
(***************************************************************************)
EXTENDS Naturals, FiniteSets, SequencesExt

CONSTANTS Numbers, Values, Tokens, Payloads

VARIABLES token, options, payload

vars == <<token, options, payload>>

Init == token = <<>> /\ options = <<>> /\ payload = <<>>

AddOption(n, v) ==
  LET before == {i \in DOMAIN options : options[i].number <= n}
  IN /\ options' = InsertAt(options, Cardinality(before) + 1, [number |-> n, value |-> v])
     /\ UNCHANGED <<token, payload>>

SetToken(t) == token' = t /\ UNCHANGED <<options, payload>>

SetPayload(p) == payload' = p /\ UNCHANGED <<token, options>>

Reset == token' = <<>> /\ options' = <<>> /\ payload' = <<>>

Next ==
  \/ \E n \in Numbers, v \in Values : AddOption(n, v)
  \/ \E t \in Tokens : SetToken(t)
  \/ \E p \in Payloads : SetPayload(p)
  \/ Reset

Spec == Init /\ [][Next]_vars

=============================================================================

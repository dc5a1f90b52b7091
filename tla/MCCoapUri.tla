----------------------------- MODULE MCCoapUri -----------------------------
(***************************************************************************)
(* CoapUri for TLC: every string of a few characters.                      *)
(***************************************************************************)
EXTENDS CoapUri

CONSTANT MaxLen  \* bound: length of a URI

Strings == UNION {[1 .. n -> Char] : n \in 0 .. MaxLen}

=============================================================================

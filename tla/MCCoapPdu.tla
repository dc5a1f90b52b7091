----------------------------- MODULE MCCoapPdu -----------------------------
(***************************************************************************)
(* CoapPdu for TLC: the options and contents of a message.                 *)
(***************************************************************************)
EXTENDS CoapPdu

(* The numbers of URI_PATH and CONTENT_FORMAT, and two more: the deltas    *)
(* between them need no extra byte, one and two, and fewer when another    *)
(* option comes in between.                                                *)
SomeNumbers == {11, 12, 24, 280}

(* No value, one that looks like the payload marker, and one whose length  *)
(* needs an extra byte.                                                    *)
ShortValues == {<<>>, <<Marker>>, [i \in 1 .. 13 |-> i]}

SomeTokens == {<<>>, <<7>>, <<8, 9, 8>>}

SomePayloads == {<<>>, <<5, Marker>>}

=============================================================================

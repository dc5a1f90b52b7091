------------------------------ MODULE CoapPdu ------------------------------
(***************************************************************************)
(* The class CoapPDU (cantcoap.cpp), which every CoAP message of the       *)
(* device is built with and read by: the bytes of a message under          *)
(* construction, and what the object remembers of them.                    *)
(*                                                                         *)
(* A position is the code's index plus one.  The fields of the header that *)
(* an assignment of their own sets (type, code, message id) are zero here. *)
(* The object owns its memory, and realloc() may fail; of a PDU built in a *)
(* buffer of the caller the same is true when the buffer is full.          *)
(***************************************************************************)
EXTENDS Integers, SequencesExt

CONSTANTS
  Numbers, Values,   \* of the options
  Tokens, Payloads,
  MaxOptions,        \* bound: options of one message
  CallerStops        \* no option is added after a call that failed

Byte == 0 .. 255
MaxUint16 == 65535
Uint16(n) == n % (MaxUint16 + 1)
MaxLength == MaxUint16 - 5  \* of a value, whose header may have five bytes

(* The bytes of an option are counted in 16 bits, those of a token in four.*)
ASSUME PduAssumption ==
  /\ Numbers \subseteq 0 .. MaxUint16
  /\ \A v \in Values : v \in Seq(Byte) /\ Len(v) <= MaxLength
  /\ \A t \in Tokens : t \in Seq(Byte) /\ Len(t) <= 8
  /\ Payloads \subseteq Seq(Byte)
  /\ MaxOptions \in Nat
  /\ CallerStops \in BOOLEAN

VARIABLES
  pdu,            \* _pdu[0 .. _pduLength - 1]
  numOptions,     \* _numOptions
  maxAdded,       \* _maxAddedOptionNumber
  payloadAt,      \* _payloadPointer, as a position; 0 for NULL
  payloadLength,  \* _payloadLength
  failed          \* some call has failed

vars == <<pdu, numOptions, maxAdded, payloadAt, payloadLength, failed>>

Junk == 256      \* a byte that was allocated and never written
Cell == 0 .. Junk
Marker == 255    \* 0xFF, before the payload
HeaderSize == 4  \* COAP_HDR_SIZE

Version(bytes) == bytes[1] \div 64
TokenLength(bytes) == bytes[1] % 16
FirstOption(bytes) == HeaderSize + TokenLength(bytes) + 1

TypeOK ==
  /\ pdu \in Seq(Cell)
  /\ numOptions \in 0 .. MaxOptions
  /\ maxAdded \in Numbers \cup {0}
  /\ payloadAt \in 0 .. Len(pdu)
  /\ payloadLength \in 0 .. Len(pdu)
  /\ failed \in BOOLEAN

(* CoapPDU(): four bytes of which setVersion(1) writes the first.          *)
Init ==
  /\ pdu = <<64, 0, 0, 0>>
  /\ numOptions = 0 /\ maxAdded = 0
  /\ payloadAt = 0 /\ payloadLength = 0
  /\ failed = FALSE

-----------------------------------------------------------------------------
(* The encoding of an option: a byte with two nibbles, up to two bytes     *)
(* more for each of delta and length, and the value.                       *)

ExtraBytes(n) == IF n < 13 THEN 0 ELSE IF n < 269 THEN 1 ELSE 2

Nibble(n) == IF n < 13 THEN n ELSE 12 + ExtraBytes(n)

Extra_Bug(n) ==
  CASE ExtraBytes(n) = 0 -> <<>>
    [] ExtraBytes(n) = 1 -> <<n>>
    [] ExtraBytes(n) = 2 -> <<(n - 269) \div 256, (n - 269) % 256>>

Extra(n) ==
  CASE ExtraBytes(n) = 0 -> <<>>
    [] ExtraBytes(n) = 1 -> <<n - 13>>
    [] ExtraBytes(n) = 2 -> <<(n - 269) \div 256, (n - 269) % 256>>

(* getOptionDelta() and getOptionValueLength() on a nibble and the         *)
(* position of its extra bytes.                                            *)
Extended(bytes, nibble, at) ==
  CASE nibble = 13 -> bytes[at] + 13
    [] nibble = 14 -> Uint16(256 * bytes[at] + bytes[at + 1] + 269)
    [] OTHER -> nibble

(* The option whose first byte is at a position.                           *)
OptionAt(bytes, at) ==
  LET deltaNibble == bytes[at] \div 16
      delta  == Extended(bytes, deltaNibble, at + 1)
      length == Extended(bytes, bytes[at] % 16,
                         at + 1 + (IF deltaNibble \in {13, 14} THEN deltaNibble - 12 ELSE 0))
      size   == 1 + ExtraBytes(delta) + ExtraBytes(length) + length
  IN [delta |-> delta, size |-> size,
      value |-> SubSeq(bytes, at + size - length, at + size - 1)]

OptionSet == [number : 0 .. MaxUint16, value : Seq(Cell)]

NumberOf(options, k) == IF k = 0 THEN 0 ELSE options[k].number

LastNumber(options) == NumberOf(options, Len(options))

(* A walk over the options: where the next one starts, and the options     *)
(* before it, with their numbers.                                          *)
Place == [at : Nat, options : Seq(OptionSet)]

Start(bytes) == [at |-> FirstOption(bytes), options |-> <<>>]

Behind(bytes) ==
  [s \in Place |->
     LET option == OptionAt(bytes, s.at)
     IN [at |-> s.at + option.size,
         options |-> Append(s.options, [number |-> Uint16(LastNumber(s.options) + option.delta),
                                        value  |-> option.value])]]

Walk(bytes, count) ==
  LET walk[k \in 0 .. count] == IF k = 0 THEN Start(bytes) ELSE Behind(bytes)[walk[k - 1]]
  IN walk

(* getOptions(): the first `count` options, with their numbers.            *)
Options(bytes, count) == Walk(bytes, count)[count].options

Overwrite(bytes, at, new) ==
  [i \in DOMAIN bytes |->
     IF i \in at .. at + Len(new) - 1 THEN new[i - at + 1] ELSE bytes[i]]

Grown(bytes, k) == bytes \o [i \in 1 .. k |-> Junk]

(* shiftPDUUp(): the bytes from a position on move up by k to the new end. *)
ShiftedUp(bytes, at, k) ==
  [i \in 1 .. Len(bytes) + k |-> IF i >= at + k THEN bytes[i - k] ELSE Grown(bytes, k)[i]]

-----------------------------------------------------------------------------
(* addOption().                                                            *)

Advanced_Bug(n, s) ==
  IF s.at > Len(pdu) \/ pdu[s.at] = Marker \/ LastNumber(Behind(pdu)[s].options) >= n
  THEN s ELSE Behind(pdu)[s]

Advanced(n, s) ==
  IF s.at > Len(pdu) \/ pdu[s.at] = Marker \/ LastNumber(Behind(pdu)[s].options) > n
  THEN s ELSE Behind(pdu)[s]

(* findInsertionPosition(): behind the last option that is not greater,    *)
(* and the number of that one.  The loop has no more rounds than there are *)
(* bytes.                                                                  *)
InsertionPosition(n) ==
  LET walk[k \in 0 .. Len(pdu)] == IF k = 0 THEN Start(pdu) ELSE Advanced(n, walk[k - 1])
      place == walk[Len(pdu)]
  IN IF n >= maxAdded \/ Len(pdu) < FirstOption(pdu)
     THEN [at |-> Len(pdu) + 1, number |-> maxAdded]
     ELSE [at |-> place.at, number |-> LastNumber(place.options)]

NextDelta_Bug(n, previous, delta) == delta

(* The delta of the option behind the new one: it has come nearer.         *)
NextDelta(n, previous, delta) == previous + delta - n

(* insertOption() subtracts 269 from the length of a long value before it  *)
(* copies the value.                                                       *)
Copied(v) == SubSeq(v, 1, IF Len(v) < 269 THEN Len(v) ELSE Len(v) - 269)

Header(delta, length) ==
  <<16 * Nibble(delta) + Nibble(length)>> \o Extra(delta) \o Extra(length)

Encoded(delta, v) == Header(delta, Len(v)) \o Copied(v)

EncodedSize(delta, v) == 1 + ExtraBytes(delta) + ExtraBytes(Len(v)) + Len(v)

(* The bytes when option n is inserted behind `previous`, before the       *)
(* option that starts `at` a position: that option's delta shrinks, and    *)
(* may need fewer bytes.                                                   *)
InsertedBefore(at, previous, n, v) ==
  LET delta     == n - previous
      nextDelta == OptionAt(pdu, at).delta
      newDelta  == NextDelta(n, previous, nextDelta)
      grow      == EncodedSize(delta, v) + ExtraBytes(newDelta) - ExtraBytes(nextDelta)
      nextBytes == <<16 * Nibble(newDelta) + (pdu[at] % 16)>> \o Extra(newDelta)
  IN Overwrite(Overwrite(ShiftedUp(pdu, at, grow), at + EncodedSize(delta, v), nextBytes),
               at, Encoded(delta, v))

Appended(previous, n, v) ==
  LET delta == Uint16(n - previous)
  IN Overwrite(Grown(pdu, EncodedSize(delta, v)), Len(pdu) + 1, Encoded(delta, v))

(* The callers add options before the payload (message.cpp).  On the way   *)
(* to the end of the PDU, maxAdded is set before realloc() may fail.       *)
AddOption(n, v) ==
  LET place == InsertionPosition(n)
      atEnd == place.at = Len(pdu) + 1
  IN /\ numOptions < MaxOptions /\ payloadAt = 0
     /\ CallerStops => ~failed
     /\ maxAdded' = IF atEnd THEN n ELSE maxAdded
     /\ \/ /\ pdu' = IF atEnd THEN Appended(place.number, n, v)
                              ELSE InsertedBefore(place.at, place.number, n, v)
           /\ numOptions' = numOptions + 1
           /\ UNCHANGED failed
        \/ failed' = TRUE /\ UNCHANGED <<pdu, numOptions>>
     /\ UNCHANGED <<payloadAt, payloadLength>>

-----------------------------------------------------------------------------
(* setToken() and setPayload().  A realloc() in the branch where the PDU   *)
(* gets smaller is taken to succeed.                                       *)

SetToken_Bug(t) ==
  /\ payloadAt = 0 /\ t # <<>>
  /\ pdu' = Overwrite(IF Len(t) > TokenLength(pdu)
                      THEN Grown(pdu, Len(t) - TokenLength(pdu)) ELSE pdu,
                      1, <<pdu[1] - TokenLength(pdu) + Len(t), 0, 0, 0>> \o t)
  /\ UNCHANGED <<numOptions, maxAdded, payloadAt, payloadLength, failed>>

(* setToken() keeps the old length of the PDU in a uint8_t.                *)
OldLength == Len(pdu) % 256

(* The bytes with a new token: from 256 bytes on, what is behind the token *)
(* is taken from elsewhere.                                                *)
Retokened(t) ==
  LET change == Len(t) - TokenLength(pdu)
      length == Len(pdu) + change
      offset == length - OldLength
      room   == IF change > 0 THEN Grown(pdu, change) ELSE pdu
      header == <<pdu[1] + change, 0, 0, 0>> \o t
  IN IF length > OldLength
     THEN [i \in 1 .. length |->
             IF i <= Len(header) THEN header[i]
             ELSE IF i - offset >= 1 THEN room[i - offset] ELSE Junk]
     ELSE header \o SubSeq(pdu, FirstOption(pdu), Len(pdu))

(* When realloc() fails, the PDU gets its old length back: from 256 bytes  *)
(* on, it is cut.                                                          *)
SetToken(t) ==
  /\ payloadAt = 0
  /\ \/ /\ t # <<>>
        /\ pdu' = IF Len(t) = TokenLength(pdu) THEN Overwrite(pdu, HeaderSize + 1, t)
                                               ELSE Retokened(t)
        /\ UNCHANGED failed
     \/ t = <<>> /\ failed' = TRUE /\ UNCHANGED pdu
     \/ /\ t # <<>> /\ Len(t) # TokenLength(pdu)
        /\ Len(pdu) + (Len(t) - TokenLength(pdu)) > OldLength
        /\ failed' = TRUE /\ pdu' = SubSeq(pdu, 1, OldLength)
  /\ UNCHANGED <<numOptions, maxAdded, payloadAt, payloadLength>>

(* mallocPayload() of a PDU without one, and the copy.                     *)
SetPayload(p) ==
  /\ payloadAt = 0
  /\ \/ /\ p # <<>>
        /\ pdu' = pdu \o <<Marker>> \o p
        /\ payloadAt' = Len(pdu) + 2
        /\ payloadLength' = Len(p)
        /\ UNCHANGED failed
     \/ failed' = TRUE /\ UNCHANGED <<pdu, payloadAt, payloadLength>>
  /\ UNCHANGED <<numOptions, maxAdded>>

(* reset() zeroes the header as well: the version is 0 from then on.       *)
Reset ==
  /\ pdu' = <<0, 0, 0, 0>>
  /\ numOptions' = 0 /\ maxAdded' = 0
  /\ payloadAt' = 0 /\ payloadLength' = 0
  /\ failed' = FALSE

Next ==
  \/ \E n \in Numbers, v \in Values : AddOption(n, v)
  \/ \E t \in Tokens : SetToken(t)
  \/ \E p \in Payloads : SetPayload(p)
  \/ Reset

Spec == Init /\ [][Next]_vars

-----------------------------------------------------------------------------
(* validate(), on the other side: the number of the options and the place  *)
(* of the payload, or that the bytes are no valid PDU.                     *)

Invalid == [valid |-> FALSE, options |-> 0, payloadAt |-> 0]

(* An extra byte is missing, or a part of the value.  computeExtraBytes()  *)
(* is asked about a nibble here: it counts one byte for 14 as well.        *)
Malformed(bytes, at) ==
  LET upper == bytes[at] \div 16
      lower == bytes[at] % 16
      left  == Len(bytes) - at + 1
  IN \/ upper = 15 \/ lower = 15
     \/ ExtraBytes(upper) + ExtraBytes(lower) >= left
     \/ OptionAt(bytes, at).size > left

(* A round of the loop.                                                    *)
Checked(bytes, s) ==
  IF s.at > Len(bytes) \/ bytes[s.at] = Marker \/ Malformed(bytes, s.at) THEN s
  ELSE [at |-> s.at + OptionAt(bytes, s.at).size, count |-> s.count + 1]

Validate(bytes) ==
  LET walk[k \in 0 .. Len(bytes)] ==
        IF k = 0 THEN [at |-> FirstOption(bytes), count |-> 0] ELSE Checked(bytes, walk[k - 1])
      end == walk[Len(bytes)]
  IN IF \/ Len(bytes) < HeaderSize \/ Version(bytes) # 1
        \/ TokenLength(bytes) > 8 \/ HeaderSize + TokenLength(bytes) > Len(bytes)
     THEN Invalid
     ELSE IF end.at > Len(bytes)
     THEN [valid |-> TRUE, options |-> end.count, payloadAt |-> 0]
     ELSE IF bytes[end.at] = Marker /\ end.at < Len(bytes)
     THEN [valid |-> TRUE, options |-> end.count, payloadAt |-> end.at + 1]
     ELSE Invalid

-----------------------------------------------------------------------------
(* Properties.                                                             *)

(* The class keeps the promises of CoapMessage: the bytes hold the token,  *)
(* the options in the order of their numbers, each with its own number and *)
(* value, and the payload, whatever the order of the calls.                *)
Token == SubSeq(pdu, HeaderSize + 1, HeaderSize + TokenLength(pdu))

Message == INSTANCE CoapMessage WITH
  token   <- Token,
  options <- Options(pdu, numOptions),
  payload <- IF payloadAt = 0 THEN <<>>
             ELSE SubSeq(pdu, payloadAt, payloadAt + payloadLength - 1)

(* Each call is the step of CoapMessage with its own arguments, or changes *)
(* nothing: a failed one does not.                                         *)
CallsKept ==
  /\ \A n \in Numbers, v \in Values :
       AddOption(n, v) /\ numOptions' # numOptions => Message!AddOption(n, v)
  /\ \A t \in Tokens : SetToken(t) /\ pdu' # pdu => Message!SetToken(t)
  /\ \A p \in Payloads : SetPayload(p) /\ pdu' # pdu => Message!SetPayload(p)
  /\ Reset => Message!Reset

HoldsMessage == Message!Spec /\ [][CallsKept]_vars

(* What one CoapPDU has built another reads back: validate() accepts the   *)
(* bytes, unless reset() took their version, and finds as many options and *)
(* the same payload.                                                       *)
ReadBack ==
  Version(pdu) = 1 =>
    Validate(pdu) = [valid |-> TRUE, options |-> numOptions, payloadAt |-> payloadAt]

-----------------------------------------------------------------------------
(* What makes them inductive.                                              *)

HoldsAt(bytes, at, code) ==
  /\ at + Len(code) <= Len(bytes) + 1
  /\ \A i \in 1 .. Len(code) : bytes[at + i - 1] = code[i]

(* The k-th option is between at[k - 1] and at[k], its number as the       *)
(* difference to that of the option before it.                             *)
Laid(bytes, at, options) ==
  /\ options \in Seq(OptionSet)
  /\ at \in [0 .. Len(options) -> Nat] /\ at[0] = FirstOption(bytes)
  /\ \A k \in 1 .. Len(options) :
       LET delta == NumberOf(options, k) - NumberOf(options, k - 1)
           value == options[k].value
       IN /\ delta >= 0 /\ Len(value) <= MaxLength
          /\ at[k] = at[k - 1] + EncodedSize(delta, value)
          /\ HoldsAt(bytes, at[k - 1], Header(delta, Len(value)) \o value)

Places(bytes, count) == [k \in 0 .. count |-> Walk(bytes, count)[k].at]

(* The options fill the PDU up to its end or to the payload, and maxAdded  *)
(* is the number of the last one.                                          *)
PduInv ==
  LET options == Options(pdu, numOptions)
      at  == Places(pdu, numOptions)
      end == at[numOptions]
  IN /\ TypeOK
     /\ \E version \in {0, 1}, length \in 0 .. 8 : pdu[1] = 64 * version + length
     /\ FirstOption(pdu) <= Len(pdu) + 1
     /\ Laid(pdu, at, options)
     /\ payloadAt = 0 => end = Len(pdu) + 1 /\ payloadLength = 0
     /\ payloadAt # 0 => /\ pdu[end] = Marker /\ payloadAt = end + 1
                         /\ payloadLength = Len(pdu) - end /\ payloadLength > 0
     /\ ~failed => maxAdded = LastNumber(options)

(* No call of setToken() changes a PDU of 256 bytes or more, be it one     *)
(* that sets the token or one that fails and cuts the PDU.                 *)
TokenInTime ==
  \A t \in Tokens : SetToken(t) /\ pdu' # pdu => Len(pdu) < 256

=============================================================================

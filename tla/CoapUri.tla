------------------------------ MODULE CoapUri ------------------------------
(***************************************************************************)
(* CoapPDU::setURI() and CoapPDU::getURI() (cantcoap.cpp): a URI taken     *)
(* apart into options, and put together again in a buffer of the caller.   *)
(* A URI is a sequence of characters, of which "/", "?" and "&" separate.  *)
(***************************************************************************)
EXTENDS Integers, FiniteSetsExt, SequencesExt

CONSTANTS
  Char,   \* the characters of a URI
  Uris,   \* the URIs considered
  DstLen  \* length of the buffer, URI_BUFFER_LENGTH

ASSUME UriAssumption ==
  /\ {"/", "?", "&"} \subseteq Char
  /\ Uris \subseteq Seq(Char)
  /\ DstLen \in Nat \ {0, 1}

VARIABLES
  uri,      \* the URI setURI() is given
  options,  \* the options it adds
  read      \* what getURI() makes of them

uriVars == <<uri, options, read>>

Option(type, value) == [type |-> type, value |-> value]

Unread == [failed |-> FALSE, text |-> <<>>]

UriInit == uri \in Uris /\ options = <<>> /\ read = Unread

-----------------------------------------------------------------------------
Separator(type) == IF type = "Path" THEN "/" ELSE "&"

(* The positions of a character from `start` on.                           *)
Splits(text, c, start) == {i \in start .. Len(text) : text[i] = c}

NextType_Bug(type, queryStageTriggered) == type

NextType(type, queryStageTriggered) == IF queryStageTriggered THEN "Query" ELSE type

(* A round of the loop of setURI(), from `at` on: it looks for a "?" only  *)
(* when no separator is left.                                              *)
Segment(text, s) ==
  LET start  == IF text[s.at] = Separator(s.type) THEN s.at + 1 ELSE s.at
      splits == Splits(text, Separator(s.type), start)
      marks  == Splits(text, "?", start)
      queryStageTriggered == splits = {} /\ marks # {}
      end    == IF splits # {} THEN Min(splits)
                ELSE IF marks # {} THEN Min(marks) ELSE Len(text) + 1
  IN [at      |-> IF queryStageTriggered THEN end + 1 ELSE end,
      type    |-> NextType(s.type, queryStageTriggered),
      options |-> Append(s.options, Option(s.type, SubSeq(text, start, end - 1)))]

(* The loop stops at the last character, which is no more rounds away than *)
(* there are characters.                                                   *)
Split(text) ==
  LET walk[k \in 0 .. Len(text)] ==
        IF k = 0 THEN [at |-> 1, type |-> "Path", options |-> <<>>]
        ELSE IF walk[k - 1].at >= Len(text) THEN walk[k - 1] ELSE Segment(text, walk[k - 1])
  IN walk[Len(text)].options

OptionsOf(text) == IF Len(text) = 1 THEN <<Option("Path", text)>> ELSE Split(text)

SetURI ==
  /\ uri # <<>> /\ options = <<>>
  /\ options' = OptionsOf(uri)
  /\ UNCHANGED <<uri, read>>

Room_Bug(text) == DstLen - Len(text)

(* bytesLeft: one byte is kept for the terminating zero.                   *)
Room(text) == DstLen - 1 - Len(text)

Join_Bug(text, i) ==
  LET value == options[i].value
  IN [step |-> "Next",
      text |-> IF Len(value) >= Room(text) THEN text
               ELSE text \o value \o <<Separator(options[i].type)>>]

(* A round of the loop of getURI(), after `text`: it writes an option and  *)
(* a separator, and fails when there is no room for either.                *)
Join(text, i) ==
  LET first == options[i].type = "Query" /\ \A j \in 1 .. i - 1 : options[j].type # "Query"
      base  == IF first THEN ReplaceAt(text, Len(text), "?") ELSE text
      value == options[i].value
  IN IF Len(value) > Room(base) THEN [step |-> "Failed", text |-> base]
     ELSE IF value = <<"/">> THEN [step |-> "Done", text |-> base]
     ELSE IF Room(base \o value) < 1 THEN [step |-> "Failed", text |-> base \o value]
     ELSE [step |-> "Next", text |-> base \o value \o <<Separator(options[i].type)>>]

Joined ==
  LET walk[i \in 0 .. Len(options)] ==
        IF i = 0 THEN [step |-> "Next", text |-> <<"/">>]
        ELSE IF walk[i - 1].step = "Next" THEN Join(walk[i - 1].text, i) ELSE walk[i - 1]
  IN walk[Len(options)]

(* The last separator is removed.  Where getURI() fails it leaves what it  *)
(* has written.                                                            *)
ReadUri ==
  [failed |-> Joined.step = "Failed",
   text   |-> IF Joined.step = "Next" THEN Front(Joined.text) ELSE Joined.text]

GetURI ==
  /\ options # <<>> /\ read = Unread
  /\ read' = ReadUri
  /\ UNCHANGED <<uri, options>>

UriNext == SetURI \/ GetURI

UriSpec == UriInit /\ [][UriNext]_uriVars

-----------------------------------------------------------------------------
(* Properties.                                                             *)

Separators == {"/", "?", "&"}

(* A path of non-empty segments, with or without a query of more than one  *)
(* character, whose elements are not empty and hold no "/" or "?".         *)
WellFormed(text) ==
  LET marks == Splits(text, "?", 1)
      query == IF marks = {} THEN Len(text) + 1 ELSE Min(marks)
  IN /\ Len(text) > 1 /\ text[1] = "/" /\ text[Len(text)] \notin Separators
     /\ \A i \in 2 .. Len(text) : text[i - 1] \notin Separators \/ text[i] \notin Separators
     /\ \A i \in query + 1 .. Len(text) : text[i] \notin {"/", "?"}
     /\ query # Len(text) - 1

(* What setURI() takes apart getURI() puts together again, as long as the  *)
(* buffer has room for the URI, one more separator and the zero.           *)
RoundTrip ==
  read # Unread /\ WellFormed(uri) /\ Len(uri) + 2 <= DstLen =>
    read = [failed |-> FALSE, text |-> uri]

(* A URI that does not fit is cut, and not garbled: process_message(),     *)
(* which does not look at what getURI() returns, matches a prefix of it.   *)
CutNotGarbled == read # Unread /\ WellFormed(uri) => IsPrefix(read.text, uri)

(* Whatever the options, getURI() leaves room for the terminating zero.    *)
StaysInBuffer == Len(read.text) < DstLen

=============================================================================

------------------------------ MODULE Messages ------------------------------
(***************************************************************************)
(* What the messages of a session do: process_message() of domoio.cpp and  *)
(* its routes, the blob transfer of actions.cpp with its buffer on the     *)
(* heap, the ports, and the messages of message.cpp the application sends. *)
(*                                                                         *)
(* The server (external) transfers one blob at a time, its chunks in       *)
(* order, with requests in between.  The stream holds whole frames and     *)
(* loses what was not read when the connection is replaced (Session,       *)
(* Framing); a new connection starts its transfer anew.  A message says    *)
(* where the transfer was before it and is behind it: `from` and `to` are  *)
(* pairs of a blob and the index of the chunk that is due, or Idle.        *)
(***************************************************************************)
EXTENDS Ports, Codec, SequencesExt

CONSTANTS
  Blobs,       \* what the server may transfer
  Length,      \* of each blob, in bytes: two bytes hold it
  Chunk,       \* CHUNK_LENGTH
  PortLists,   \* what the payload of a message about ports may hold
  Values,      \* what the application reports: ints (type 0) and floats
  Texts,       \* what it logs, as bytes
  MaxStream,   \* bound: unread frames
  MaxCuts      \* bound: connections replaced since the restart

ASSUME BlobAssumption ==
  /\ Blobs \subseteq Nat \ {0}
  /\ Length \in [Blobs -> Nat]
  /\ Chunk \in Nat \ {0}

ASSUME ValueAssumption ==
  \A v \in Values :
    /\ v.port \in Nat /\ v.port < 2^16
    /\ \/ v.type = 0 /\ v.value \in Int32
       \/ v.type = 1 /\ v.value \in Normal \cup {ZeroFloat}

(* One value of the payload of a message about ports.                      *)
Entry == [port : Nat, type : Nat, bytes : [1 .. 4 -> 0 .. 255]]

ASSUME PortListAssumption == PortLists \subseteq Seq(Entry)

ASSUME BoundAssumption == {MaxStream, MaxCuts} \subseteq Nat

VARIABLES
  stream,         \* frames sent to the device and not yet read, oldest first
  next,           \* how far the transfer is at the server
  block,          \* where chunk_buffer points: "Null", "Live" or "Freed"
  cells,          \* what that block holds
  received,
  lost,           \* blocks that are allocated and nothing points to
  ota_requested,
  cuts,           \* connections replaced since the restart
  sent,           \* the frame the device wrote in the last step
  meant           \* the values the application put into it

buffer == <<block, cells, received, lost>>
vars   == <<board, buffer, stream, next, ota_requested, cuts, sent, meant>>

Idle == <<0, 0>>

Lesser(a, b) == IF a < b THEN a ELSE b

(* What chunk i of a blob carries.                                         *)
Carried(b, i) == Lesser(Length[b] - Chunk * i, Chunk)

(* /set carries a value: the handler does not look whether it does.        *)
Messages(at) ==
  [uri : {"set_ports"}, ports : PortLists, from : {at}, to : {at}]
    \cup [uri : {"set"}, ports : PortLists \ {<<>>}, from : {at}, to : {at}]
    \cup [uri : {"ping", "flash_url", "other"}, ports : {<<>>}, from : {at}, to : {at}]

Transfer(u, from, to) == [uri |-> u, ports |-> <<>>, from |-> from, to |-> to]
StartOf(b)    == Transfer("blob_start", Idle, <<b, 0>>)
ChunkOf(b, i) == Transfer("blob_chunk", <<b, i>>, <<b, i + 1>>)
EndOf(b, i)   == Transfer("blob_end", <<b, i>>, Idle)

NoFrame == [type |-> "none", uri |-> "none", payload |-> <<>>]

Quiet == sent' = NoFrame /\ meant' = <<>>

Init ==
  /\ value = OffBoard.value /\ level = OffBoard.level
  /\ block = "Null" /\ cells = <<>> /\ received = 0 /\ lost = 0
  /\ stream = <<>> /\ next = Idle
  /\ ota_requested = FALSE /\ cuts = 0
  /\ sent = NoFrame /\ meant = <<>>

(* A reset, an exception of the CPU included: the RAM is lost, and setup() *)
(* runs init_ports().                                                      *)
Restart ==
  /\ Becomes(OffBoard)
  /\ block' = "Null" /\ cells' = <<>> /\ received' = 0 /\ lost' = 0
  /\ stream' = <<>> /\ next' = Idle
  /\ ota_requested' = FALSE /\ cuts' = 0
  /\ Quiet

-----------------------------------------------------------------------------
(* The server.                                                             *)

Deliver(m) ==
  /\ Len(stream) < MaxStream
  /\ stream' = Append(stream, m) /\ next' = m.to
  /\ Quiet /\ UNCHANGED <<board, buffer, ota_requested, cuts>>

ServerSends ==
  \/ \E m \in Messages(next) : Deliver(m)
  \/ next = Idle /\ \E b \in Blobs : Deliver(StartOf(b))
  \/ /\ next # Idle
     /\ LET b == next[1]  i == next[2]
        IN Deliver(IF Chunk * i < Length[b] THEN ChunkOf(b, i) ELSE EndOf(b, i))

(* The connection breaks; the device logs in on another one.               *)
Cut ==
  /\ cuts < MaxCuts
  /\ cuts' = cuts + 1
  /\ stream' = <<>> /\ next' = Idle
  /\ Quiet /\ UNCHANGED <<board, buffer, ota_requested>>

-----------------------------------------------------------------------------
(* The device.                                                             *)

Routes_Bug ==
  <<"set", "set_ports", "blob_start", "blob_chunk", "blob_end", "flash_url", "ping">>

(* The beginnings of a URI, in the order they are compared in.             *)
Routes ==
  <<"set_ports", "blob_start", "blob_chunk", "blob_end", "set", "flash_url", "ping">>

Fits(uri, route) == uri = route \/ (uri = "set_ports" /\ route = "set")

Route(uri) ==
  LET fitting == {i \in DOMAIN Routes : Fits(uri, Routes[i])}
  IN IF fitting = {} THEN "none" ELSE Routes[Min(fitting)]

Arrived(route) ==
  /\ stream # <<>> /\ ~ota_requested
  /\ Route(stream[1].uri) = route

Consumed == stream' = Tail(stream) /\ UNCHANGED <<next, cuts>>

send_confirmation ==
  sent' = [type |-> "Ack", uri |-> "none", payload |-> <<>>] /\ meant' = <<>>

(* One entry of a payload: a value of another type than int is passed over.*)
Applied(b, entry) ==
  IF entry.type = 0 THEN WithPort(b, entry.port, buff32_to_int(entry.bytes)) ELSE b

SetPorts ==
  /\ Arrived("set_ports")
  /\ Becomes(FoldLeft(Applied, Board, stream[1].ports))
  /\ send_confirmation /\ Consumed
  /\ UNCHANGED <<buffer, ota_requested>>

(* /set looks at the first value of its payload.                           *)
Set ==
  /\ Arrived("set")
  /\ Becomes(Applied(Board, stream[1].ports[1]))
  /\ send_confirmation /\ Consumed
  /\ UNCHANGED <<buffer, ota_requested>>

(* malloc() succeeds or not; the pointer to a block that was not freed is  *)
(* overwritten.                                                            *)
Allocated(n) ==
  /\ lost' = lost + (IF block = "Live" THEN 1 ELSE 0)
  /\ \/ block' = "Live" /\ cells' = [k \in 0 .. n - 1 |-> "Junk"]
     \/ block' = "Null" /\ cells' = <<>>

start_transfer_SizeBug ==
  /\ Arrived("blob_start")
  /\ Allocated(Length[stream[1].to[1]])
  /\ received' = 0
  /\ Consumed /\ Quiet /\ UNCHANGED <<board, ota_requested>>

start_transfer_CountBug ==
  /\ Arrived("blob_start")
  /\ Allocated(Length[stream[1].to[1]] + 1)
  /\ received' = received
  /\ Consumed /\ Quiet /\ UNCHANGED <<board, ota_requested>>

start_transfer ==
  /\ Arrived("blob_start")
  /\ Allocated(Length[stream[1].to[1]] + 1)
  /\ received' = 0
  /\ Consumed /\ Quiet /\ UNCHANGED <<board, ota_requested>>

(* A null pointer is an exception.  What a write outside the block or to a *)
(* freed one does is left out: InBounds says there is none.                *)
process_chunk ==
  /\ Arrived("blob_chunk")
  /\ LET b == stream[1].from[1]  i == stream[1].from[2]
         start == Chunk * i
         length == Carried(b, i)
     IN IF block = "Null"
        THEN Restart
        ELSE /\ received' = received + length
             /\ cells' = [k \in DOMAIN cells |->
                            IF k \in start .. start + length - 1 THEN <<b, k>> ELSE cells[k]]
             /\ Consumed /\ Quiet /\ UNCHANGED <<board, block, lost, ota_requested>>

finish_transfer_Bug ==
  /\ Arrived("blob_end")
  /\ IF block = "Null"
     THEN Restart
     ELSE /\ block' = block /\ cells' = cells /\ received' = 0
          /\ Consumed /\ Quiet /\ UNCHANGED <<board, lost, ota_requested>>

(* The terminating zero is written before the block is freed.  The MD5 of  *)
(* the blob is compared for a log message only.                            *)
finish_transfer ==
  /\ Arrived("blob_end")
  /\ IF block = "Null"
     THEN Restart
     ELSE /\ block' = "Freed" /\ cells' = <<>> /\ received' = 0
          /\ Consumed /\ Quiet /\ UNCHANGED <<board, lost, ota_requested>>

FlashUrl ==
  /\ Arrived("flash_url")
  /\ ota_requested' = TRUE
  /\ send_confirmation /\ Consumed
  /\ UNCHANGED <<board, buffer>>

Ping ==
  /\ Arrived("ping")
  /\ send_confirmation /\ Consumed
  /\ UNCHANGED <<board, buffer, ota_requested>>

(* A frame that is no valid PDU, or of no known URI.                       *)
Ignored ==
  /\ Arrived("none")
  /\ Consumed /\ Quiet
  /\ UNCHANGED <<board, buffer, ota_requested>>

(* loop() runs the update in the turn it was scheduled in, which ends in a *)
(* reset whether it succeeds or not (Lifecycle).                           *)
RunUpdate == ota_requested /\ Restart

PowerCycle == Restart

-----------------------------------------------------------------------------
(* What the application sends, from its callbacks and watchers.            *)

binary(v) ==
  LET id  == i2buff(v.port)
      val == IF v.type = 0 THEN int_to_buff32(v.value) ELSE float_to_buff32(v.value)
  IN <<id[1], id[2], v.type, val[1], val[2], val[3], val[4]>>

(* Message::send(): the `else` of the default settings belongs to the test *)
(* for SET_PORTS alone.                                                    *)
SendMessage(action, payload) ==
  sent' = [type    |-> IF action = "set_ports" THEN "Con" ELSE "Non",
           uri     |-> action,
           payload |-> payload]

(* A bound: the application speaks when there is nothing to read.          *)
Application == stream = <<>> /\ UNCHANGED <<board, buffer, stream, next, ota_requested, cuts>>

send_port_change(v) ==
  Application /\ SendMessage("set_port", binary(v)) /\ meant' = <<v>>

send_ports_change(v, w) ==
  Application /\ SendMessage("set_ports", binary(v) \o binary(w)) /\ meant' = <<v, w>>

remote_log(text) ==
  Application /\ SendMessage("log", text) /\ meant' = <<>>

(* send_json() and request_config() fill their PDUs themselves.            *)
send_json(text) ==
  /\ Application
  /\ sent' = [type |-> "Con", uri |-> "json", payload |-> text] /\ meant' = <<>>

request_config ==
  /\ Application
  /\ sent' = [type |-> "Con", uri |-> "config", payload |-> <<>>] /\ meant' = <<>>

ApplicationSends ==
  \/ \E v \in Values : send_port_change(v)
  \/ \E v, w \in Values : send_ports_change(v, w)
  \/ \E text \in Texts : remote_log(text) \/ send_json(text)
  \/ request_config

Process ==
  \/ SetPorts \/ Set \/ start_transfer \/ process_chunk \/ finish_transfer
  \/ FlashUrl \/ Ping \/ Ignored

Next == ServerSends \/ Cut \/ Process \/ RunUpdate \/ PowerCycle \/ ApplicationSends

Spec == Init /\ [][Next]_vars

-----------------------------------------------------------------------------
(* Where the transfer is for the device.                                   *)
Reached == IF stream = <<>> THEN next ELSE stream[1].from

(* The frames in the stream continue each other up to where the server is. *)
Chained ==
  /\ \A i \in 1 .. Len(stream) - 1 : stream[i].to = stream[i + 1].from
  /\ stream # <<>> => stream[Len(stream)].to = next

(* The buffer holds what was transferred, or the allocation failed.        *)
HoldsTransferred ==
  Reached # Idle /\ block # "Null" =>
    /\ block = "Live"
    /\ DOMAIN cells = 0 .. Length[Reached[1]]
    /\ received = Lesser(Chunk * Reached[2], Length[Reached[1]])
    /\ \A k \in 0 .. received - 1 : cells[k] = <<Reached[1], k>>

Positions == {Idle} \cup UNION {{<<b, i>> : i \in 0 .. Length[b]} : b \in Blobs}

(* The messages of the server.                                             *)
Request(m) == \E at \in Positions : m \in Messages(at)
Started(m) == \E b \in Blobs : m = StartOf(b)
Chunked(m) ==
  \E b \in Blobs : \E i \in 0 .. Length[b] : Chunk * i < Length[b] /\ m = ChunkOf(b, i)
Ended(m) ==
  \E b \in Blobs : \E i \in 0 .. Length[b] : Chunk * i >= Length[b] /\ m = EndOf(b, i)

Frame ==
  [uri : {"set", "set_ports", "ping", "flash_url", "other"}
           \cup {"blob_start", "blob_chunk", "blob_end"},
   ports : PortLists \cup {<<>>}, from : Positions, to : Positions]

TypeOK ==
  /\ stream \in Seq(Frame)
  /\ \A k \in DOMAIN stream :
       \/ Request(stream[k]) \/ Started(stream[k])
       \/ Chunked(stream[k]) \/ Ended(stream[k])
  /\ next \in Positions
  /\ block \in {"Null", "Live", "Freed"}
  /\ {received, lost, cuts} \subseteq Nat
  /\ ota_requested \in BOOLEAN

(* start_transfer() loses a block for a connection that was replaced in    *)
(* the middle of a transfer, and for nothing else (actions.cpp:15).        *)
LeaksOnlyCut == lost + (IF block = "Live" /\ Reached = Idle THEN 1 ELSE 0) <= cuts

(* The inductive invariant of MessagesProofs: the stream goes on from what *)
(* start_transfer(), process_chunk() and finish_transfer() made of the     *)
(* buffer so far (actions.cpp:10-48).                                      *)
MInv == TypeOK /\ Chained /\ HoldsTransferred /\ LeaksOnlyCut

(* Every chunk and the terminating zero are written inside a block that is *)
(* allocated, although neither process_chunk() nor finish_transfer() looks *)
(* (actions.cpp:28, 33).                                                   *)
InBounds ==
  /\ Arrived("blob_chunk") /\ block # "Null" =>
       /\ block = "Live"
       /\ LET b == stream[1].from[1]  i == stream[1].from[2]
          IN Chunk * i .. Chunk * i + Carried(b, i) - 1 \subseteq DOMAIN cells
  /\ Arrived("blob_end") /\ block # "Null" => block = "Live" /\ received \in DOMAIN cells

(* What finish_transfer() takes the MD5 of is the blob, whatever was cut   *)
(* off before its transfer began (actions.cpp:33-40).                      *)
Intact ==
  Arrived("blob_end") /\ block # "Null" =>
    LET b == stream[1].from[1]
    IN received = Length[b] /\ \A k \in 0 .. Length[b] - 1 : cells[k] = <<b, k>>

(* The entries of a message that set a port to a value buff32_to_int() can *)
(* read.                                                                   *)
Entries(m) ==
  {i \in DOMAIN m.ports :
     /\ m.uri = "set_ports" \/ (m.uri = "set" /\ i = 1)
     /\ m.ports[i].type = 0}

(* Reading a frame changes the ports it names and no other: process_message*)
(* () takes the route that is meant (domoio.cpp:212-277), the last of the  *)
(* values of a port holds, set_value() shows it at the pin (port.cpp:29-42)*)
(* and buff32_to_int() reads it unless it has bits 16 to 23 (tools.cpp:24).*)
Obeyed ==
  (stream # <<>> /\ stream' = Tail(stream) /\ ~Restart /\ cuts' = cuts) =>
    \A p \in PortIds :
      LET named == {i \in Entries(stream[1]) : stream[1].ports[i].port = p}
          last  == CHOOSE i \in named : \A j \in named : j <= i
          v     == IntOf(stream[1].ports[last].bytes)
      IN IF named = {}
         THEN value'[p] = value[p] /\ level'[p] = level[p]
         ELSE stream[1].ports[last].bytes[2] = 0 =>
                /\ p \notin Low => value'[p] = v
                /\ p \in Digital => On(p)' = (v # 0)

Obeys == [][Obeyed]_vars

(* The seven bytes of a payload behind `at`, read by the other end.        *)
Tells(payload, at, v) ==
  LET val == [k \in 1 .. 4 |-> payload[at + 3 + k]]
  IN /\ buff2i(<<payload[at + 1], payload[at + 2]>>) = v.port /\ payload[at + 3] = v.type
     /\ v.value = IF v.type = 0 THEN IntOf(val) ELSE FloatOf(val)

(* The server reads from a message of the application what the application *)
(* meant: int_to_buff32() and float_to_buff32() write what IntOf and       *)
(* FloatOf, the formats of the other end, read, in the order of the values *)
(* (message.cpp:69-104).                                                   *)
SentAsMeant ==
  sent.uri \in {"set_port", "set_ports"} =>
    /\ Len(sent.payload) = 7 * Len(meant)
    /\ \A i \in DOMAIN meant : Tells(sent.payload, 7 * (i - 1), meant[i])

(* Message::send() sets type and URI for the action of the message, and    *)
(* says "Default settings" of what the others get (message.cpp:30-53).     *)
SetByItsAction == sent.uri \in {"log", "set_port", "set_ports"} => sent.type = "Con"

=============================================================================

--------------------------- MODULE MessagesProofs ---------------------------
(***************************************************************************)
(* Proofs about Messages: the chunks of a blob are written where the block *)
(* is, whatever the lengths of the blobs and of a chunk, the requests in   *)
(* between, the connections that break and the allocations that fail.      *)
(***************************************************************************)
EXTENDS Messages, SequenceTheorems, WellFoundedInduction, TLAPS

-----------------------------------------------------------------------------
(* Numbers and bytes.                                                      *)

(* Dividing by 256 again and again takes a number apart into bytes.        *)
LEMMA ByteByByte ==
  ASSUME NEW v \in Int
  PROVE  /\ v = 256 * (v \div 256) + (v % 256)
         /\ v \div 256 = 256 * (v \div 65536) + ((v \div 256) % 256)
         /\ v \div 65536 = 256 * (v \div 16777216) + ((v \div 65536) % 256)
OBVIOUS

(* The sign is in the highest byte.                                        *)
LEMMA TopByte ==
  ASSUME NEW v \in Int, -128 <= v, v <= 127
  PROVE  SignedByte(v % 256) = v
BY DEF SignedByte

(* Every int of 32 bits is read back as it was (tools.cpp:15-20).          *)
THEOREM IntsArrive ==
  ASSUME NEW v \in Int32
  PROVE  IntOf(int_to_buff32(v)) = v
<1>1. v \in Int /\ v \div 2^24 \in Int /\ -128 <= v \div 2^24 /\ v \div 2^24 <= 127
  BY DEF Int32
<1>2. SignedByte((v \div 2^24) % 256) = v \div 2^24
  BY <1>1, TopByte
<1>3. IntOf(int_to_buff32(v)) =
        2^24 * (v \div 2^24) + 2^16 * ((v \div 2^16) % 256) + 2^8 * ((v \div 2^8) % 256) + (v % 256)
  BY <1>2 DEF IntOf, int_to_buff32
<1> QED  BY <1>1, <1>3, ByteByByte

(* Every normal float is read back as it was (tools.cpp:28-42).            *)
THEOREM FloatsArrive ==
  ASSUME NEW f \in Normal
  PROVE  FloatOf(float_to_buff32(f)) = f
<1> DEFINE e == f.exp + 126
           b == float_to_buff32(f)
           sign == IF f.neg THEN 128 ELSE 0
<1>1. /\ f.neg \in BOOLEAN /\ f.exp \in Int /\ f.mant \in Int
      /\ f = [neg |-> f.neg, mant |-> f.mant, exp |-> f.exp]
  BY DEF Normal
<1>2. e \in Int /\ 1 <= e /\ e <= 254 /\ BiasedExponent(f) = e
  BY DEF Normal, BiasedExponent
<1>3. /\ b[1] = sign + (e \div 2)
      /\ b[2] = (128 * (e % 2)) + ((f.mant \div 65536) % 128)
      /\ b[3] = (f.mant \div 256) % 256
      /\ b[4] = f.mant % 256
  BY <1>2 DEF float_to_buff32
<1>4. e \div 2 \in Int /\ 0 <= e \div 2 /\ e \div 2 <= 127 /\ e = 2 * (e \div 2) + (e % 2)
  BY <1>2
<1>5. (b[1] >= 128) = f.neg /\ b[1] % 128 = e \div 2
  BY <1>1, <1>3, <1>4
<1>6. b[2] \div 128 = e % 2 /\ b[2] % 128 = (f.mant \div 65536) % 128
  <2>1. PICK x \in 0 .. 1 : x = e % 2  BY <1>2
  <2>2. PICK y \in Int : y = (f.mant \div 65536) % 128 /\ 0 <= y /\ y < 128  BY <1>1
  <2>3. b[2] = 128 * x + y  BY <1>3, <2>1, <2>2
  <2>4. b[2] \div 128 = x /\ b[2] % 128 = y  BY <2>2, <2>3
  <2> QED  BY <2>1, <2>2, <2>4
<1>7. f.mant \div 65536 = 128 + ((f.mant \div 65536) % 128)
  BY <1>1 DEF Normal
<1>8. f.mant = 2^23 + 2^16 * (b[2] % 128) + 2^8 * b[3] + b[4]
  BY <1>1, <1>3, <1>6, <1>7, ByteByByte
<1>81. b[1] \in Int /\ b[2] \in Int /\ b[3] \in Int /\ b[4] \in Int
  BY <1>1, <1>2, <1>3
<1> HIDE DEF b, e, sign
<1>9. 2 * (b[1] % 128) + (b[2] \div 128) = e
  BY <1>4, <1>5, <1>6
<1>10. FloatOf(b) = [neg |-> b[1] >= 128, mant |-> f.mant, exp |-> e - 126]
  BY <1>1, <1>2, <1>8, <1>81, <1>9 DEF FloatOf
<1>11. e - 126 = f.exp  BY <1>1 DEF e
<1> QED  BY <1>1, <1>5, <1>10, <1>11 DEF b

(* buff32_to_int() is right for the numbers without bits 16 to 23, and for *)
(* no other (tools.cpp:23-25).                                             *)
THEOREM IntsRead ==
  ASSUME NEW b \in [1 .. 4 -> Int]
  PROVE  buff32_to_int(b) = IntOf(b) <=> b[2] = 0
BY DEF buff32_to_int, IntOf, SignedByte

-----------------------------------------------------------------------------
(* Blobs.                                                                  *)

LEMMA Constants ==
  /\ Chunk \in Nat /\ Chunk > 0
  /\ \A b \in Blobs : Length[b] \in Nat /\ b # 0
BY BlobAssumption

(* A chunk carries on where the ones before it end, inside the blob.       *)
LEMMA ChunkStep ==
  ASSUME NEW b \in Blobs, NEW i \in Nat, Chunk * i < Length[b]
  PROVE  /\ i + 1 \in 0 .. Length[b]
         /\ Carried(b, i) \in Nat /\ Chunk * i + Carried(b, i) <= Length[b]
         /\ Lesser(Chunk * i, Length[b]) = Chunk * i
         /\ Lesser(Chunk * (i + 1), Length[b]) = Chunk * i + Carried(b, i)
<1>1. Chunk \in Nat /\ Chunk > 0 /\ Length[b] \in Nat  BY Constants
<1>2. PICK p \in Nat : p = Chunk * i  BY <1>1
<1>3. Chunk * (i + 1) = p + Chunk  BY <1>1, <1>2
<1>4. i <= p  BY <1>1, <1>2
<1>5. i + 1 \in 0 .. Length[b]  BY <1>1, <1>2, <1>4
<1>6. Carried(b, i) = IF Length[b] - p < Chunk THEN Length[b] - p ELSE Chunk
  BY <1>2 DEF Carried, Lesser
<1> QED  BY <1>1, <1>2, <1>3, <1>5, <1>6 DEF Lesser

(* The route of a URI is one it begins with, if there is one.              *)
LEMMA RouteFits ==
  ASSUME NEW u
  PROVE  /\ Route(u) # "none" => Fits(u, Route(u))
         /\ Route(u) = "none" => \A i \in DOMAIN Routes : ~Fits(u, Routes[i])
<1> DEFINE fitting == {i \in DOMAIN Routes : Fits(u, Routes[i])}
<1>1. CASE fitting = {}  BY <1>1 DEF Route
<1>2. CASE fitting # {}
  <2>1. PICK m \in fitting : \A j \in fitting : m <= j
    BY <1>2 DEF Routes
  <2>2. Min(fitting) \in fitting  BY <2>1 DEF Min
  <2>3. Route(u) = Routes[Min(fitting)]  BY <1>2 DEF Route
  <2>4. Routes[Min(fitting)] # "none"  BY <2>2 DEF Routes
  <2> QED  BY <2>2, <2>3, <2>4
<1> QED  BY <1>1, <1>2

(* The messages of a transfer reach their handlers and no other.           *)
LEMMA Handlers ==
  ASSUME NEW u, NEW r, Route(u) = r,
         r = "blob_start" \/ r = "blob_chunk" \/ r = "blob_end"
           \/ u = "blob_start" \/ u = "blob_chunk" \/ u = "blob_end"
  PROVE  u = r
<1>1. CASE r = "none"  BY <1>1, RouteFits DEF Routes, Fits
<1>2. CASE r # "none"  BY <1>2, RouteFits DEF Fits
<1> QED  BY <1>1, <1>2

(* A message appended to the stream follows from what is there.            *)
LEMMA Appended ==
  ASSUME stream \in Seq(Frame), Chained, NEW m \in Frame, m.from = next,
         stream' = Append(stream, m), next' = m.to
  PROVE  Chained' /\ Reached' = Reached
<1>1. /\ stream' \in Seq(Frame) /\ Len(stream') = Len(stream) + 1
      /\ stream' # <<>> /\ stream'[Len(stream')] = m
      /\ \A k \in 1 .. Len(stream) : stream'[k] = stream[k]
  OBVIOUS
<1>2. CASE stream = <<>>  BY <1>1, <1>2 DEF Chained, Reached
<1>3. CASE stream # <<>>
  <2>1. Len(stream) \in Nat \ {0}  BY <1>3
  <2>2. Reached' = Reached  BY <1>1, <1>3, <2>1 DEF Reached
  <2>3. ASSUME NEW k \in 1 .. Len(stream') - 1
        PROVE  stream'[k].to = stream'[k + 1].from
    <3>1. CASE k < Len(stream)  BY <1>1, <2>1, <3>1 DEF Chained
    <3>2. CASE k = Len(stream)  BY <1>1, <1>3, <2>1, <3>2 DEF Chained
    <3> QED  BY <1>1, <2>1, <2>3, <3>1, <3>2
  <2> QED  BY <1>1, <2>2, <2>3 DEF Chained
<1> QED  BY <1>2, <1>3

(* Reading a message moves the device to where the message leads.          *)
LEMMA Read ==
  ASSUME stream \in Seq(Frame), stream # <<>>, Chained,
         stream' = Tail(stream), next' = next
  PROVE  /\ Chained' /\ Reached' = stream[1].to
         /\ \A k \in DOMAIN stream' : k + 1 \in DOMAIN stream /\ stream'[k] = stream[k + 1]
<1>1. /\ stream' \in Seq(Frame) /\ Len(stream') = Len(stream) - 1
      /\ Len(stream) \in Nat \ {0} /\ DOMAIN stream = 1 .. Len(stream)
      /\ DOMAIN stream' = 1 .. Len(stream')
      /\ \A k \in 1 .. Len(stream) - 1 : stream'[k] = stream[k + 1]
  OBVIOUS
<1>2. CASE Len(stream) = 1
  <2>1. stream' = <<>>  BY <1>1, <1>2, EmptySeq
  <2>2. Reached' = stream[1].to  BY <1>2, <2>1 DEF Chained, Reached
  <2>3. Chained'
    <3>1. Len(stream') = 0  BY <1>1, <1>2
    <3> QED  BY <2>1, <3>1 DEF Chained
  <2> QED  BY <1>1, <1>2, <2>2, <2>3
<1>3. CASE Len(stream) # 1
  <2>0. Len(<<>>) = 0  BY EmptySeq
  <2>1. stream' # <<>> /\ Len(stream') \in Nat \ {0}
    <3>1. Len(stream') \in Nat \ {0}  BY <1>1, <1>3
    <3>2. ASSUME stream' = <<>> PROVE FALSE
      <4>1. Len(stream') = 0  BY <2>0, <3>2
      <4> QED  BY <3>1, <4>1
    <3> QED  BY <3>1, <3>2
  <2>2. Reached' = stream[1].to  BY <1>1, <1>3, <2>1 DEF Chained, Reached
  <2>3. \A k \in 1 .. Len(stream') - 1 : stream'[k].to = stream'[k + 1].from
    BY <1>1, <2>1 DEF Chained
  <2>4. stream'[Len(stream')].to = next'
    BY <1>1, <1>3, <2>1 DEF Chained
  <2> QED  BY <1>1, <2>1, <2>2, <2>3, <2>4 DEF Chained
<1> QED  BY <1>2, <1>3

(* What is known of the message that is read next.                         *)
LEMMA Kind ==
  ASSUME TypeOK, stream # <<>>
  PROVE  /\ stream[1] \in Frame
         /\ stream[1].uri = "blob_start" => Started(stream[1])
         /\ stream[1].uri = "blob_chunk" => Chunked(stream[1])
         /\ stream[1].uri = "blob_end" => Ended(stream[1])
         /\ stream[1].uri \notin {"blob_start", "blob_chunk", "blob_end"}
              => stream[1].from = stream[1].to
<1>1. 1 \in DOMAIN stream /\ stream[1] \in Frame
  BY EmptySeq DEF TypeOK
<1>2. \/ Request(stream[1]) \/ Started(stream[1])
      \/ Chunked(stream[1]) \/ Ended(stream[1])
  BY <1>1 DEF TypeOK
<1>3. Request(stream[1]) =>
         /\ stream[1].uri \notin {"blob_start", "blob_chunk", "blob_end"}
         /\ stream[1].from = stream[1].to
  BY DEF Request, Messages
<1>4. Started(stream[1]) => stream[1].uri = "blob_start"
  BY DEF Started, StartOf, Transfer
<1>5. Chunked(stream[1]) => stream[1].uri = "blob_chunk"
  BY DEF Chunked, ChunkOf, Transfer
<1>6. Ended(stream[1]) => stream[1].uri = "blob_end"
  BY DEF Ended, EndOf, Transfer
<1> QED  BY <1>1, <1>2, <1>3, <1>4, <1>5, <1>6

LEMMA InitMInv == Init => MInv
<1> SUFFICES ASSUME Init PROVE MInv  OBVIOUS
<1>1. TypeOK
  <2>1. stream \in Seq(Frame) /\ DOMAIN stream = {}  BY EmptySeq DEF Init
  <2>2. next \in Positions /\ block = "Null" /\ received = 0 /\ lost = 0 /\ cuts = 0
    BY DEF Init, Positions
  <2>3. ota_requested \in BOOLEAN  BY DEF Init
  <2> QED  BY <2>1, <2>2, <2>3 DEF TypeOK
<1>2. Chained  BY EmptySeq DEF Init, Chained
<1>3. HoldsTransferred  BY DEF Init, HoldsTransferred, Reached
<1>4. LeaksOnlyCut  BY DEF Init, LeaksOnlyCut
<1> QED  BY <1>1, <1>2, <1>3, <1>4 DEF MInv

(* The stream and the transfer are back at the beginning: after a restart  *)
(* and on a new connection.                                                *)
LEMMA Anew ==
  ASSUME TypeOK, stream' = <<>>, next' = Idle,
         block' = block \/ block' = "Null",
         received' \in Nat, lost' \in Nat, cuts' \in Nat, ota_requested' \in BOOLEAN,
         lost' + (IF block' = "Live" THEN 1 ELSE 0) <= cuts'
  PROVE  MInv'
<1>1. TypeOK'  BY EmptySeq DEF TypeOK, Positions
<1>2. Chained'  BY EmptySeq DEF Chained
<1>3. HoldsTransferred'  BY DEF HoldsTransferred, Reached
<1>4. LeaksOnlyCut'
  <2>1. Reached' = Idle  BY DEF Reached
  <2> QED  BY <2>1 DEF LeaksOnlyCut
<1> QED  BY <1>1, <1>2, <1>3, <1>4 DEF MInv

LEMMA DeliverMInv ==
  ASSUME MInv, NEW m, Deliver(m), m.from = next, m \in Frame,
         Request(m) \/ Started(m) \/ Chunked(m) \/ Ended(m)
  PROVE  MInv'
<1> USE DEF MInv, Deliver
<1>1. TypeOK'
  <2>1. stream' \in Seq(Frame)  BY AppendProperties DEF TypeOK
  <2>2. ASSUME NEW k \in DOMAIN stream'
        PROVE  \/ Request(stream'[k]) \/ Started(stream'[k])
               \/ Chunked(stream'[k]) \/ Ended(stream'[k])
    <3>1. CASE k \in DOMAIN stream
      <4>1. stream'[k] = stream[k]  BY <3>1 DEF TypeOK
      <4> QED  BY <3>1, <4>1 DEF TypeOK
    <3>2. CASE k \notin DOMAIN stream
      <4>1. stream'[k] = m  BY <2>2, <3>2, AppendProperties DEF TypeOK
      <4> QED  BY <4>1
    <3> QED  BY <3>1, <3>2
  <2>3. next' \in Positions  BY DEF Frame
  <2>4. UNCHANGED <<block, received, lost, cuts, ota_requested>>  BY DEF buffer
  <2> QED  BY <2>1, <2>2, <2>3, <2>4 DEF TypeOK
<1>2. Chained' /\ Reached' = Reached  BY Appended DEF TypeOK
<1>3. HoldsTransferred' /\ LeaksOnlyCut'
  BY <1>2 DEF HoldsTransferred, LeaksOnlyCut, buffer
<1> QED  BY <1>1, <1>2, <1>3

(* TypeOK holds after a message was read, if it holds for the buffer.      *)
LEMMA ReadTypeOK ==
  ASSUME MInv, stream # <<>>, Consumed,
         block' \in {"Null", "Live", "Freed"}, received' \in Nat, lost' \in Nat,
         ota_requested' \in BOOLEAN
  PROVE  TypeOK' /\ Chained' /\ Reached' = stream[1].to
<1> USE DEF MInv, Consumed
<1>1. stream' \in Seq(Frame)  BY HeadTailProperties DEF TypeOK
<1>2. /\ Chained' /\ Reached' = stream[1].to
      /\ \A k \in DOMAIN stream' : k + 1 \in DOMAIN stream /\ stream'[k] = stream[k + 1]
  BY Read DEF TypeOK
<1>3. \A k \in DOMAIN stream' :
         \/ Request(stream'[k]) \/ Started(stream'[k])
         \/ Chunked(stream'[k]) \/ Ended(stream'[k])
  BY <1>2 DEF TypeOK
<1>4. next' \in Positions /\ cuts' \in Nat  BY DEF TypeOK
<1> QED  BY <1>1, <1>2, <1>3, <1>4 DEF TypeOK

(* What is no message of a transfer leaves the buffer alone.               *)
LEMMA OtherMInv ==
  ASSUME MInv, NEW r, Arrived(r), Consumed, UNCHANGED buffer, ota_requested' \in BOOLEAN,
         r \notin {"blob_start", "blob_chunk", "blob_end"}
  PROVE  MInv'
<1>1. stream # <<>>  BY DEF Arrived
<1>2. stream[1].uri \notin {"blob_start", "blob_chunk", "blob_end"}
  BY Handlers DEF Arrived
<1>3. stream[1].to = Reached  BY <1>1, <1>2, Kind DEF MInv, Reached
<1>4. TypeOK' /\ Chained' /\ Reached' = Reached
  BY <1>1, <1>3, ReadTypeOK DEF MInv, TypeOK, buffer
<1>5. HoldsTransferred' /\ LeaksOnlyCut'
  BY <1>4 DEF MInv, HoldsTransferred, LeaksOnlyCut, buffer, Consumed
<1> QED  BY <1>4, <1>5 DEF MInv

LEMMA StartMInv == MInv /\ start_transfer => MInv'
<1> SUFFICES ASSUME MInv, start_transfer PROVE MInv'  OBVIOUS
<1>1. stream # <<>> /\ stream[1].uri = "blob_start"
  BY Handlers DEF start_transfer, Arrived
<1>2. PICK b \in Blobs : stream[1] = StartOf(b)
  BY <1>1, Kind DEF MInv, Started
<1>3. stream[1].to = <<b, 0>>  BY <1>2 DEF StartOf, Transfer
<1>4. TypeOK' /\ Chained' /\ Reached' = <<b, 0>>
  BY <1>1, <1>3, ReadTypeOK DEF start_transfer, Allocated, MInv, TypeOK
<1>5. HoldsTransferred'
  <2> SUFFICES ASSUME block' # "Null"
               PROVE  /\ block' = "Live" /\ DOMAIN cells' = 0 .. Length[b]
                      /\ received' = Lesser(Chunk * 0, Length[b])
                      /\ \A k \in 0 .. received' - 1 : cells'[k] = <<b, k>>
    BY <1>4 DEF HoldsTransferred
  <2>1. block' = "Live" /\ cells' = [k \in 0 .. (Length[b] + 1) - 1 |-> "Junk"] /\ received' = 0
    <3>1. stream[1].to[1] = b  BY <1>3
    <3>2. Allocated(Length[b] + 1) /\ received' = 0  BY <3>1 DEF start_transfer
    <3>3. block' # "Null"  OBVIOUS
    <3> QED  BY <3>2, <3>3 DEF Allocated
  <2>2. Chunk * 0 = 0 /\ Length[b] \in Nat  BY Constants
  <2>3. Lesser(Chunk * 0, Length[b]) = 0  BY <2>2 DEF Lesser
  <2>4. 0 .. (Length[b] + 1) - 1 = 0 .. Length[b]  BY <2>2
  <2> QED  BY <2>1, <2>3, <2>4
<1>6. LeaksOnlyCut'
  <2>1. Reached = Idle  BY <1>1, <1>2 DEF StartOf, Transfer, Reached
  <2>2. <<b, 0>> # Idle  BY Constants DEF Idle
  <2>3. cuts' = cuts /\ lost' = lost + (IF block = "Live" THEN 1 ELSE 0)
    BY DEF start_transfer, Allocated, Consumed
  <2>4. {lost, cuts} \subseteq Nat  BY DEF MInv, TypeOK
  <2> QED  BY <1>4, <2>1, <2>2, <2>3, <2>4 DEF MInv, LeaksOnlyCut
<1> QED  BY <1>4, <1>5, <1>6 DEF MInv

(* What the device has to do with a chunk it reads.                        *)
LEMMA ChunkHere ==
  ASSUME MInv, Arrived("blob_chunk")
  PROVE  \E b \in Blobs : \E i \in Nat :
           /\ Chunk * i < Length[b] /\ stream[1] = ChunkOf(b, i)
           /\ Reached = <<b, i>> /\ Reached # Idle
<1>1. stream # <<>> /\ stream[1].uri = "blob_chunk"
  BY Handlers DEF Arrived
<1>2. PICK b \in Blobs : \E i \in 0 .. Length[b] :
         Chunk * i < Length[b] /\ stream[1] = ChunkOf(b, i)
  BY <1>1, Kind DEF MInv, Chunked
<1>2a. PICK i \in 0 .. Length[b] : Chunk * i < Length[b] /\ stream[1] = ChunkOf(b, i)
  BY <1>2
<1>3. Reached = <<b, i>>  BY <1>1, <1>2a DEF Reached, ChunkOf, Transfer
<1>4. b # 0 /\ i \in Nat  BY Constants
<1>5. Reached # Idle  BY <1>3, <1>4 DEF Idle
<1> QED  BY <1>2a, <1>3, <1>4, <1>5

LEMMA EndHere ==
  ASSUME MInv, Arrived("blob_end")
  PROVE  \E b \in Blobs : \E i \in Nat :
           /\ Chunk * i >= Length[b] /\ stream[1] = EndOf(b, i)
           /\ Reached = <<b, i>> /\ Reached # Idle
<1>1. stream # <<>> /\ stream[1].uri = "blob_end"
  BY Handlers DEF Arrived
<1>2. PICK b \in Blobs : \E i \in 0 .. Length[b] :
         Chunk * i >= Length[b] /\ stream[1] = EndOf(b, i)
  BY <1>1, Kind DEF MInv, Ended
<1>2a. PICK i \in 0 .. Length[b] : Chunk * i >= Length[b] /\ stream[1] = EndOf(b, i)
  BY <1>2
<1>3. Reached = <<b, i>>  BY <1>1, <1>2a DEF Reached, EndOf, Transfer
<1>4. b # 0 /\ i \in Nat  BY Constants
<1>5. Reached # Idle  BY <1>3, <1>4 DEF Idle
<1> QED  BY <1>2a, <1>3, <1>4, <1>5

LEMMA ChunkMInv == MInv /\ process_chunk /\ block # "Null" => MInv'
<1> SUFFICES ASSUME MInv, process_chunk, block # "Null" PROVE MInv'  OBVIOUS
<1>1. PICK b \in Blobs : \E i \in Nat :
         /\ Chunk * i < Length[b] /\ stream[1] = ChunkOf(b, i)
         /\ Reached = <<b, i>> /\ Reached # Idle
  BY ChunkHere DEF process_chunk
<1>2. PICK i \in Nat :
         /\ Chunk * i < Length[b] /\ stream[1] = ChunkOf(b, i)
         /\ Reached = <<b, i>> /\ Reached # Idle
  BY <1>1
<1>3. stream[1].from = <<b, i>> /\ stream[1].to = <<b, i + 1>> /\ stream # <<>>
  BY <1>2 DEF ChunkOf, Transfer, process_chunk, Arrived
<1>4. /\ received' = received + Carried(b, i)
      /\ cells' = [k \in DOMAIN cells |->
                     IF k \in Chunk * i .. Chunk * i + Carried(b, i) - 1
                     THEN <<b, k>> ELSE cells[k]]
      /\ Consumed /\ UNCHANGED <<block, lost, ota_requested>>
  BY <1>3 DEF process_chunk
<1>5. /\ block = "Live" /\ DOMAIN cells = 0 .. Length[b]
      /\ received = Lesser(Chunk * i, Length[b])
      /\ \A k \in 0 .. received - 1 : cells[k] = <<b, k>>
  BY <1>2 DEF MInv, HoldsTransferred
<1>6. Chunk * i \in Nat /\ Length[b] \in Nat  BY Constants
<1>7. /\ Carried(b, i) \in Nat /\ Chunk * i + Carried(b, i) <= Length[b]
      /\ received = Chunk * i
      /\ Lesser(Chunk * (i + 1), Length[b]) = Chunk * i + Carried(b, i)
  BY <1>2, <1>5, ChunkStep
<1>8. TypeOK' /\ Chained' /\ Reached' = <<b, i + 1>>
  BY <1>3, <1>4, <1>6, <1>7, ReadTypeOK DEF MInv, TypeOK
<1>9. /\ received' = Lesser(Chunk * (i + 1), Length[b])
      /\ DOMAIN cells' = 0 .. Length[b]
  BY <1>4, <1>5, <1>7
<1>10. ASSUME NEW k \in 0 .. received' - 1  PROVE cells'[k] = <<b, k>>
  <2>1. k \in 0 .. Length[b] /\ k \in Nat  BY <1>4, <1>6, <1>7, <1>10
  <2>2. CASE k < Chunk * i
    BY <1>4, <1>5, <1>6, <1>7, <2>1, <2>2
  <2>3. CASE k >= Chunk * i
    BY <1>4, <1>5, <1>6, <1>7, <1>10, <2>1, <2>3
  <2> QED  BY <1>6, <2>1, <2>2, <2>3
<1>11. HoldsTransferred'
  BY <1>4, <1>5, <1>8, <1>9, <1>10 DEF HoldsTransferred
<1>12. LeaksOnlyCut'
  <2>1. <<b, i + 1>> # Idle  BY Constants DEF Idle
  <2> QED  BY <1>2, <1>4, <1>8, <2>1 DEF MInv, LeaksOnlyCut, Consumed
<1> QED  BY <1>8, <1>11, <1>12 DEF MInv

LEMMA FinishMInv == MInv /\ finish_transfer /\ block # "Null" => MInv'
<1> SUFFICES ASSUME MInv, finish_transfer, block # "Null" PROVE MInv'  OBVIOUS
<1>1. \E b \in Blobs : \E i \in Nat : stream[1] = EndOf(b, i)
  BY EndHere DEF finish_transfer
<1>2. stream[1].to = Idle /\ stream # <<>>
  BY <1>1 DEF EndOf, Transfer, finish_transfer, Arrived
<1>3. TypeOK' /\ Chained' /\ Reached' = Idle
  BY <1>2, ReadTypeOK DEF finish_transfer, MInv, TypeOK
<1>4. HoldsTransferred'  BY <1>3 DEF HoldsTransferred
<1>5. LeaksOnlyCut'
  <2>1. block' = "Freed" /\ lost' = lost /\ cuts' = cuts
    BY DEF finish_transfer, Consumed
  <2>2. {lost, cuts} \subseteq Nat  BY DEF MInv, TypeOK
  <2> QED  BY <2>1, <2>2 DEF MInv, LeaksOnlyCut
<1> QED  BY <1>3, <1>4, <1>5 DEF MInv

LEMMA RestartMInv == MInv /\ Restart => MInv'
<1> SUFFICES ASSUME MInv, Restart PROVE MInv'  OBVIOUS
<1>1. /\ stream' = <<>> /\ next' = Idle /\ block' = "Null"
      /\ received' = 0 /\ lost' = 0 /\ cuts' = 0 /\ ota_requested' = FALSE
  BY DEF Restart
<1>2. lost' + (IF block' = "Live" THEN 1 ELSE 0) <= cuts'  BY <1>1
<1> QED  BY <1>1, <1>2, Anew DEF MInv

LEMMA ProcessMInv == MInv /\ Process => MInv'
<1> SUFFICES ASSUME MInv, Process PROVE MInv'  OBVIOUS
<1>1. CASE SetPorts  BY <1>1, OtherMInv DEF SetPorts, MInv, TypeOK
<1>2. CASE Set  BY <1>2, OtherMInv DEF Set, MInv, TypeOK
<1>3. CASE start_transfer  BY <1>3, StartMInv
<1>4. CASE process_chunk
  BY <1>4, ChunkMInv, RestartMInv DEF process_chunk
<1>5. CASE finish_transfer
  BY <1>5, FinishMInv, RestartMInv DEF finish_transfer
<1>6. CASE FlashUrl  BY <1>6, OtherMInv DEF FlashUrl, MInv, TypeOK
<1>7. CASE Ping  BY <1>7, OtherMInv DEF Ping, MInv, TypeOK
<1>8. CASE Ignored  BY <1>8, OtherMInv DEF Ignored, MInv, TypeOK
<1> QED  BY <1>1, <1>2, <1>3, <1>4, <1>5, <1>6, <1>7, <1>8 DEF Process

LEMMA ServerMInv == MInv /\ ServerSends => MInv'
<1> SUFFICES ASSUME MInv, ServerSends PROVE MInv'  OBVIOUS
<1>0. next \in Positions  BY DEF MInv, TypeOK
<1>1. ASSUME NEW m \in Messages(next), Deliver(m)  PROVE MInv'
  <2>1. m.from = next /\ m \in Frame /\ Request(m)
    BY <1>0, <1>1 DEF Messages, Frame, Request
  <2> QED  BY <1>1, <2>1, DeliverMInv
<1>2. ASSUME next = Idle, NEW b \in Blobs, Deliver(StartOf(b))  PROVE MInv'
  <2>1. <<b, 0>> \in Positions  BY Constants DEF Positions
  <2>2. StartOf(b).from = next /\ StartOf(b) \in Frame /\ Started(StartOf(b))
    BY <1>0, <1>2, <2>1 DEF StartOf, Transfer, Frame, Started
  <2> QED  BY <1>2, <2>2, DeliverMInv
<1>3. ASSUME next # Idle, NEW b \in Blobs, NEW i \in 0 .. Length[b], next = <<b, i>>,
             Deliver(IF Chunk * i < Length[b] THEN ChunkOf(b, i) ELSE EndOf(b, i))
      PROVE  MInv'
  <2>1. Chunk * i \in Nat /\ Length[b] \in Nat /\ i \in Nat  BY Constants
  <2>2. CASE Chunk * i < Length[b]
    <3>1. <<b, i + 1>> \in Positions  BY <2>1, <2>2, ChunkStep DEF Positions
    <3>2. /\ ChunkOf(b, i).from = next /\ ChunkOf(b, i) \in Frame
          /\ Chunked(ChunkOf(b, i))
      BY <1>0, <1>3, <2>2, <3>1 DEF ChunkOf, Transfer, Frame, Chunked
    <3> QED  BY <1>3, <2>2, <3>2, DeliverMInv
  <2>3. CASE Chunk * i >= Length[b]
    <3>1. Idle \in Positions  BY DEF Positions
    <3>2. EndOf(b, i).from = next /\ EndOf(b, i) \in Frame /\ Ended(EndOf(b, i))
      BY <1>0, <1>3, <2>3, <3>1 DEF EndOf, Transfer, Frame, Ended
    <3> QED  BY <1>3, <2>1, <2>3, <3>2, DeliverMInv
  <2> QED  BY <2>1, <2>2, <2>3
<1>4. next # Idle => \E b \in Blobs : \E i \in 0 .. Length[b] : next = <<b, i>>
  BY <1>0 DEF Positions
<1> QED  BY <1>1, <1>2, <1>3, <1>4 DEF ServerSends

LEMMA StepMInv == MInv /\ [Next]_vars => MInv'
<1> SUFFICES ASSUME MInv, [Next]_vars PROVE MInv'  OBVIOUS
<1>1. CASE ServerSends  BY <1>1, ServerMInv
<1>2. CASE Cut
  <2>1. /\ stream' = <<>> /\ next' = Idle /\ block' = block
        /\ received' \in Nat /\ lost' \in Nat /\ cuts' \in Nat
        /\ ota_requested' \in BOOLEAN
    BY <1>2 DEF Cut, MInv, TypeOK, buffer
  <2>2. lost' + (IF block' = "Live" THEN 1 ELSE 0) <= cuts'
    BY <1>2 DEF Cut, MInv, TypeOK, LeaksOnlyCut, buffer
  <2> QED  BY <2>1, <2>2, Anew DEF MInv
<1>3. CASE Process  BY <1>3, ProcessMInv
<1>4. CASE RunUpdate \/ PowerCycle  BY <1>4, RestartMInv DEF RunUpdate, PowerCycle
<1>5. CASE ApplicationSends \/ UNCHANGED vars
  <2>1. UNCHANGED <<buffer, stream, next, ota_requested, cuts>>
    BY <1>5 DEF ApplicationSends, Application, send_port_change, send_ports_change,
                remote_log, send_json, request_config, vars
  <2> QED
    BY <2>1 DEF MInv, TypeOK, Chained, HoldsTransferred, LeaksOnlyCut, Reached, buffer
<1> QED  BY <1>1, <1>2, <1>3, <1>4, <1>5 DEF Next

(* The buffer always holds what was transferred, and the stream goes on    *)
(* from there (actions.cpp:10-48).                                         *)
THEOREM BufferAgrees == Spec => []MInv
BY InitMInv, StepMInv, PTL DEF Spec

(* The chunk and the terminating zero that are written next are inside the *)
(* block, which is allocated (actions.cpp:28, 33).                         *)
THEOREM WritesInBounds == Spec => []InBounds
<1>1. MInv => InBounds
  <2> SUFFICES ASSUME MInv, block # "Null" PROVE InBounds  BY DEF InBounds
  <2>1. ASSUME Arrived("blob_chunk")
        PROVE  /\ block = "Live"
               /\ LET b == stream[1].from[1]  i == stream[1].from[2]
                  IN Chunk * i .. Chunk * i + Carried(b, i) - 1 \subseteq DOMAIN cells
    <3>1. PICK b \in Blobs : \E i \in Nat :
             /\ Chunk * i < Length[b] /\ stream[1] = ChunkOf(b, i)
             /\ Reached = <<b, i>> /\ Reached # Idle
      BY <2>1, ChunkHere
    <3>2. PICK i \in Nat :
             /\ Chunk * i < Length[b] /\ stream[1] = ChunkOf(b, i)
             /\ Reached = <<b, i>> /\ Reached # Idle
      BY <3>1
    <3>3. stream[1].from = <<b, i>>  BY <3>2 DEF ChunkOf, Transfer
    <3>4. block = "Live" /\ DOMAIN cells = 0 .. Length[b]
      BY <3>2 DEF MInv, HoldsTransferred
    <3>5. /\ Chunk * i \in Nat /\ Length[b] \in Nat /\ Carried(b, i) \in Nat
          /\ Chunk * i + Carried(b, i) <= Length[b]
      BY <3>2, Constants, ChunkStep
    <3> QED  BY <3>3, <3>4, <3>5
  <2>2. ASSUME Arrived("blob_end")  PROVE block = "Live" /\ received \in DOMAIN cells
    <3>1. PICK b \in Blobs : \E i \in Nat :
             /\ Chunk * i >= Length[b] /\ stream[1] = EndOf(b, i)
             /\ Reached = <<b, i>> /\ Reached # Idle
      BY <2>2, EndHere
    <3>2. PICK i \in Nat : Chunk * i >= Length[b] /\ Reached = <<b, i>> /\ Reached # Idle
      BY <3>1
    <3>3. /\ block = "Live" /\ DOMAIN cells = 0 .. Length[b]
          /\ received = Lesser(Chunk * i, Length[b])
      BY <3>2 DEF MInv, HoldsTransferred
    <3>4. Chunk * i \in Nat /\ Length[b] \in Nat  BY Constants
    <3> QED  BY <3>2, <3>3, <3>4 DEF Lesser
  <2> QED  BY <2>1, <2>2 DEF InBounds
<1> QED  BY <1>1, BufferAgrees, PTL

(* What finish_transfer() adds to the MD5 is the whole blob                *)
(* (actions.cpp:33-40).                                                    *)
THEOREM WholeBlob == Spec => []Intact
<1>1. MInv => Intact
  <2> SUFFICES ASSUME MInv, Arrived("blob_end"), block # "Null"
               PROVE  LET b == stream[1].from[1]
                      IN /\ received = Length[b]
                         /\ \A k \in 0 .. Length[b] - 1 : cells[k] = <<b, k>>
    BY DEF Intact
  <2>1. PICK b \in Blobs : \E i \in Nat :
           /\ Chunk * i >= Length[b] /\ stream[1] = EndOf(b, i)
           /\ Reached = <<b, i>> /\ Reached # Idle
    BY EndHere
  <2>2. PICK i \in Nat :
           /\ Chunk * i >= Length[b] /\ stream[1] = EndOf(b, i)
           /\ Reached = <<b, i>> /\ Reached # Idle
    BY <2>1
  <2>3. stream[1].from[1] = b  BY <2>2 DEF EndOf, Transfer
  <2>4. /\ received = Lesser(Chunk * i, Length[b])
        /\ \A k \in 0 .. received - 1 : cells[k] = <<b, k>>
    BY <2>2 DEF MInv, HoldsTransferred
  <2>5. Chunk * i \in Nat /\ Length[b] \in Nat  BY Constants
  <2>6. received = Length[b]  BY <2>2, <2>4, <2>5 DEF Lesser
  <2> QED  BY <2>3, <2>4, <2>6
<1> QED  BY <1>1, BufferAgrees, PTL

(* Only a connection that was replaced in the middle of a transfer leaves  *)
(* a block behind (actions.cpp:15).                                        *)
THEOREM LeaksBounded == Spec => []LeaksOnlyCut
BY BufferAgrees, PTL DEF MInv

-----------------------------------------------------------------------------
(* What the application sends.                                             *)

LEMMA ZeroBytes ==
  /\ float_to_buff32(ZeroFloat) = <<0, 0, 0, 0>>
  /\ FloatOf(float_to_buff32(ZeroFloat)) = ZeroFloat
<1>1. ZeroFloat.mant = 0 /\ ZeroFloat.neg = FALSE /\ ZeroFloat.exp = 0  BY DEF ZeroFloat
<1>2. BiasedExponent(ZeroFloat) = 0  BY <1>1 DEF BiasedExponent
<1>3. float_to_buff32(ZeroFloat) = <<0, 0, 0, 0>>
  <2>1. /\ (IF BiasedExponent(ZeroFloat) < 0
              THEN (BiasedExponent(ZeroFloat) \div 2) % 256
              ELSE (IF ZeroFloat.neg THEN 128 ELSE 0) + (BiasedExponent(ZeroFloat) \div 2)) = 0
        /\ (128 * (BiasedExponent(ZeroFloat) % 2)) + ((ZeroFloat.mant \div 2^16) % 128) = 0
        /\ (ZeroFloat.mant \div 2^8) % 256 = 0
        /\ ZeroFloat.mant % 256 = 0
    BY <1>1, <1>2
  <2> HIDE DEF ZeroFloat
  <2> QED  BY <2>1 DEF float_to_buff32
<1>4. FloatOf(<<0, 0, 0, 0>>) = [neg |-> FALSE, mant |-> 0, exp |-> 0]
  <2> DEFINE z == <<0, 0, 0, 0>>
  <2>1. z[1] = 0 /\ z[2] = 0 /\ z[3] = 0 /\ z[4] = 0  OBVIOUS
  <2> HIDE DEF z
  <2>2. /\ 2 * (z[1] % 128) + (z[2] \div 128) = 0
        /\ 2^16 * (z[2] % 128) + 2^8 * z[3] + z[4] = 0
        /\ (z[1] >= 128) = FALSE
    BY <2>1
  <2>3. FloatOf(z) = [neg |-> FALSE, mant |-> 0, exp |-> 0]  BY <2>2 DEF FloatOf
  <2> QED  BY <2>3 DEF z
<1>5. ZeroFloat = [neg |-> FALSE, mant |-> 0, exp |-> 0]  BY DEF ZeroFloat
<1> QED  BY <1>3, <1>4, <1>5

LEMMA Binary ==
  ASSUME NEW v \in Values
  PROVE  /\ binary(v) \in Seq(Int) /\ Len(binary(v)) = 7
         /\ buff2i(<<binary(v)[1], binary(v)[2]>>) = v.port /\ binary(v)[3] = v.type
         /\ LET val == [k \in 1 .. 4 |-> binary(v)[3 + k]]
            IN v.value = IF v.type = 0 THEN IntOf(val) ELSE FloatOf(val)
<1> DEFINE four == IF v.type = 0 THEN int_to_buff32(v.value) ELSE float_to_buff32(v.value)
<1>1. v.port \in Nat /\ v.port < 65536 /\ v.type \in Int
  BY ValueAssumption
<1>2. four[1] \in Int /\ four[2] \in Int /\ four[3] \in Int /\ four[4] \in Int
  <2>1. CASE v.type = 0  BY <2>1, ValueAssumption DEF int_to_buff32, Int32
  <2>2. CASE v.type # 0 /\ v.value \in Normal
    <3>1. v.value.mant \in Int /\ v.value.exp \in Int  BY <2>2 DEF Normal
    <3>2. BiasedExponent(v.value) \in Int  BY <3>1 DEF BiasedExponent
    <3> QED  BY <2>2, <3>1, <3>2 DEF float_to_buff32
  <2>3. CASE v.type # 0 /\ v.value = ZeroFloat  BY <2>3, ZeroBytes
  <2> QED  BY <2>1, <2>2, <2>3, ValueAssumption
<1>3. i2buff(v.port)[1] = (v.port \div 256) % 256 /\ i2buff(v.port)[2] = v.port % 256
  BY DEF i2buff
<1>4. binary(v) = <<i2buff(v.port)[1], i2buff(v.port)[2], v.type,
                    four[1], four[2], four[3], four[4]>>
  BY DEF binary
<1> HIDE DEF four
<1>5. binary(v) \in Seq(Int) /\ Len(binary(v)) = 7
  BY <1>1, <1>2, <1>3, <1>4
<1>6. buff2i(<<binary(v)[1], binary(v)[2]>>) = v.port /\ binary(v)[3] = v.type
  BY <1>1, <1>3, <1>4 DEF buff2i
<1>7. DEFINE val == [k \in 1 .. 4 |-> binary(v)[3 + k]]
<1>8. val[1] = four[1] /\ val[2] = four[2] /\ val[3] = four[3] /\ val[4] = four[4]
  BY <1>4
<1> HIDE DEF val
<1>9. IntOf(val) = IntOf(four) /\ FloatOf(val) = FloatOf(four)
  BY <1>8 DEF IntOf, FloatOf
<1>10. v.value = IF v.type = 0 THEN IntOf(four) ELSE FloatOf(four)
  <2>1. CASE v.type = 0  BY <2>1, IntsArrive, ValueAssumption DEF four
  <2>2. CASE v.type # 0 /\ v.value \in Normal  BY <2>2, FloatsArrive DEF four
  <2>3. CASE v.type # 0 /\ v.value = ZeroFloat  BY <2>3, ZeroBytes DEF four
  <2> QED  BY <2>1, <2>2, <2>3, ValueAssumption
<1> QED  BY <1>5, <1>6, <1>9, <1>10 DEF val

LEMMA TellsOne ==
  ASSUME NEW v \in Values, NEW s, NEW at \in Nat,
         \A k \in 1 .. 7 : s[at + k] = binary(v)[k]
  PROVE  Tells(s, at, v)
<1>1. /\ s[at + 1] = binary(v)[1] /\ s[at + 2] = binary(v)[2] /\ s[at + 3] = binary(v)[3]
  OBVIOUS
<1>2. \A k \in 1 .. 4 : s[at + 3 + k] = binary(v)[3 + k]
  <2> SUFFICES ASSUME NEW k \in 1 .. 4 PROVE s[at + 3 + k] = binary(v)[3 + k]  OBVIOUS
  <2>1. 3 + k \in 1 .. 7 /\ at + (3 + k) = at + 3 + k  OBVIOUS
  <2> QED  BY <2>1
<1>3. [k \in 1 .. 4 |-> s[at + 3 + k]] = [k \in 1 .. 4 |-> binary(v)[3 + k]]  BY <1>2
<1> QED  BY <1>1, <1>3, Binary DEF Tells

LEMMA OneSent ==
  ASSUME NEW v \in Values, send_port_change(v)  PROVE SentAsMeant'
<1>1. sent'.payload = binary(v) /\ meant' = <<v>>
  BY DEF send_port_change, SendMessage
<1>2. Len(sent'.payload) = 7 * Len(meant')
  <2>1. Len(binary(v)) = 7 /\ Len(<<v>>) = 1  BY Binary
  <2> QED  BY <1>1, <2>1
<1>3. Tells(sent'.payload, 0, v)  BY <1>1, TellsOne
<1>4. DOMAIN meant' = {1} /\ meant'[1] = v  BY <1>1
<1>5. \A i \in DOMAIN meant' : Tells(sent'.payload, 7 * (i - 1), meant'[i])
  <2> SUFFICES Tells(sent'.payload, 7 * (1 - 1), meant'[1])  BY <1>4
  <2>1. 7 * (1 - 1) = 0  OBVIOUS
  <2> QED  BY <1>3, <1>4, <2>1
<1> QED  BY <1>2, <1>5 DEF SentAsMeant, Tells

LEMMA Joined ==
  ASSUME NEW s \in Seq(Int), NEW t \in Seq(Int), Len(s) = 7, Len(t) = 7
  PROVE  /\ Len(s \o t) = 14
         /\ \A k \in 1 .. 7 : (s \o t)[0 + k] = s[k] /\ (s \o t)[7 + k] = t[k]
<1> DEFINE both == s \o t
<1>1. /\ Len(both) = Len(s) + Len(t)
      /\ \A i \in 1 .. Len(s) + Len(t) :
            both[i] = IF i <= Len(s) THEN s[i] ELSE t[i - Len(s)]
  BY ConcatProperties, Zenon
<1> HIDE DEF both
<1>2. Len(both) = 14  BY <1>1
<1>3. \A i \in 1 .. 14 : both[i] = IF i <= 7 THEN s[i] ELSE t[i - 7]  BY <1>1
<1>4. ASSUME NEW k \in 1 .. 7  PROVE both[0 + k] = s[k] /\ both[7 + k] = t[k]
  <2>1. 0 + k = k /\ k \in 1 .. 14 /\ k <= 7  OBVIOUS
  <2>2. 7 + k \in 1 .. 14 /\ ~(7 + k <= 7) /\ (7 + k) - 7 = k  OBVIOUS
  <2>3. both[0 + k] = s[k]
    <3>1. both[k] = s[k]  BY <1>3, <2>1
    <3> QED  BY <2>1, <3>1, Zenon
  <2>4. both[7 + k] = t[k]
    <3> DEFINE j == 7 + k
    <3>1. j \in 1 .. 14 /\ ~(j <= 7) /\ j - 7 = k  BY <2>2
    <3> HIDE DEF j
    <3>2. both[j] = t[j - 7]  BY <1>3, <3>1
    <3> QED  BY <3>1, <3>2, Zenon DEF j
  <2> QED  BY <2>3, <2>4
<1> QED  BY <1>2, <1>4 DEF both

LEMMA TwoSent ==
  ASSUME NEW v \in Values, NEW w \in Values, send_ports_change(v, w)  PROVE SentAsMeant'
<1>1. sent'.payload = binary(v) \o binary(w) /\ meant' = <<v, w>>
  BY DEF send_ports_change, SendMessage
<1>2. /\ binary(v) \in Seq(Int) /\ Len(binary(v)) = 7
      /\ binary(w) \in Seq(Int) /\ Len(binary(w)) = 7
  BY Binary
<1>3. Len(binary(v) \o binary(w)) = 14  BY <1>2, Joined
<1>4. \A k \in 1 .. 7 : (binary(v) \o binary(w))[0 + k] = binary(v)[k]
  BY <1>2, Joined
<1>5. \A k \in 1 .. 7 : (binary(v) \o binary(w))[7 + k] = binary(w)[k]
  BY <1>2, Joined
<1>6. Tells(sent'.payload, 0, v) /\ Tells(sent'.payload, 7, w)
  BY <1>1, <1>4, <1>5, TellsOne
<1>7. DOMAIN meant' = {1, 2} /\ meant'[1] = v /\ meant'[2] = w /\ Len(meant') = 2
  BY <1>1
<1>8. \A i \in DOMAIN meant' : Tells(sent'.payload, 7 * (i - 1), meant'[i])
  <2> SUFFICES /\ Tells(sent'.payload, 7 * (1 - 1), meant'[1])
               /\ Tells(sent'.payload, 7 * (2 - 1), meant'[2])
    BY <1>7
  <2>1. 7 * (1 - 1) = 0 /\ 7 * (2 - 1) = 7  OBVIOUS
  <2> QED  BY <1>6, <1>7, <2>1
<1>9. Len(sent'.payload) = 7 * Len(meant')  BY <1>1, <1>3, <1>7
<1> QED  BY <1>8, <1>9 DEF SentAsMeant, Tells

(* The server reads every value as it was meant                            *)
(* (message.cpp:69-104).                                                   *)
THEOREM ReadAsMeant == Spec => []SentAsMeant
<1>1. Init => SentAsMeant  BY DEF Init, SentAsMeant, NoFrame
<1>2. SentAsMeant /\ [Next]_vars => SentAsMeant'
  <2> SUFFICES ASSUME SentAsMeant, [Next]_vars PROVE SentAsMeant'  OBVIOUS
  <2>1. CASE sent' = NoFrame  BY <2>1 DEF SentAsMeant, NoFrame
  <2>2. CASE send_confirmation  BY <2>2 DEF SentAsMeant, send_confirmation
  <2>3. CASE ServerSends \/ Cut \/ RunUpdate \/ PowerCycle
    BY <2>1, <2>3 DEF ServerSends, Deliver, Cut, RunUpdate, PowerCycle, Restart, Quiet
  <2>4. CASE Process
    <3>1. sent' = NoFrame \/ send_confirmation
      BY <2>4 DEF Process, SetPorts, Set, start_transfer, process_chunk, finish_transfer,
                  FlashUrl, Ping, Ignored, Restart, Quiet
    <3> QED  BY <2>1, <2>2, <3>1
  <2>5. CASE ApplicationSends
    <3>1. ASSUME NEW text \in Texts, remote_log(text) \/ send_json(text)  PROVE SentAsMeant'
      BY <3>1 DEF remote_log, send_json, SendMessage, SentAsMeant
    <3>2. ASSUME request_config  PROVE SentAsMeant'
      BY <3>2 DEF request_config, SentAsMeant
    <3> QED  BY <2>5, <3>1, <3>2, OneSent, TwoSent DEF ApplicationSends
  <2>6. CASE UNCHANGED vars  BY <2>6 DEF vars, SentAsMeant, Tells
  <2> QED  BY <2>3, <2>4, <2>5, <2>6 DEF Next
<1> QED  BY <1>1, <1>2, PTL DEF Spec

-----------------------------------------------------------------------------
(* Induction, on a set of natural numbers.                                 *)

LEMMA SetInduction ==
  ASSUME NEW S, 0 \in S, \A n \in Nat : n \in S => n + 1 \in S
  PROVE  Nat \subseteq S
<1> DEFINE T == Nat \ S
<1>1. SUFFICES ASSUME T # {}  PROVE FALSE
  OBVIOUS
<1>2. PICK x \in T : \A y \in T : <<y, x>> \notin OpToRel(<, Nat)
  BY <1>1, WFMin, NatLessThanWellFounded, Zenon
<1>3. \A y \in T : ~ (y < x)
  BY <1>2 DEF OpToRel
<1>4. x # 0 /\ x - 1 \in Nat /\ x - 1 < x
  OBVIOUS
<1>5. x - 1 \in S
  BY <1>3, <1>4
<1> QED  BY <1>4, <1>5

-----------------------------------------------------------------------------
(* The ports.                                                              *)

(* What one value of a payload makes of port p.                            *)
Shown(b, p, entry) ==
  LET v == Stored(p, buff32_to_int(entry.bytes))
  IN b.value[p] = v /\ (p \in Digital => b.level[p] = (v # 0))

Boards == [value : [PortIds -> Int], level : [PortIds -> BOOLEAN]]

Names(entry, p) == entry.type = 0 /\ entry.port = p

Same(b, c, p) == b.value[p] = c.value[p] /\ b.level[p] = c.level[p]

LEMMA EntryIs ==
  ASSUME NEW entry \in Entry
  PROVE  /\ buff32_to_int(entry.bytes) \in Int
         /\ entry.bytes[2] = 0 => buff32_to_int(entry.bytes) = IntOf(entry.bytes)
<1>1. entry.bytes \in [1 .. 4 -> Int]  BY DEF Entry
<1>2. /\ entry.bytes[1] \in Int /\ entry.bytes[2] \in Int
      /\ entry.bytes[3] \in Int /\ entry.bytes[4] \in Int
  BY <1>1
<1> QED  BY <1>1, <1>2, IntsRead DEF buff32_to_int, SignedByte

LEMMA StoredIs ==
  ASSUME NEW p, NEW v \in Int
  PROVE  Stored(p, v) \in Int
BY DEF Stored

LEMMA AppliedIs ==
  ASSUME NEW b \in Boards, NEW entry \in Entry
  PROVE  /\ Applied(b, entry) \in Boards
         /\ \A p \in PortIds : IF Names(entry, p) THEN Shown(Applied(b, entry), p, entry)
                               ELSE Same(Applied(b, entry), b, p)
<1> DEFINE q == entry.port
           v == Stored(q, buff32_to_int(entry.bytes))
           c == Applied(b, entry)
<1>1. v \in Int  BY EntryIs, StoredIs
<1>2. b.value \in [PortIds -> Int] /\ b.level \in [PortIds -> BOOLEAN]  BY DEF Boards
<1>3. CASE entry.type # 0 \/ q \notin PortIds
  <2>1. c = b  BY <1>3 DEF Applied, WithPort
  <2> QED  BY <1>3, <2>1 DEF Names, Same
<1>4. CASE entry.type = 0 /\ q \in PortIds
  <2> HIDE DEF v
  <2>1. /\ c.value = [b.value EXCEPT ![q] = v]
        /\ c.level = IF q \in Digital THEN [b.level EXCEPT ![q] = v # 0] ELSE b.level
        /\ c = [value |-> c.value, level |-> c.level]
    BY <1>4 DEF Applied, WithPort, WithValue, v
  <2> HIDE DEF c
  <2>2. c.value \in [PortIds -> Int] /\ c.level \in [PortIds -> BOOLEAN]
    BY <1>1, <1>2, <2>1
  <2>3. c \in Boards  BY <2>1, <2>2 DEF Boards
  <2>4. c.value[q] = v /\ (q \in Digital => c.level[q] = (v # 0))
    BY <1>2, <1>4, <2>1
  <2>5. \A p \in PortIds : p # q => Same(c, b, p)
    BY <1>2, <2>1 DEF Same
  <2> QED  BY <1>4, <2>3, <2>4, <2>5 DEF Names, Shown, c, v
<1> QED  BY <1>3, <1>4

(* The fold over a payload is a function on the sets of its indices.       *)
Fold(g, q) ==
  g = [s \in SUBSET (1 .. Len(q)) |-> IF s = {} THEN Board
                                      ELSE Applied(g[s \ {Max(s)}], q[Max(s)])]

Upto(g, q, n) ==
  \A s \in SUBSET (1 .. n) : g[s] = IF s = {} THEN Board
                                    ELSE Applied(g[s \ {Max(s)}], q[Max(s)])

LEMMA Greatest ==
  ASSUME NEW n \in Nat, NEW s \in SUBSET (1 .. n + 1), n + 1 \in s
  PROVE  Max(s) = n + 1
<1> DEFINE max == Max(s)
<1>1. \A y \in s : n + 1 >= y  OBVIOUS
<1>2. max \in s /\ \A y \in s : max >= y  BY <1>1, Zenon DEF Max
<1> HIDE DEF max
<1>3. max \in Int /\ max >= n + 1 /\ n + 1 >= max  BY <1>1, <1>2
<1> QED  BY <1>3 DEF max

LEMMA FoldExists ==
  ASSUME NEW q \in Seq(Entry)
  PROVE  \E g : Fold(g, q)
<1> DEFINE E(n) == \E g : DOMAIN g = SUBSET (1 .. n) /\ g = [s \in SUBSET (1 .. n) |-> g[s]]
                          /\ Upto(g, q, n)
           S == {n \in Nat : E(n)}
<1>1. E(0)
  <2> DEFINE g == [s \in SUBSET (1 .. 0) |-> Board]
  <2>1. SUBSET (1 .. 0) = {{}}  OBVIOUS
  <2>2. Upto(g, q, 0)  BY <2>1 DEF Upto
  <2> QED  BY <2>2
<1>2. ASSUME NEW n \in Nat, E(n)  PROVE E(n + 1)
  <2>1. PICK g : Upto(g, q, n)  BY <1>2
  <2> DEFINE h == [s \in SUBSET (1 .. n + 1) |->
                     IF n + 1 \in s THEN Applied(g[s \ {n + 1}], q[n + 1]) ELSE g[s]]
  <2>2. \A s \in SUBSET (1 .. n + 1) :
           h[s] = IF n + 1 \in s THEN Applied(g[s \ {n + 1}], q[n + 1]) ELSE g[s]
    OBVIOUS
  <2>3. DOMAIN h = SUBSET (1 .. n + 1) /\ h = [s \in SUBSET (1 .. n + 1) |-> h[s]]
    OBVIOUS
  <2> HIDE DEF h
  <2>4. ASSUME NEW s \in SUBSET (1 .. n + 1)
        PROVE  h[s] = IF s = {} THEN Board ELSE Applied(h[s \ {Max(s)}], q[Max(s)])
    <3>1. CASE n + 1 \in s
      <4>1. Max(s) = n + 1  BY <3>1, Greatest
      <4>2. s \ {n + 1} \in SUBSET (1 .. n + 1) /\ n + 1 \notin s \ {n + 1} /\ s # {}
        BY <3>1
      <4>3. h[s \ {n + 1}] = g[s \ {n + 1}]  BY <2>2, <4>2, Zenon
      <4>4. h[s] = Applied(g[s \ {n + 1}], q[n + 1])  BY <2>2, <3>1, Zenon
      <4> QED  BY <4>1, <4>2, <4>3, <4>4, Zenon
    <3>2. CASE n + 1 \notin s
      <4>1. s \in SUBSET (1 .. n)  BY <3>2
      <4>2. s \ {Max(s)} \in SUBSET (1 .. n + 1) /\ n + 1 \notin s \ {Max(s)}  BY <3>2, Zenon
      <4>3. h[s] = g[s]  BY <2>2, <3>2, Zenon
      <4>4. h[s \ {Max(s)}] = g[s \ {Max(s)}]  BY <2>2, <4>2, Zenon
      <4> QED  BY <2>1, <4>1, <4>3, <4>4, Zenon DEF Upto
    <3> QED  BY <3>1, <3>2
  <2>5. Upto(h, q, n + 1)  BY <2>4, Zenon DEF Upto
  <2> QED  BY <2>3, <2>5, Zenon
<1> HIDE DEF E
<1>3. E(Len(q))
  <2>1. Nat \subseteq S
    <3>1. 0 \in S /\ \A n \in Nat : n \in S => n + 1 \in S  BY <1>1, <1>2
    <3> HIDE DEF S
    <3> QED  BY <3>1, SetInduction
  <2>2. Len(q) \in Nat  OBVIOUS
  <2> QED  BY <2>1, <2>2
<1>4. PICK g : g = [s \in SUBSET (1 .. Len(q)) |-> g[s]] /\ Upto(g, q, Len(q))
  BY <1>3, Zenon DEF E
<1>5. Fold(g, q)  BY <1>4, Zenon DEF Upto, Fold
<1> QED  BY <1>5

(* The fold goes from board to board, one value after the other.           *)
LEMMA FoldSteps ==
  ASSUME NEW q \in Seq(Entry)
  PROVE  \E at : /\ at[0] = Board /\ at[Len(q)] = FoldLeft(Applied, Board, q)
                 /\ \A k \in 1 .. Len(q) : at[k] = Applied(at[k - 1], q[k])
<1> DEFINE g == CHOOSE g : Fold(g, q)
           n == Len(q)
           at == [k \in 0 .. n |-> g[1 .. k]]
<1>1. n \in Nat /\ DOMAIN q = 1 .. n  OBVIOUS
<1>2. Fold(g, q)  BY FoldExists, Zenon
<1>3. FoldLeft(Applied, Board, q) = g[1 .. n]
  BY <1>1, Zenon DEF FoldLeft, MapThenFoldSet, Fold
<1> HIDE DEF g, n
<1>4. \A s \in SUBSET (1 .. n) : g[s] = IF s = {} THEN Board
                                        ELSE Applied(g[s \ {Max(s)}], q[Max(s)])
  BY <1>2, Zenon DEF Fold, n
<1>5. at[0] = Board /\ at[n] = FoldLeft(Applied, Board, q)
  <2>1. 1 .. 0 = {} /\ {} \in SUBSET (1 .. n)  OBVIOUS
  <2>2. g[{}] = Board  BY <1>4, <2>1, Zenon
  <2> QED  BY <1>1, <1>3, <2>1, <2>2
<1>6. ASSUME NEW k \in 1 .. n  PROVE at[k] = Applied(at[k - 1], q[k])
  <2>0. k \in Int /\ 1 <= k /\ k <= n  BY <1>1
  <2> DEFINE s == 1 .. k
  <2>1. /\ s \in SUBSET (1 .. n) /\ s # {} /\ s \ {k} = 1 .. k - 1
        /\ k \in 0 .. n /\ k - 1 \in 0 .. n
    <3>1. k \in s  BY <2>0
    <3>2. s \subseteq 1 .. n  BY <1>1, <2>0
    <3>3. s \ {k} = 1 .. k - 1  BY <2>0
    <3>4. k \in 0 .. n /\ k - 1 \in 0 .. n  BY <1>1, <2>0
    <3> HIDE DEF s
    <3> QED  BY <3>1, <3>2, <3>3, <3>4
  <2>2. Max(1 .. k) = k
    <3>1. k - 1 \in Nat /\ (k - 1) + 1 = k /\ 1 .. k \in SUBSET (1 .. k) /\ k \in 1 .. k  BY <1>1
    <3> QED  BY <3>1, Greatest
  <2>3. g[1 .. k] = Applied(g[(1 .. k) \ {k}], q[k])  BY <1>4, <2>1, <2>2, Zenon
  <2>4. at[k] = g[1 .. k] /\ at[k - 1] = g[1 .. k - 1]  BY <2>1
  <2> QED  BY <2>1, <2>3, <2>4, Zenon
<1> HIDE DEF at
<1> QED  BY <1>5, <1>6, Zenon DEF n

(* After a payload a port shows the last of its values, or what it did.    *)
LEMMA FoldIs ==
  ASSUME NEW q \in Seq(Entry), Board \in Boards
  PROVE  LET c == FoldLeft(Applied, Board, q)
         IN /\ c \in Boards
            /\ \A p \in PortIds :
                 \/ /\ \A i \in 1 .. Len(q) : ~Names(q[i], p)
                    /\ Same(c, Board, p)
                 \/ \E i \in 1 .. Len(q) :
                      /\ Names(q[i], p) /\ \A j \in i + 1 .. Len(q) : ~Names(q[j], p)
                      /\ Shown(c, p, q[i])
<1> DEFINE n == Len(q)
           None(k, p) == \A i \in 1 .. k : ~Names(q[i], p)
           LastBy(k, p, i) == Names(q[i], p) /\ \A j \in i + 1 .. k : ~Names(q[j], p)
<1>1. PICK at : /\ at[0] = Board /\ at[n] = FoldLeft(Applied, Board, q)
                /\ \A k \in 1 .. n : at[k] = Applied(at[k - 1], q[k])
  BY FoldSteps
<1>2. n \in Nat /\ \A k \in 1 .. n : q[k] \in Entry  OBVIOUS
<1> HIDE DEF n
<1> DEFINE Good(k) ==
             /\ at[k] \in Boards
             /\ \A p \in PortIds :
                  \/ None(k, p) /\ Same(at[k], Board, p)
                  \/ \E i \in 1 .. k : LastBy(k, p, i) /\ Shown(at[k], p, q[i])
           S == {k \in Nat : k <= n => Good(k)}
<1>3. Good(0)  BY <1>1 DEF Same
<1>4. ASSUME NEW k \in Nat, k + 1 <= n, Good(k)  PROVE Good(k + 1)
  <2>1. k + 1 \in 1 .. n /\ (k + 1) - 1 = k /\ q[k + 1] \in Entry  BY <1>2, <1>4
  <2>2. at[k + 1] = Applied(at[k], q[k + 1])  BY <1>1, <2>1
  <2>3. /\ at[k + 1] \in Boards
        /\ \A p \in PortIds : IF Names(q[k + 1], p) THEN Shown(at[k + 1], p, q[k + 1])
                              ELSE Same(at[k + 1], at[k], p)
    BY <1>4, <2>1, <2>2, AppliedIs
  <2>4. ASSUME NEW p \in PortIds
        PROVE  \/ None(k + 1, p) /\ Same(at[k + 1], Board, p)
               \/ \E i \in 1 .. k + 1 : LastBy(k + 1, p, i) /\ Shown(at[k + 1], p, q[i])
    <3>1. CASE Names(q[k + 1], p)
      <4>1. k + 1 \in 1 .. k + 1 /\ LastBy(k + 1, p, k + 1)  BY <3>1
      <4> QED  BY <2>3, <3>1, <4>1
    <3>2. CASE ~Names(q[k + 1], p) /\ None(k, p) /\ Same(at[k], Board, p)
      <4>1. None(k + 1, p)  BY <3>2
      <4> QED  BY <2>3, <3>2, <4>1 DEF Same
    <3>3. ASSUME ~Names(q[k + 1], p), NEW i \in 1 .. k, LastBy(k, p, i), Shown(at[k], p, q[i])
          PROVE  \E j \in 1 .. k + 1 : LastBy(k + 1, p, j) /\ Shown(at[k + 1], p, q[j])
      <4>1. i \in 1 .. k + 1 /\ LastBy(k + 1, p, i)  BY <3>3
      <4>2. Shown(at[k + 1], p, q[i])  BY <2>3, <3>3 DEF Same, Shown
      <4> QED  BY <4>1, <4>2
    <3> QED  BY <1>4, <3>1, <3>2, <3>3
  <2> QED  BY <2>3, <2>4
<1>5. Good(n)
  <2> HIDE DEF Good
  <2>1. 0 \in S  BY <1>3
  <2>2. \A k \in Nat : k \in S => k + 1 \in S  BY <1>2, <1>4
  <2>3. Nat \subseteq S
    <3> HIDE DEF S
    <3> QED  BY <2>1, <2>2, SetInduction
  <2> QED  BY <1>2, <2>3
<1> QED  BY <1>1, <1>5 DEF n

(* The messages about ports reach their handlers and no other.             *)
LEMMA PortRoutes ==
  ASSUME NEW u
  PROVE  /\ Route(u) = "set_ports" => u = "set_ports"
         /\ Route(u) = "set" => u = "set"
         /\ Route(u) \notin {"set", "set_ports"} => u \notin {"set", "set_ports"}
<1>1. u = "set_ports" => Route(u) = "set_ports"
  <2> SUFFICES ASSUME u = "set_ports"  PROVE Route(u) = "set_ports"
    OBVIOUS
  <2> DEFINE fitting == {i \in DOMAIN Routes : Fits(u, Routes[i])}
  <2>1. fitting = {1, 5}  BY DEF Routes, Fits
  <2>2. Min(fitting) = 1  BY <2>1 DEF Min
  <2>3. Route(u) = Routes[Min(fitting)]  BY <2>1 DEF Route
  <2> QED  BY <2>2, <2>3 DEF Routes
<1>2. u = "set" => Route(u) = "set"
  <2>1. u = "set" => Fits(u, Routes[5]) /\ 5 \in DOMAIN Routes  BY DEF Routes, Fits
  <2> QED  BY <2>1, RouteFits DEF Fits
<1>3. Route(u) # "none" => Fits(u, Route(u))  BY RouteFits
<1> QED  BY <1>1, <1>2, <1>3 DEF Fits

LEMMA Payload ==
  ASSUME TypeOK, stream # <<>>
  PROVE  stream[1].uri \in {"set", "set_ports"} =>
           /\ stream[1].ports \in Seq(Entry)
           /\ stream[1].uri = "set" => stream[1].ports # <<>>
<1>1. 1 \in DOMAIN stream  BY EmptySeq DEF TypeOK
<1>2. \/ Request(stream[1]) \/ Started(stream[1])
      \/ Chunked(stream[1]) \/ Ended(stream[1])
  BY <1>1 DEF TypeOK
<1>3. Request(stream[1]) /\ stream[1].uri \in {"set", "set_ports"} =>
        /\ stream[1].ports \in PortLists
        /\ stream[1].uri = "set" => stream[1].ports # <<>>
  BY DEF Request, Messages
<1>4. Started(stream[1]) => stream[1].uri = "blob_start"
  BY DEF Started, StartOf, Transfer
<1>5. Chunked(stream[1]) => stream[1].uri = "blob_chunk"
  BY DEF Chunked, ChunkOf, Transfer
<1>6. Ended(stream[1]) => stream[1].uri = "blob_end"
  BY DEF Ended, EndOf, Transfer
<1> QED  BY <1>2, <1>3, <1>4, <1>5, <1>6, PortListAssumption

LEMMA BoardIs == PortsOK <=> Board \in Boards
BY DEF PortsOK, Board, Boards

LEMMA OffBoardIs == OffBoard \in Boards
<1>1. \A p \in PortIds : (IF p \in Output THEN Stored(p, 0) ELSE 0) \in Int  BY StoredIs
<1> QED  BY <1>1 DEF OffBoard, Boards

LEMMA BecomesIs ==
  ASSUME NEW b \in Boards, Becomes(b)
  PROVE  PortsOK' /\ value' = b.value /\ level' = b.level
BY DEF Becomes, PortsOK, Boards

(* A handler that reads a frame about ports makes the board of its values. *)
LEMMA SetPortsIs ==
  ASSUME MInv, PortsOK, SetPorts
  PROVE  LET q == stream[1].ports
             c == FoldLeft(Applied, Board, q)
         IN /\ stream[1].uri = "set_ports" /\ q \in Seq(Entry) /\ Board \in Boards
            /\ c \in Boards /\ Becomes(c)
<1>1. stream # <<>> /\ stream[1].uri = "set_ports"  BY PortRoutes DEF SetPorts, Arrived
<1>2. stream[1].ports \in Seq(Entry)  BY <1>1, Payload DEF MInv
<1>3. Board \in Boards  BY BoardIs
<1>4. FoldLeft(Applied, Board, stream[1].ports) \in Boards  BY <1>2, <1>3, FoldIs
<1> QED  BY <1>1, <1>2, <1>3, <1>4 DEF SetPorts

LEMMA SetIs ==
  ASSUME MInv, PortsOK, Set
  PROVE  LET q == stream[1].ports
             c == Applied(Board, q[1])
         IN /\ stream[1].uri = "set" /\ 1 \in DOMAIN q /\ q[1] \in Entry /\ Board \in Boards
            /\ c \in Boards /\ Becomes(c)
<1>1. stream # <<>> /\ stream[1].uri = "set"  BY PortRoutes DEF Set, Arrived
<1>2. stream[1].ports \in Seq(Entry) /\ stream[1].ports # <<>>  BY <1>1, Payload DEF MInv
<1>3. 1 \in DOMAIN stream[1].ports /\ stream[1].ports[1] \in Entry  BY <1>2
<1>4. Board \in Boards  BY BoardIs
<1>5. Applied(Board, stream[1].ports[1]) \in Boards  BY <1>3, <1>4, AppliedIs
<1> QED  BY <1>1, <1>3, <1>4, <1>5 DEF Set

LEMMA OthersAre ==
  ASSUME Process, ~SetPorts, ~Set, ~Restart
  PROVE  UNCHANGED board /\ stream[1].uri \notin {"set", "set_ports"}
<1>1. stream[1].uri \notin {"set", "set_ports"}
  BY PortRoutes DEF Process, start_transfer, process_chunk, finish_transfer, FlashUrl,
                    Ping, Ignored, Arrived
<1>2. UNCHANGED board
  BY DEF Process, start_transfer, process_chunk, finish_transfer, FlashUrl, Ping, Ignored
<1> QED  BY <1>1, <1>2

LEMMA PortsStep ==
  ASSUME MInv, PortsOK, [Next]_vars
  PROVE  PortsOK'
<1>1. CASE Restart  BY <1>1, OffBoardIs, BecomesIs DEF Restart
<1>2. CASE SetPorts  BY <1>2, SetPortsIs, BecomesIs
<1>3. CASE Set  BY <1>3, SetIs, BecomesIs
<1>4. CASE UNCHANGED board  BY <1>4 DEF board, PortsOK
<1>5. CASE Process  BY <1>1, <1>2, <1>3, <1>4, <1>5, OthersAre
<1> QED
  BY <1>1, <1>4, <1>5 DEF Next, ServerSends, Deliver, Cut, RunUpdate, PowerCycle,
       ApplicationSends, Application, send_port_change, send_ports_change, remote_log,
       send_json, request_config, vars

(* Only a handler takes a frame from the stream, but for a restart and a   *)
(* new connection.                                                         *)
LEMMA OnlyProcess ==
  ASSUME MInv, [Next]_vars, stream # <<>>, stream' = Tail(stream), ~Restart, cuts' = cuts
  PROVE  Process
<1>1. stream \in Seq(Frame) /\ cuts \in Nat  BY DEF MInv, TypeOK
<1> DEFINE n    == Len(stream)
           left == Len(stream')
<1>2. left = n - 1 /\ n \in Nat  BY <1>1
<1>3. stream' # stream
  <2>1. stream' = stream => left = n  OBVIOUS
  <2> HIDE DEF left, n
  <2> QED  BY <1>2, <2>1
<1>4. ASSUME NEW m, Deliver(m)  PROVE FALSE
  <2>1. left = Len(Append(stream, m))  BY <1>4 DEF Deliver
  <2>2. Len(Append(stream, m)) = n + 1  BY <1>1
  <2> HIDE DEF left, n
  <2> QED  BY <1>2, <2>1, <2>2
<1>5. \A m : ~Deliver(m)  BY <1>4
<1>6. ~ServerSends  BY <1>5 DEF ServerSends
<1>7. ~Cut  BY <1>1 DEF Cut
<1>8. ~ApplicationSends
  BY DEF ApplicationSends, Application, send_port_change, send_ports_change, remote_log,
         send_json, request_config
<1> QED  BY <1>3, <1>6, <1>7, <1>8 DEF Next, RunUpdate, PowerCycle, vars

(* A port that shows a value is set to it, in the logic of its pin.        *)
LEMMA ShownIs ==
  ASSUME NEW p \in PortIds, NEW entry \in Entry, NEW b \in Boards,
         Shown(b, p, entry), entry.bytes[2] = 0
  PROVE  LET v == IntOf(entry.bytes)
         IN /\ p \notin Low => b.value[p] = v
            /\ p \in Digital => (b.level[p] = (p \notin Low)) = (v # 0)
<1>1. IntOf(entry.bytes) \in Int /\ buff32_to_int(entry.bytes) = IntOf(entry.bytes)
  BY EntryIs
<1>2. b.level[p] \in BOOLEAN  BY DEF Boards
<1> QED  BY <1>1, <1>2 DEF Shown, Stored

LEMMA ObeyedStep ==
  ASSUME MInv, PortsOK, [Next]_vars
  PROVE  Obeyed
<1> SUFFICES ASSUME stream # <<>>, stream' = Tail(stream), ~Restart, cuts' = cuts,
                    NEW p \in PortIds
             PROVE  LET named == {i \in Entries(stream[1]) : stream[1].ports[i].port = p}
                        last  == CHOOSE i \in named : \A j \in named : j <= i
                        v     == IntOf(stream[1].ports[last].bytes)
                    IN IF named = {}
                       THEN value'[p] = value[p] /\ level'[p] = level[p]
                       ELSE stream[1].ports[last].bytes[2] = 0 =>
                              /\ p \notin Low => value'[p] = v
                              /\ p \in Digital => On(p)' = (v # 0)
  BY Zenon DEF Obeyed
<1> DEFINE q     == stream[1].ports
           named == {i \in Entries(stream[1]) : q[i].port = p}
           last  == CHOOSE i \in named : \A j \in named : j <= i
<1>1. Process  BY OnlyProcess
<1>2. CASE ~SetPorts /\ ~Set
  <2>1. value' = value /\ level' = level  BY <1>1, <1>2, OthersAre DEF board
  <2>2. named = {}  BY <1>1, <1>2, OthersAre DEF Entries
  <2> QED  BY <2>1, <2>2
<1>3. ASSUME NEW c \in Boards, Becomes(c), Board \in Boards,
             \/ named = {} /\ Same(c, Board, p)
             \/ \E i \in named : /\ i \in Nat /\ q[i] \in Entry /\ Shown(c, p, q[i])
                                 /\ \A j \in named : j \in Nat /\ j <= i
      PROVE  IF named = {}
             THEN value'[p] = value[p] /\ level'[p] = level[p]
             ELSE q[last].bytes[2] = 0 =>
                    /\ p \notin Low => value'[p] = IntOf(q[last].bytes)
                    /\ p \in Digital => On(p)' = (IntOf(q[last].bytes) # 0)
  <2>1. value' = c.value /\ level' = c.level  BY <1>3, BecomesIs
  <2>2. CASE named = {} /\ Same(c, Board, p)  BY <2>1, <2>2 DEF Same, Board
  <2>3. ASSUME NEW i \in named, i \in Nat, q[i] \in Entry, Shown(c, p, q[i]),
               \A j \in named : j \in Nat /\ j <= i
        PROVE  q[last].bytes[2] = 0 =>
                 /\ p \notin Low => value'[p] = IntOf(q[last].bytes)
                 /\ p \in Digital => On(p)' = (IntOf(q[last].bytes) # 0)
    <3> HIDE DEF q, named
    <3>1. last \in named /\ \A j \in named : j <= last  BY <2>3, Zenon
    <3> HIDE DEF last
    <3>2. last = i
      <4>1. last \in Nat /\ last <= i /\ i <= last /\ i \in Nat  BY <2>3, <3>1
      <4> QED  BY <4>1
    <3>3. q[i].bytes[2] = 0 =>
            /\ p \notin Low => c.value[p] = IntOf(q[i].bytes)
            /\ p \in Digital => (c.level[p] = (p \notin Low)) = (IntOf(q[i].bytes) # 0)
      BY <2>3, ShownIs
    <3> QED  BY <2>1, <3>2, <3>3, Zenon DEF On
  <2> HIDE DEF q, named, last
  <2> QED  BY <1>3, <2>2, <2>3, Zenon
<1>4. CASE SetPorts
  <2> DEFINE c == FoldLeft(Applied, Board, q)
  <2>1. /\ stream[1].uri = "set_ports" /\ q \in Seq(Entry) /\ Board \in Boards
        /\ c \in Boards /\ Becomes(c)
    BY <1>4, SetPortsIs
  <2>2. Len(q) \in Nat /\ DOMAIN q = 1 .. Len(q) /\ \A i \in 1 .. Len(q) : q[i] \in Entry
    BY <2>1
  <2>3. named = {i \in 1 .. Len(q) : Names(q[i], p)}  BY <2>1, <2>2 DEF Entries, Names
  <2>4. \/ (\A i \in 1 .. Len(q) : ~Names(q[i], p)) /\ Same(c, Board, p)
        \/ \E i \in 1 .. Len(q) :
             /\ Names(q[i], p) /\ \A j \in i + 1 .. Len(q) : ~Names(q[j], p)
             /\ Shown(c, p, q[i])
    BY <2>1, FoldIs
  <2> HIDE DEF c, q, named
  <2>5. CASE (\A i \in 1 .. Len(q) : ~Names(q[i], p)) /\ Same(c, Board, p)
    <3>1. named = {}  BY <2>3, <2>5
    <3> QED  BY <1>3, <2>1, <2>5, <3>1 DEF q, named
  <2>6. ASSUME NEW i \in 1 .. Len(q), Names(q[i], p), Shown(c, p, q[i]),
               \A j \in i + 1 .. Len(q) : ~Names(q[j], p)
        PROVE  i \in named /\ i \in Nat /\ q[i] \in Entry
               /\ \A j \in named : j \in Nat /\ j <= i
    BY <2>2, <2>3, <2>6
  <2>7. \/ named = {} /\ Same(c, Board, p)
        \/ \E i \in named : /\ i \in Nat /\ q[i] \in Entry /\ Shown(c, p, q[i])
                            /\ \A j \in named : j \in Nat /\ j <= i
    BY <2>3, <2>4, <2>5, <2>6
  <2> QED  BY <1>3, <2>1, <2>7 DEF q, named
<1>5. CASE Set
  <2> DEFINE c == Applied(Board, q[1])
  <2>1. /\ stream[1].uri = "set" /\ 1 \in DOMAIN q /\ q[1] \in Entry /\ Board \in Boards
        /\ c \in Boards /\ Becomes(c)
    BY <1>5, SetIs
  <2>2. named = {i \in {1} : Names(q[i], p)}  BY <2>1 DEF Entries, Names
  <2>3. IF Names(q[1], p) THEN Shown(c, p, q[1]) ELSE Same(c, Board, p)
    BY <2>1, AppliedIs
  <2> HIDE DEF c, q, named
  <2>4. \/ named = {} /\ Same(c, Board, p)
        \/ \E i \in named : /\ i \in Nat /\ q[i] \in Entry /\ Shown(c, p, q[i])
                            /\ \A j \in named : j \in Nat /\ j <= i
    BY <2>1, <2>2, <2>3
  <2> QED  BY <1>3, <2>1, <2>4 DEF q, named
<1> QED  BY <1>2, <1>4, <1>5

(* A message about ports sets the ports it names to the last of the values *)
(* it has for them, as far as buff32_to_int() can read them, and leaves    *)
(* all other ports as they were; no other message changes a port.          *)
THEOREM PortsObey == Spec => Obeys
<1>1. Init => PortsOK
  <2> SUFFICES ASSUME Init  PROVE PortsOK
    OBVIOUS
  <2>1. OffBoard.value = value /\ OffBoard.level = level  BY DEF Init
  <2> QED  BY <2>1, OffBoardIs DEF PortsOK, Boards
<1>2. MInv /\ PortsOK /\ [Next]_vars => PortsOK'
  BY PortsStep
<1>3. MInv /\ PortsOK /\ [Next]_vars => [Obeyed]_vars
  BY ObeyedStep
<1> QED  BY <1>1, <1>2, <1>3, BufferAgrees, PTL DEF Spec, Obeys

=============================================================================

--------------------------- MODULE FramingProofs ---------------------------
(***************************************************************************)
(* Proofs about Framing: whatever the sizes of the frames and the pieces   *)
(* they arrive in, receive() takes what has arrived as it was sent.        *)
(***************************************************************************)
EXTENDS Framing, SequenceTheorems, WellFoundedInduction, TLAPS

-----------------------------------------------------------------------------
(* Induction, on a set of natural numbers.                                 *)

LEMMA SetInduction ==
  ASSUME NEW S, 0 \in S, \A n \in Nat : n \in S => n + 1 \in S
  PROVE  Nat \subseteq S
<1> DEFINE T == Nat \ S
<1>1. SUFFICES ASSUME T # {}  PROVE FALSE
  OBVIOUS
<1>2. PICK x \in T : \A y \in T : <<y, x>> \notin OpToRel(<, Nat)
  BY <1>1, WFMin, NatLessThanWellFounded, Zenon
<1>3. \A y \in T : ~ (y < x)
  BY <1>2 DEF OpToRel
<1>4. x # 0 /\ x - 1 \in Nat /\ x - 1 < x
  OBVIOUS
<1>5. x - 1 \in S
  BY <1>3, <1>4
<1> QED  BY <1>4, <1>5

(* A set of numbers up to n has a greatest one.                            *)
LEMMA MaxIs ==
  ASSUME NEW n \in Nat, NEW S \in SUBSET (0 .. n), S # {}
  PROVE  Max(S) \in S /\ \A y \in S : y <= Max(S)
<1> DEFINE T == {n - y : y \in S}
<1>1. T \subseteq Nat /\ T # {}
  <2>1. T \subseteq Nat  OBVIOUS
  <2>2. PICK y \in S : TRUE  OBVIOUS
  <2>3. n - y \in T  BY <2>2
  <2> HIDE DEF T
  <2> QED  BY <2>1, <2>3
<1>2. PICK x \in T : \A y \in T : <<y, x>> \notin OpToRel(<, Nat)
  <2> HIDE DEF T
  <2> QED  BY <1>1, WFMin, NatLessThanWellFounded, Zenon
<1>3. \A y \in T : ~ (y < x)  BY <1>1, <1>2 DEF OpToRel
<1>4. PICK m \in S : x = n - m  OBVIOUS
<1>5. \A y \in S : m >= y
  <2> SUFFICES ASSUME NEW y \in S  PROVE m >= y
    OBVIOUS
  <2>1. ~ (n - y < n - m)  BY <1>3, <1>4
  <2> QED  BY <2>1
<1>6. Max(S) \in S /\ \A y \in S : Max(S) >= y
  BY <1>5, Zenon DEF Max
<1> QED  BY <1>6

-----------------------------------------------------------------------------
(* at[k] is the concatenation of the first k of the sequences of q.        *)
PrefixesAre(at, q) ==
  /\ DOMAIN at = 0 .. Len(q)
  /\ at[0] = <<>>
  /\ \A k \in 1 .. Len(q) : at[k] = at[k - 1] \o q[k]

LEMMA FlattenIs ==
  ASSUME NEW D, NEW q \in Seq(Seq(D)), NEW at, PrefixesAre(at, q)
  PROVE  FlattenSeq(q) = at[Len(q)]
<1>0. Len(q) \in Nat /\ \A k \in 1 .. Len(q) : q[k] \in Seq(D)  OBVIOUS
<1>1. CASE Len(q) = 0
  BY <1>1 DEF FlattenSeq, PrefixesAre
<1>2. CASE Len(q) > 0
  <2> DEFINE Rec(g) == g = [i \in 1 .. Len(q) |-> IF i = 1 THEN q[i] ELSE g[i - 1] \o q[i]]
             f == [i \in 1 .. Len(q) |-> at[i]]
             flatten == CHOOSE g : Rec(g)
  <2>1. FlattenSeq(q) = flatten[Len(q)]
    BY <1>2 DEF FlattenSeq
  <2>2. at[1] = q[1]
    <3>1. at[1] = <<>> \o q[1]  BY <1>0, <1>2 DEF PrefixesAre
    <3>2. q[1] \in Seq(D)  BY <1>0, <1>2
    <3> QED  BY <3>1, <3>2, ConcatEmptySeq
  <2>3. Rec(f)
    <3>1. ASSUME NEW i \in 1 .. Len(q)  PROVE f[i] = IF i = 1 THEN q[i] ELSE f[i - 1] \o q[i]
      <4>1. CASE i = 1  BY <2>2, <4>1
      <4>2. CASE i # 1
        <5>1. i - 1 \in 1 .. Len(q)  BY <1>0, <4>2
        <5>2. at[i] = at[i - 1] \o q[i]  BY DEF PrefixesAre
        <5> QED  BY <4>2, <5>1, <5>2
      <4> QED  BY <4>1, <4>2
    <3> QED  BY <3>1
  <2>4. Rec(flatten)  BY <2>3
  <2> HIDE DEF flatten
  <2>5. \A i \in 1 .. Len(q) : flatten[i] = IF i = 1 THEN q[i] ELSE flatten[i - 1] \o q[i]
    BY <2>4, Zenon
  <2> DEFINE S == {n \in Nat : n + 1 \in 1 .. Len(q) => flatten[n + 1] = at[n + 1]}
  <2>6. 0 \in S  BY <2>2, <2>5
  <2>7. ASSUME NEW n \in Nat, n \in S  PROVE n + 1 \in S
    <3>1. SUFFICES ASSUME n + 2 \in 1 .. Len(q)  PROVE flatten[n + 2] = at[n + 2]
      OBVIOUS
    <3>2. flatten[n + 1] = at[n + 1]  BY <1>0, <3>1, <2>7
    <3>3. flatten[n + 2] = flatten[n + 1] \o q[n + 2]
      <4>1. (n + 2) - 1 = n + 1 /\ n + 2 # 1  OBVIOUS
      <4> QED  BY <2>5, <3>1, <4>1
    <3>4. at[n + 2] = at[n + 1] \o q[n + 2]
      <4>1. (n + 2) - 1 = n + 1  OBVIOUS
      <4> QED  BY <3>1, <4>1 DEF PrefixesAre
    <3> QED  BY <3>2, <3>3, <3>4
  <2>8. Len(q) - 1 \in Nat /\ (Len(q) - 1) + 1 = Len(q)  BY <1>0, <1>2
  <2>9. Len(q) - 1 \in S
    <3> HIDE DEF S
    <3> QED  BY <2>6, <2>7, <2>8, SetInduction
  <2> QED  BY <1>2, <2>1, <2>8, <2>9
<1> QED  BY <1>0, <1>1, <1>2

LEMMA PrefixesExist ==
  ASSUME NEW D, NEW q \in Seq(Seq(D))
  PROVE  \E at \in [0 .. Len(q) -> Seq(D)] : PrefixesAre(at, q)
<1> DEFINE n == Len(q)
           Up(m, at) == at[0] = <<>> /\ \A k \in 1 .. m : at[k] = at[k - 1] \o q[k]
           E(m) == \E at \in [0 .. m -> Seq(D)] : Up(m, at)
           T == {m \in Nat : m <= n => E(m)}
<1>1. n \in Nat /\ <<>> \in Seq(D) /\ \A k \in 1 .. n : q[k] \in Seq(D)  OBVIOUS
<1> HIDE DEF n
<1>2. 0 \in T
  <2> DEFINE a == [k \in 0 .. 0 |-> <<>>]
  <2>1. a \in [0 .. 0 -> Seq(D)] /\ Up(0, a)  BY <1>1
  <2> QED  BY <2>1
<1>3. ASSUME NEW m \in Nat, m + 1 <= n, E(m)  PROVE E(m + 1)
  <2>1. PICK at \in [0 .. m -> Seq(D)] : Up(m, at)  BY <1>3
  <2> DEFINE b == [k \in 0 .. m + 1 |-> IF k = m + 1 THEN at[m] \o q[m + 1] ELSE at[k]]
  <2>2. at[m] \in Seq(D) /\ q[m + 1] \in Seq(D)  BY <1>1, <1>3
  <2>3. at[m] \o q[m + 1] \in Seq(D)  BY <2>2, ConcatProperties
  <2>4. b \in [0 .. m + 1 -> Seq(D)]  BY <2>3
  <2>5. b[m + 1] = at[m] \o q[m + 1] /\ \A k \in 0 .. m : b[k] = at[k]  OBVIOUS
  <2> HIDE DEF b
  <2>6. \A k \in 1 .. m + 1 : b[k] = b[k - 1] \o q[k]
    <3> SUFFICES ASSUME NEW k \in 1 .. m + 1  PROVE b[k] = b[k - 1] \o q[k]
      OBVIOUS
    <3>1. CASE k = m + 1
      <4>1. k - 1 = m /\ m \in 0 .. m  BY <3>1
      <4>2. b[m] = at[m]  BY <2>5, <4>1
      <4>3. b[k - 1] = at[m] /\ q[k] = q[m + 1] /\ b[k] = b[m + 1]  BY <3>1, <4>1, <4>2
      <4> QED  BY <2>5, <4>3
    <3>2. CASE k # m + 1
      <4>1. k \in 1 .. m /\ k \in 0 .. m /\ k - 1 \in 0 .. m  BY <3>2
      <4> QED  BY <2>1, <2>5, <4>1
    <3> QED  BY <3>1, <3>2
  <2>7. b[0] = <<>>  BY <2>1, <2>5
  <2> QED  BY <2>4, <2>6, <2>7
<1> HIDE DEF E
<1>4. \A m \in Nat : m \in T => m + 1 \in T  BY <1>1, <1>3
<1>5. E(n)
  <2>1. n \in T
    <3> HIDE DEF T
    <3> QED  BY <1>1, <1>2, <1>4, SetInduction
  <2> QED  BY <1>1, <2>1
<1>6. PICK at \in [0 .. n -> Seq(D)] : Up(n, at)  BY <1>5 DEF E
<1> QED  BY <1>6 DEF PrefixesAre, n

-----------------------------------------------------------------------------
(* What is written for frames.                                             *)

LEMMA Associative ==
  \A a, b, c \in Seq(Byte) : (a \o b) \o c = a \o (b \o c)
<1> QED  BY ConcatAssociative

(* A length below Base * Base has two digits, which are that length.       *)
LEMMA Digits ==
  ASSUME NEW b \in Nat \ {0}, NEW n \in Nat, n < b * b
  PROVE  /\ n \div b \in 0 .. b - 1 /\ n % b \in 0 .. b - 1
         /\ (n % b) + b * (n \div b) = n
<1> DEFINE q == n \div b
           r == n % b
<1>1. q \in Int /\ r \in 0 .. b - 1 /\ r + b * q = n  OBVIOUS
<1> HIDE DEF q, r
<1>2. b * q <= n /\ n < b * q + b  BY <1>1
<1>3. q >= 0  BY <1>1, <1>2
<1>4. q < b  BY <1>1, <1>2
<1>5. q \in 0 .. b - 1  BY <1>1, <1>3, <1>4
<1> QED  BY <1>1, <1>5 DEF q, r

LEMMA FrameIs ==
  ASSUME NEW f \in Frames
  PROVE  f \in Seq(Byte) /\ Len(f) \in 0 .. MaxSize
<1>0. MaxSize \in Nat  BY FramingAssumption
<1>1. PICK m \in 0 .. MaxSize : f \in [1 .. m -> Byte]
  BY DEF Frames, BoundedSeq, SeqOf
<1>2. f \in Seq(Byte)  BY <1>0, <1>1
<1>3. Len(f) = m  BY <1>0, <1>1, <1>2, LenProperties
<1> QED  BY <1>2, <1>3

LEMMA PacketIs ==
  ASSUME NEW f \in Frames
  PROVE  /\ Packet(f) \in Seq(Byte)
         /\ Len(Packet(f)) = Len(f) + 2
         /\ \A i \in 1 .. Len(f) : Packet(f)[2 + i] = f[i]
         /\ Packet(f)[2] + Base * Packet(f)[1] = Len(f)
<1> DEFINE high == Len(f) \div Base
           low  == Len(f) % Base
<1>1. f \in Seq(Byte) /\ Len(f) \in Nat /\ Len(f) < Base * Base
  <2>1. f \in Seq(Byte) /\ Len(f) \in 0 .. MaxSize  BY FrameIs
  <2>2. Base \in Nat /\ MaxSize \in Nat /\ MaxSize < Base * Base  BY FramingAssumption
  <2> QED  BY <2>1, <2>2
<1>2. high \in Byte /\ low \in Byte /\ low + Base * high = Len(f)
  <2>1. Base \in Nat \ {0}  BY FramingAssumption
  <2> QED  BY <1>1, <2>1, Digits DEF Byte
<1>3. Packet(f) = <<high, low>> \o f  BY DEF Packet
<1> HIDE DEF high, low
<1> DEFINE s == <<high, low>>
<1>4. s \in Seq(Byte) /\ Len(s) = 2 /\ s[1] = high /\ s[2] = low  BY <1>2
<1> HIDE DEF s
<1>5. /\ s \o f \in Seq(Byte) /\ Len(s \o f) = Len(s) + Len(f)
      /\ \A i \in 1 .. Len(s) + Len(f) :
            (s \o f)[i] = IF i <= Len(s) THEN s[i] ELSE f[i - Len(s)]
  BY <1>1, <1>4, ConcatProperties
<1>6. (s \o f)[1] = high /\ (s \o f)[2] = low  BY <1>1, <1>4, <1>5
<1>7. \A i \in 1 .. Len(f) : (s \o f)[2 + i] = f[i]
  <2> SUFFICES ASSUME NEW i \in 1 .. Len(f)  PROVE (s \o f)[2 + i] = f[i]
    OBVIOUS
  <2>1. 2 + i \in 1 .. Len(s) + Len(f) /\ ~(2 + i <= Len(s)) /\ (2 + i) - Len(s) = i
    BY <1>1, <1>4
  <2> QED  BY <1>5, <2>1
<1>8. Packet(f) = s \o f  BY <1>3 DEF s
<1> QED  BY <1>1, <1>2, <1>4, <1>5, <1>6, <1>7, <1>8

(* The bytes of the first k frames.                                        *)
FirstBytes(q, k) == Bytes(SubSeq(q, 1, k))

LEMMA FirstBytesIs ==
  ASSUME NEW q \in Seq(Frames)
  PROVE  /\ FirstBytes(q, 0) = <<>>
         /\ \A k \in 0 .. Len(q) : FirstBytes(q, k) \in Seq(Byte)
         /\ \A k \in 1 .. Len(q) : FirstBytes(q, k) = FirstBytes(q, k - 1) \o Packet(q[k])
<1> DEFINE P(s) == [i \in DOMAIN s |-> Packet(s[i])]
           p == P(q)
<1>1. Len(q) \in Nat /\ DOMAIN q = 1 .. Len(q) /\ \A i \in 1 .. Len(q) : q[i] \in Frames
  OBVIOUS
<1>2. p \in Seq(Seq(Byte)) /\ Len(p) = Len(q) /\ \A i \in 1 .. Len(q) : p[i] = Packet(q[i])
  BY <1>1, PacketIs
<1> HIDE DEF p
<1>3. PICK at \in [0 .. Len(q) -> Seq(Byte)] : PrefixesAre(at, p)
  BY <1>2, PrefixesExist
<1>4. ASSUME NEW k \in 0 .. Len(q)  PROVE FirstBytes(q, k) = at[k]
  <2> DEFINE s == SubSeq(q, 1, k)
             u == P(s)
             a == [i \in 0 .. k |-> at[i]]
  <2>1. s \in Seq(Frames) /\ Len(s) = k /\ \A i \in 1 .. k : s[i] = q[i]
    BY <1>1
  <2>2. u \in Seq(Seq(Byte)) /\ Len(u) = k /\ \A i \in 1 .. k : u[i] = p[i]
    <3>1. DOMAIN s = 1 .. k  BY <2>1, LenProperties
    <3> HIDE DEF s
    <3>2. u = [i \in 1 .. k |-> Packet(s[i])]  BY <3>1
    <3>3. \A i \in 1 .. k : Packet(s[i]) = p[i] /\ p[i] \in Seq(Byte)
      BY <1>1, <1>2, <2>1
    <3> HIDE DEF u
    <3>4. u \in [1 .. k -> Seq(Byte)] /\ \A i \in 1 .. k : u[i] = p[i]
      BY <3>2, <3>3
    <3> QED  BY <1>1, <3>4
  <2>3. PrefixesAre(a, u)
    <3>1. DOMAIN a = 0 .. k /\ a[0] = <<>>  BY <1>1, <1>3 DEF PrefixesAre
    <3>2. ASSUME NEW i \in 1 .. k  PROVE a[i] = a[i - 1] \o u[i]
      <4>1. i \in 1 .. Len(p) /\ i \in 0 .. k /\ i - 1 \in 0 .. k  BY <1>1, <1>2
      <4>2. at[i] = at[i - 1] \o p[i]  BY <1>3, <4>1 DEF PrefixesAre
      <4>3. a[i] = at[i] /\ a[i - 1] = at[i - 1]  BY <4>1
      <4> QED  BY <2>2, <4>2, <4>3
    <3> HIDE DEF u, a
    <3> QED  BY <2>2, <3>1, <3>2 DEF PrefixesAre
  <2>4. FlattenSeq(u) = a[Len(u)]
    <3> HIDE DEF u, a
    <3> QED  BY <2>2, <2>3, FlattenIs
  <2>5. FirstBytes(q, k) = FlattenSeq(u)  BY DEF FirstBytes, Bytes
  <2>6. a[k] = at[k]  BY <1>1
  <2> HIDE DEF u, a
  <2> QED  BY <2>2, <2>4, <2>5, <2>6
<1>5. FirstBytes(q, 0) = <<>>  BY <1>1, <1>3, <1>4 DEF PrefixesAre
<1>6. \A k \in 0 .. Len(q) : FirstBytes(q, k) \in Seq(Byte)  BY <1>3, <1>4
<1>7. ASSUME NEW k \in 1 .. Len(q)
      PROVE  FirstBytes(q, k) = FirstBytes(q, k - 1) \o Packet(q[k])
  <2>1. k \in 0 .. Len(q) /\ k - 1 \in 0 .. Len(q) /\ k \in 1 .. Len(p)  BY <1>1, <1>2
  <2>2. at[k] = at[k - 1] \o p[k]  BY <1>3, <2>1 DEF PrefixesAre
  <2>3. p[k] = Packet(q[k])  BY <1>2
  <2> QED  BY <1>4, <2>1, <2>2, <2>3
<1> QED  BY <1>5, <1>6, <1>7

LEMMA BytesIs ==
  ASSUME NEW q \in Seq(Frames)
  PROVE  Bytes(q) \in Seq(Byte) /\ Bytes(q) = FirstBytes(q, Len(q))
<1>1. SubSeq(q, 1, Len(q)) = q  BY SubSeqFull
<1>2. Len(q) \in 0 .. Len(q)  OBVIOUS
<1> QED  BY <1>1, <1>2, FirstBytesIs DEF FirstBytes

LEMMA BytesEmpty == Bytes(<<>>) = <<>>
<1>1. <<>> \in Seq(Frames) /\ Len(<<>>) = 0  OBVIOUS
<1> QED  BY <1>1, BytesIs, FirstBytesIs

LEMMA BytesAppend ==
  ASSUME NEW q \in Seq(Frames), NEW f \in Frames
  PROVE  /\ Bytes(Append(q, f)) = Bytes(q) \o Packet(f)
         /\ \A k \in 0 .. Len(q) : FirstBytes(Append(q, f), k) = FirstBytes(q, k)
<1> DEFINE r == Append(q, f)
<1>1. /\ r \in Seq(Frames) /\ Len(r) = Len(q) + 1 /\ Len(q) \in Nat
      /\ \A i \in 1 .. Len(q) : r[i] = q[i]
      /\ r[Len(q) + 1] = f
  BY AppendProperties
<1> HIDE DEF r
<1>2. \A k \in 0 .. Len(q) : SubSeq(r, 1, k) = SubSeq(q, 1, k)
  <2> SUFFICES ASSUME NEW k \in 0 .. Len(q)  PROVE SubSeq(r, 1, k) = SubSeq(q, 1, k)
    OBVIOUS
  <2>1. \A i \in 1 .. k : r[i] \in Frames /\ q[i] = r[i]  BY <1>1
  <2> QED  BY <1>1, <2>1
<1>3. \A k \in 0 .. Len(q) : FirstBytes(r, k) = FirstBytes(q, k)  BY <1>2 DEF FirstBytes
<1>4. Bytes(r) = FirstBytes(r, Len(q)) \o Packet(f)
  <2>1. Len(q) + 1 \in 1 .. Len(r) /\ (Len(q) + 1) - 1 = Len(q)  BY <1>1
  <2> QED  BY <1>1, <2>1, BytesIs, FirstBytesIs
<1>5. Bytes(r) = Bytes(q) \o Packet(f)
  <2>1. Len(q) \in 0 .. Len(q)  BY <1>1
  <2> QED  BY <1>3, <1>4, <2>1, BytesIs
<1> QED  BY <1>3, <1>5 DEF r

LEMMA BytesFirst ==
  ASSUME NEW q \in Seq(Frames), q # <<>>
  PROVE  /\ Bytes(q) = Packet(Head(q)) \o Bytes(Tail(q))
         /\ \A k \in 0 .. Len(Tail(q)) :
               FirstBytes(q, k + 1) = Packet(Head(q)) \o FirstBytes(Tail(q), k)
<1> DEFINE h == Head(q)
           t == Tail(q)
           P(k) == FirstBytes(q, k + 1) = Packet(h) \o FirstBytes(t, k)
<1>1. /\ h \in Frames /\ t \in Seq(Frames) /\ Len(q) \in Nat /\ Len(t) = Len(q) - 1
      /\ Len(t) \in Nat /\ \A i \in 1 .. Len(t) : t[i] = q[i + 1]
  BY HeadTailProperties
<1>2. q[1] = h  BY HeadTailProperties
<1> HIDE DEF h, t
<1>3. Packet(h) \in Seq(Byte)  BY <1>1, PacketIs
<1>4. P(0)
  <2>1. 0 + 1 \in 1 .. Len(q) /\ (0 + 1) - 1 = 0  BY <1>1
  <2>2. FirstBytes(q, 0 + 1) = FirstBytes(q, 0) \o Packet(q[0 + 1])
    BY <2>1, FirstBytesIs
  <2>3. FirstBytes(q, 0) = <<>> /\ FirstBytes(t, 0) = <<>>  BY <1>1, FirstBytesIs
  <2>4. <<>> \o Packet(h) = Packet(h) /\ Packet(h) \o <<>> = Packet(h)
    BY <1>3, ConcatEmptySeq
  <2> QED  BY <1>2, <2>2, <2>3, <2>4
<1>5. ASSUME NEW k \in Nat, k + 1 <= Len(t), P(k)  PROVE P(k + 1)
  <2>1. (k + 1) + 1 \in 1 .. Len(q) /\ ((k + 1) + 1) - 1 = k + 1 /\ k + 1 \in 1 .. Len(t)
        /\ (k + 1) - 1 = k /\ k \in 0 .. Len(t)
    BY <1>1, <1>5
  <2>2. FirstBytes(q, (k + 1) + 1) = FirstBytes(q, k + 1) \o Packet(t[k + 1])
    BY <1>1, <2>1, FirstBytesIs
  <2>3. FirstBytes(t, k + 1) = FirstBytes(t, k) \o Packet(t[k + 1])
    BY <1>1, <2>1, FirstBytesIs
  <2>4. FirstBytes(t, k) \in Seq(Byte)  BY <1>1, <2>1, FirstBytesIs
  <2>5. Packet(t[k + 1]) \in Seq(Byte)
    <3>1. t[k + 1] \in Frames  BY <1>1, <2>1
    <3> QED  BY <3>1, PacketIs
  <2>6. (Packet(h) \o FirstBytes(t, k)) \o Packet(t[k + 1])
          = Packet(h) \o (FirstBytes(t, k) \o Packet(t[k + 1]))
    BY <1>3, <2>4, <2>5, Associative
  <2> QED  BY <1>5, <2>2, <2>3, <2>6
<1>6. ASSUME NEW k \in 0 .. Len(t)  PROVE P(k)
  <2> HIDE DEF P
  <2> DEFINE S == {n \in Nat : n <= Len(t) => P(n)}
  <2>1. 0 \in S  BY <1>4
  <2>2. \A n \in Nat : n \in S => n + 1 \in S  BY <1>1, <1>5
  <2>3. k \in S
    <3>1. k \in Nat  BY <1>1
    <3> HIDE DEF S
    <3>2. Nat \subseteq S  BY <2>1, <2>2, SetInduction
    <3> QED  BY <3>1, <3>2
  <2> QED  BY <1>1, <2>3
<1>7. Bytes(q) = Packet(h) \o Bytes(t)
  <2>1. Len(t) \in 0 .. Len(t) /\ Len(t) + 1 = Len(q)  BY <1>1
  <2>2. Bytes(q) = FirstBytes(q, Len(q)) /\ Bytes(t) = FirstBytes(t, Len(t))
    BY <1>1, BytesIs
  <2> QED  BY <1>6, <2>1, <2>2
<1> QED  BY <1>6, <1>7 DEF h, t

-----------------------------------------------------------------------------
(* The device stays in step: InStep is inductive.                          *)

LEMMA Drop ==
  ASSUME NEW D, NEW s \in Seq(D), NEW n \in Nat
  PROVE  SubSeq(s, n + 1, Len(s)) \in Seq(D)
<1>1. Len(s) \in Nat /\ n + 1 \in Int /\ \A i \in n + 1 .. Len(s) : s[i] \in D  OBVIOUS
<1> QED  BY <1>1, SubSeqProperties

(* What begins with c and is cut behind it leaves what follows c.          *)
LEMMA CutBehind ==
  ASSUME NEW D, NEW a \in Seq(D), NEW b \in Seq(D), NEW c \in Seq(D), NEW d \in Seq(D),
         a \o b = c \o d, Len(c) <= Len(a)
  PROVE  /\ \A i \in 1 .. Len(c) : a[i] = c[i]
         /\ SubSeq(a, Len(c) + 1, Len(a)) \o b = d
         /\ Len(SubSeq(a, Len(c) + 1, Len(a))) = Len(a) - Len(c)
<1> DEFINE r == SubSeq(a, Len(c) + 1, Len(a))
<1>1. Len(a) \in Nat /\ Len(b) \in Nat /\ Len(c) \in Nat /\ Len(d) \in Nat  OBVIOUS
<1>2. /\ Len(a) + Len(b) = Len(c) + Len(d)
      /\ \A i \in 1 .. Len(a) + Len(b) :
            (IF i <= Len(a) THEN a[i] ELSE b[i - Len(a)])
              = (IF i <= Len(c) THEN c[i] ELSE d[i - Len(c)])
  <2>1. Len(a \o b) = Len(a) + Len(b) /\ Len(c \o d) = Len(c) + Len(d)
    BY ConcatProperties
  <2>2. \A i \in 1 .. Len(a) + Len(b) : (a \o b)[i] = IF i <= Len(a) THEN a[i] ELSE b[i - Len(a)]
    BY ConcatProperties
  <2>3. \A i \in 1 .. Len(c) + Len(d) : (c \o d)[i] = IF i <= Len(c) THEN c[i] ELSE d[i - Len(c)]
    BY ConcatProperties
  <2> QED  BY <2>1, <2>2, <2>3
<1>3. \A i \in 1 .. Len(c) : a[i] = c[i]  BY <1>1, <1>2
<1>4. /\ r \in Seq(D) /\ Len(r) = Len(a) - Len(c)
      /\ \A i \in 1 .. Len(r) : r[i] = a[Len(c) + i]
  BY <1>1
<1> HIDE DEF r
<1>5. r \o b = d
  <2>1. /\ r \o b \in Seq(D) /\ Len(r \o b) = Len(d)
        /\ \A i \in 1 .. Len(d) : (r \o b)[i] = IF i <= Len(r) THEN r[i] ELSE b[i - Len(r)]
    BY <1>1, <1>2, <1>4, ConcatProperties
  <2>2. ASSUME NEW i \in 1 .. Len(d)  PROVE (r \o b)[i] = d[i]
    <3>1. Len(c) + i \in 1 .. Len(a) + Len(b) /\ ~(Len(c) + i <= Len(c))
          /\ (Len(c) + i) - Len(c) = i
      BY <1>1, <1>2
    <3>2. d[i] = IF Len(c) + i <= Len(a) THEN a[Len(c) + i] ELSE b[(Len(c) + i) - Len(a)]
      BY <1>2, <3>1
    <3>3. CASE i <= Len(r)
      <4>1. Len(c) + i <= Len(a) /\ i \in 1 .. Len(r)  BY <1>1, <1>4, <3>3
      <4> QED  BY <1>4, <2>1, <3>2, <3>3, <4>1
    <3>4. CASE ~(i <= Len(r))
      <4>1. ~(Len(c) + i <= Len(a)) /\ (Len(c) + i) - Len(a) = i - Len(r)
        BY <1>1, <1>4, <3>4
      <4> QED  BY <2>1, <3>2, <3>4, <4>1
    <3> QED  BY <3>3, <3>4
  <2> QED  BY <2>1, <2>2, SeqEqual
<1> QED  BY <1>3, <1>4, <1>5 DEF r

(* What the code takes for a length is one, or -1.                         *)
LEMMA SizeIs ==
  ASSUME inbox \in Seq(Byte), inbox # <<>>
  PROVE  Size \in Nat \cup {-1} /\ (Size # -1 => Len(inbox) >= 2)
<1>1. Len(inbox) \in Nat /\ Len(inbox) # 0  BY EmptySeq
<1>2. CASE Len(inbox) = 1  BY <1>2 DEF Size
<1>3. CASE Len(inbox) # 1
  <2>0. Len(inbox) >= 2
    <3> DEFINE n == Len(inbox)
    <3>1. n \in Nat /\ n # 0 /\ n # 1  BY <1>1, <1>3
    <3> HIDE DEF n
    <3>2. n >= 2  BY <3>1
    <3> QED  BY <3>2 DEF n
  <2>1. inbox[1] \in Nat /\ inbox[2] \in Nat /\ Base \in Nat
    <3>1. 1 \in 1 .. Len(inbox) /\ 2 \in 1 .. Len(inbox)  BY <1>1, <2>0
    <3>2. inbox[1] \in Byte /\ inbox[2] \in Byte  BY <3>1, ElementOfSeq
    <3> QED  BY <3>2, FramingAssumption DEF Byte
  <2>2. Size = inbox[2] + Base * inbox[1]  BY <1>3 DEF Size
  <2>3. Base * inbox[1] \in Nat  BY <2>1
  <2>4. Size \in Nat
    <3> DEFINE x == Base * inbox[1]
               y == inbox[2]
    <3>1. x \in Nat /\ y \in Nat  BY <2>1, <2>3
    <3> HIDE DEF x, y
    <3>2. y + x \in Nat  BY <3>1
    <3> QED  BY <2>2, <3>2 DEF x, y
  <2> QED  BY <2>0, <2>4
<1> QED  BY <1>2, <1>3

(* The first frame has arrived to the last byte.                           *)
HeadArrived == queue # <<>> /\ Len(inbox) >= Len(Packet(Head(queue)))

(* It is read as it was sent.                                              *)
LEMMA HeadIsRead ==
  ASSUME InStep, inStep, HeadArrived
  PROVE  /\ Size = Len(Head(queue)) /\ Size \in Nat
         /\ \A i \in 1 .. Size : 2 + i <= Len(inbox) /\ inbox[2 + i] = Head(queue)[i]
         /\ SubSeq(inbox, (2 + Size) + 1, Len(inbox)) \o wire = Bytes(Tail(queue))
         /\ Len(SubSeq(inbox, (2 + Size) + 1, Len(inbox)))
              = Len(inbox) - Len(Packet(Head(queue)))
<1> DEFINE f == Head(queue)
           p == Packet(f)
           rest == Bytes(Tail(queue))
<1>1. /\ inbox \in Seq(Byte) /\ wire \in Seq(Byte) /\ queue \in Seq(Frames)
      /\ inbox \o wire = Bytes(queue) /\ queue # <<>> /\ Len(p) <= Len(inbox)
  <2>1. Len(inbox) >= Len(p)  BY DEF HeadArrived
  <2>2. Len(p) \in Nat
    <3>1. f \in Frames  BY HeadTailProperties DEF InStep, HeadArrived
    <3> QED  BY <3>1, PacketIs
  <2>3. Len(inbox) \in Nat  BY DEF InStep
  <2>4. Len(p) <= Len(inbox)  BY <2>1, <2>2, <2>3
  <2> QED  BY <2>4 DEF InStep, HeadArrived
<1>2. f \in Frames /\ Tail(queue) \in Seq(Frames)  BY <1>1, HeadTailProperties
<1>3. /\ p \in Seq(Byte) /\ Len(p) = Len(f) + 2 /\ Len(f) \in Nat
      /\ \A i \in 1 .. Len(f) : p[2 + i] = f[i]
      /\ p[2] + Base * p[1] = Len(f)
  BY <1>2, PacketIs, FrameIs
<1>4. rest \in Seq(Byte)  BY <1>2, BytesIs
<1>5. inbox \o wire = p \o rest  BY <1>1, BytesFirst
<1>6. Len(inbox) \in Nat  BY <1>1
<1> HIDE DEF f, p, rest
<1>7. /\ \A i \in 1 .. Len(p) : inbox[i] = p[i]
      /\ SubSeq(inbox, Len(p) + 1, Len(inbox)) \o wire = rest
      /\ Len(SubSeq(inbox, Len(p) + 1, Len(inbox))) = Len(inbox) - Len(p)
  BY <1>1, <1>3, <1>4, <1>5, CutBehind
<1>8. Size = Len(f)
  <2>1. inbox[1] = p[1] /\ inbox[2] = p[2]
    <3>1. 1 \in 1 .. Len(p) /\ 2 \in 1 .. Len(p)  BY <1>3
    <3> QED  BY <1>7, <3>1
  <2>2. Len(inbox) # 1  BY <1>1, <1>3, <1>6
  <2> QED  BY <1>3, <2>1, <2>2 DEF Size
<1>9. \A i \in 1 .. Len(f) : 2 + i <= Len(inbox) /\ inbox[2 + i] = f[i]
  <2> SUFFICES ASSUME NEW i \in 1 .. Len(f)
               PROVE  2 + i <= Len(inbox) /\ inbox[2 + i] = f[i]
    OBVIOUS
  <2>1. 2 + i \in 1 .. Len(p) /\ 2 + i <= Len(inbox)  BY <1>1, <1>3, <1>6
  <2> QED  BY <1>3, <1>7, <2>1
<1>10. 2 + Len(f) = Len(p)  BY <1>3
<1>11. /\ SubSeq(inbox, (2 + Len(f)) + 1, Len(inbox)) \o wire = rest
       /\ Len(SubSeq(inbox, (2 + Len(f)) + 1, Len(inbox))) = Len(inbox) - Len(p)
  BY <1>7, <1>10
<1> QED  BY <1>3, <1>8, <1>9, <1>11 DEF f, p, rest

LEMMA InStepInit ==
  ASSUME Init
  PROVE  InStep
<1>1. inbox = <<>> /\ wire = <<>> /\ queue = <<>> /\ inStep = TRUE  BY DEF Init
<1>2. inbox \in Seq(Byte) /\ wire \in Seq(Byte) /\ queue \in Seq(Frames)  BY <1>1
<1>3. inbox \o wire = <<>>  BY <1>1, <1>2, ConcatEmptySeq
<1> QED  BY <1>1, <1>2, <1>3, BytesEmpty DEF InStep

LEMMA InStepServerSends ==
  ASSUME InStep, ServerSends
  PROVE  InStep'
<1>1. PICK f \in Frames :
        wire' = wire \o Packet(f) /\ queue' = IF inStep THEN Append(queue, f) ELSE queue
  BY DEF ServerSends
<1>2. inbox' = inbox /\ inStep' = inStep  BY DEF ServerSends
<1>3. /\ inbox \in Seq(Byte) /\ wire \in Seq(Byte) /\ queue \in Seq(Frames)
      /\ inStep \in BOOLEAN
  BY DEF InStep
<1>4. Packet(f) \in Seq(Byte)  BY PacketIs
<1>5. wire' \in Seq(Byte) /\ queue' \in Seq(Frames)
  BY <1>1, <1>3, <1>4, ConcatProperties, AppendProperties
<1>6. CASE inStep
  <2>1. inbox \o wire = Bytes(queue)  BY <1>6 DEF InStep
  <2>2. inbox \o (wire \o Packet(f)) = (inbox \o wire) \o Packet(f)
    BY <1>3, <1>4, Associative
  <2>3. Bytes(Append(queue, f)) = Bytes(queue) \o Packet(f)  BY <1>3, BytesAppend
  <2>4. inbox' \o wire' = Bytes(queue')  BY <1>1, <1>2, <1>6, <2>1, <2>2, <2>3
  <2> QED  BY <1>2, <1>3, <1>5, <1>6, <2>4 DEF InStep
<1>7. CASE ~inStep
  <2>1. queue' = <<>>  BY <1>1, <1>7 DEF InStep
  <2> QED  BY <1>2, <1>3, <1>5, <1>7, <2>1 DEF InStep
<1> QED  BY <1>6, <1>7

LEMMA InStepArrive ==
  ASSUME InStep, Arrive
  PROVE  InStep' /\ Len(inbox) <= Len(inbox')
<1>1. PICK n \in 1 .. Len(wire) :
        inbox' = inbox \o SubSeq(wire, 1, n) /\ wire' = SubSeq(wire, n + 1, Len(wire))
  BY DEF Arrive
<1>2. queue' = queue /\ inStep' = inStep  BY DEF Arrive
<1>3. /\ inbox \in Seq(Byte) /\ wire \in Seq(Byte) /\ queue \in Seq(Frames)
      /\ inStep \in BOOLEAN /\ Len(wire) \in Nat
  BY DEF InStep
<1> DEFINE piece == SubSeq(wire, 1, n)
           left  == SubSeq(wire, n + 1, Len(wire))
<1>4. left \in Seq(Byte)
  <2>1. n \in Nat  OBVIOUS
  <2> QED  BY <1>3, <2>1, Drop
<1>5. piece \in Seq(Byte) /\ Len(piece) = n
  <2>1. n \in Int /\ n <= Len(wire) /\ \A i \in 1 .. n : wire[i] \in Byte  BY <1>3
  <2> QED  BY <2>1, SubSeqProperties
<1>6. piece \o left = wire
  <2>1. 1 \in 1 .. Len(wire) + 1 /\ n \in 1 - 1 .. Len(wire) /\ Len(wire) \in n .. Len(wire)
    BY <1>3
  <2>2. piece \o left = SubSeq(wire, 1, Len(wire))  BY <1>3, <2>1, ConcatAdjacentSubSeq
  <2> QED  BY <1>3, <2>2, SubSeqFull
<1> HIDE DEF piece, left
<1>7. inbox' = inbox \o piece /\ wire' = left  BY <1>1 DEF piece, left
<1>8. inbox' \in Seq(Byte) /\ wire' \in Seq(Byte) /\ Len(inbox') = Len(inbox) + n
  BY <1>3, <1>4, <1>5, <1>7, ConcatProperties
<1>9. inbox' \o wire' = inbox \o wire
  <2>1. (inbox \o piece) \o left = inbox \o (piece \o left)
    BY <1>3, <1>4, <1>5, Associative
  <2> QED  BY <1>6, <1>7, <2>1
<1>10. Len(inbox) <= Len(inbox')
  <2>1. Len(inbox) \in Nat /\ n \in Nat  BY <1>3
  <2> QED  BY <1>8, <2>1
<1> QED  BY <1>2, <1>3, <1>8, <1>9, <1>10 DEF InStep

(* What receive() does when the first frame is complete and not too long,  *)
(* and when it is not.                                                     *)
LEMMA Receives ==
  ASSUME InStep, receive
  PROVE  /\ inbox' \in Seq(Byte) /\ wire' = wire
         /\ IF inStep /\ HeadArrived /\ Len(Head(queue)) <= Limit
            THEN /\ taken' = [size |-> Len(Head(queue)), data |-> Head(queue)]
                 /\ queue' = Tail(queue) /\ inStep' = inStep
                 /\ inbox' \o wire = Bytes(Tail(queue))
                 /\ Len(inbox') = Len(inbox) - Len(Packet(Head(queue)))
            ELSE queue' = <<>> /\ inStep' = FALSE
<1>1. inbox \in Seq(Byte) /\ inbox # <<>> /\ queue \in Seq(Frames)  BY DEF InStep, receive
<1>2. Size \in Nat \cup {-1}  BY <1>1, SizeIs
<1>3. /\ Size = -1 \/ Overflows => inbox' = SubSeq(inbox, 2 + 1, Len(inbox))
      /\ ~(Size = -1 \/ Overflows) =>
           /\ inbox' = SubSeq(inbox, (2 + Size) + 1, Len(inbox))
           /\ taken' = [size |-> Size,
                        data |-> [i \in 1 .. Size |->
                                    IF 2 + i <= Len(inbox) THEN inbox[2 + i] ELSE Missing]]
  BY Zenon DEF receive, Read
<1>4. inbox' \in Seq(Byte)
  <2>1. CASE Size = -1 \/ Overflows
    <3>1. 2 \in Nat  OBVIOUS
    <3>2. SubSeq(inbox, 2 + 1, Len(inbox)) \in Seq(Byte)  BY <1>1, <3>1, Drop
    <3> QED  BY <1>3, <2>1, <3>2
  <2>2. CASE ~(Size = -1 \/ Overflows)
    <3>1. 2 + Size \in Nat  BY <1>2, <2>2
    <3>2. SubSeq(inbox, (2 + Size) + 1, Len(inbox)) \in Seq(Byte)  BY <1>1, <3>1, Drop
    <3> QED  BY <1>3, <2>2, <3>2
  <2> QED  BY <2>1, <2>2
<1>5. /\ wire' = wire
      /\ IF inStep /\ HeadArrived /\ Len(Head(queue)) <= Limit
         THEN queue' = Tail(queue) /\ inStep' = inStep
         ELSE queue' = <<>> /\ inStep' = FALSE
  BY Zenon DEF receive, HeadArrived
<1>6. ASSUME inStep, HeadArrived, Len(Head(queue)) <= Limit
      PROVE  /\ taken' = [size |-> Len(Head(queue)), data |-> Head(queue)]
             /\ inbox' \o wire = Bytes(Tail(queue))
             /\ Len(inbox') = Len(inbox) - Len(Packet(Head(queue)))
  <2>1. /\ Size = Len(Head(queue)) /\ Size \in Nat
        /\ \A i \in 1 .. Size : 2 + i <= Len(inbox) /\ inbox[2 + i] = Head(queue)[i]
        /\ SubSeq(inbox, (2 + Size) + 1, Len(inbox)) \o wire = Bytes(Tail(queue))
        /\ Len(SubSeq(inbox, (2 + Size) + 1, Len(inbox)))
             = Len(inbox) - Len(Packet(Head(queue)))
    BY <1>6, HeadIsRead
  <2>2. ~(Size = -1 \/ Overflows)
    <3>1. Limit \in Nat  BY FramingAssumption
    <3> QED  BY <1>6, <2>1, <3>1 DEF Overflows
  <2>3. inbox' = SubSeq(inbox, (2 + Size) + 1, Len(inbox))  BY <1>3, <2>2
  <2>4. [i \in 1 .. Size |-> IF 2 + i <= Len(inbox) THEN inbox[2 + i] ELSE Missing]
          = Head(queue)
    <3>1. Head(queue) \in Frames  BY <1>1, <1>6, HeadTailProperties DEF HeadArrived
    <3>2. Head(queue) \in Seq(Byte)  BY <3>1, FrameIs
    <3>3. Head(queue) = [i \in 1 .. Size |-> Head(queue)[i]]  BY <2>1, <3>2
    <3> QED  BY <2>1, <3>3
  <2> QED  BY <1>3, <2>1, <2>2, <2>3, <2>4
<1> QED  BY <1>4, <1>5, <1>6

LEMMA InStepReceive ==
  ASSUME InStep, receive
  PROVE  InStep'
<1>1. wire \in Seq(Byte) /\ queue \in Seq(Frames) /\ inStep \in BOOLEAN  BY DEF InStep
<1>2. CASE inStep /\ HeadArrived /\ Len(Head(queue)) <= Limit
  <2>1. /\ inbox' \in Seq(Byte) /\ wire' = wire /\ queue' = Tail(queue) /\ inStep' = inStep
        /\ inbox' \o wire = Bytes(Tail(queue))
    BY <1>2, Receives
  <2>2. queue' \in Seq(Frames)  BY <1>1, <1>2, <2>1, HeadTailProperties DEF HeadArrived
  <2> QED  BY <1>1, <1>2, <2>1, <2>2 DEF InStep
<1>3. CASE ~(inStep /\ HeadArrived /\ Len(Head(queue)) <= Limit)
  <2>1. inbox' \in Seq(Byte) /\ wire' = wire /\ queue' = <<>> /\ inStep' = FALSE
    BY <1>3, Receives
  <2>2. queue' \in Seq(Frames)  BY <2>1
  <2> QED  BY <1>1, <2>1, <2>2 DEF InStep
<1> QED  BY <1>2, <1>3

LEMMA InStepReconnect ==
  ASSUME Reconnect
  PROVE  InStep'
<1>1. inbox' = <<>> /\ wire' = <<>> /\ queue' = <<>> /\ inStep' = TRUE  BY DEF Reconnect
<1>2. inbox' \in Seq(Byte) /\ wire' \in Seq(Byte) /\ queue' \in Seq(Frames)  BY <1>1
<1>3. inbox' \o wire' = <<>>  BY <1>1, <1>2, ConcatEmptySeq
<1> QED  BY <1>1, <1>2, <1>3, BytesEmpty DEF InStep

(* As long as no frame was read before it had arrived, or was too long,    *)
(* what is unread are the packets of the frames that are due, whatever     *)
(* the pieces they arrive in (domoio.cpp:59-70).                           *)
THEOREM StaysInStep == Spec => []InStep
<1>1. Init => InStep  BY InStepInit
<1>2. InStep /\ [Next]_vars => InStep'
  <2> SUFFICES ASSUME InStep, [Next]_vars  PROVE InStep'
    OBVIOUS
  <2>1. CASE ServerSends  BY <2>1, InStepServerSends
  <2>2. CASE Arrive  BY <2>2, InStepArrive
  <2>3. CASE receive  BY <2>3, InStepReceive
  <2>4. CASE Reconnect  BY <2>4, InStepReconnect
  <2>5. CASE UNCHANGED vars  BY <2>5 DEF InStep, vars
  <2> QED  BY <2>1, <2>2, <2>3, <2>4, <2>5 DEF Next
<1> QED  BY <1>1, <1>2, PTL DEF Spec

-----------------------------------------------------------------------------
(* How many frames have arrived, of q, when n of its bytes have.           *)

ArrivedOf(q, n) == {k \in 0 .. Len(q) : Len(FirstBytes(q, k)) <= n}

WholeOf(q, n) == Max(ArrivedOf(q, n))

LEMMA WholeOfIs ==
  ASSUME NEW q \in Seq(Frames), NEW n \in Nat
  PROVE  /\ WholeOf(q, n) \in ArrivedOf(q, n) /\ WholeOf(q, n) \in 0 .. Len(q)
         /\ \A k \in ArrivedOf(q, n) : k <= WholeOf(q, n)
<1>1. Len(q) \in Nat /\ ArrivedOf(q, n) \in SUBSET (0 .. Len(q))  BY DEF ArrivedOf
<1>2. 0 \in ArrivedOf(q, n)
  <2>1. FirstBytes(q, 0) = <<>>  BY FirstBytesIs
  <2>2. 0 \in 0 .. Len(q) /\ Len(FirstBytes(q, 0)) <= n  BY <1>1, <2>1
  <2> QED  BY <2>2 DEF ArrivedOf
<1> DEFINE S == ArrivedOf(q, n)
<1> HIDE DEF S
<1>3. Max(S) \in S /\ \A k \in S : k <= Max(S)
  <2>1. S \in SUBSET (0 .. Len(q)) /\ S # {}  BY <1>1, <1>2 DEF S
  <2> QED  BY <1>1, <2>1, MaxIs
<1> QED  BY <1>1, <1>3 DEF S, WholeOf

LEMMA WholeOfIsOnly ==
  ASSUME NEW q \in Seq(Frames), NEW n \in Nat, NEW m \in ArrivedOf(q, n),
         \A k \in ArrivedOf(q, n) : k <= m
  PROVE  WholeOf(q, n) = m
<1>1. WholeOf(q, n) <= m /\ m <= WholeOf(q, n) /\ WholeOf(q, n) \in Nat  BY WholeOfIs
<1>2. m \in Nat  BY DEF ArrivedOf
<1> DEFINE w == WholeOf(q, n)
<1> HIDE DEF w
<1>3. w <= m /\ m <= w /\ w \in Nat  BY <1>1 DEF w
<1>4. w = m  BY <1>2, <1>3
<1> QED  BY <1>4 DEF w

LEMMA WholeOfEmpty ==
  ASSUME NEW n \in Nat
  PROVE  WholeOf(<<>>, n) = 0
<1>1. <<>> \in Seq(Frames) /\ Len(<<>>) = 0  OBVIOUS
<1>2. WholeOf(<<>>, n) \in 0 .. 0  BY <1>1, WholeOfIs
<1> QED  BY <1>2

(* A frame that is written behind them is not among them.                  *)
LEMMA WholeOfAppend ==
  ASSUME NEW q \in Seq(Frames), NEW f \in Frames, NEW n \in Nat, n <= Len(Bytes(q))
  PROVE  WholeOf(Append(q, f), n) = WholeOf(q, n)
<1> DEFINE r == Append(q, f)
<1>1. r \in Seq(Frames) /\ Len(r) = Len(q) + 1 /\ Len(q) \in Nat  BY AppendProperties
<1>2. \A k \in 0 .. Len(q) : FirstBytes(r, k) = FirstBytes(q, k)  BY BytesAppend
<1>3. ~(Len(FirstBytes(r, Len(q) + 1)) <= n)
  <2>1. FirstBytes(r, Len(q) + 1) = Bytes(q) \o Packet(f)
    <3>1. Bytes(r) = FirstBytes(r, Len(q) + 1)  BY <1>1, BytesIs
    <3> QED  BY <3>1, BytesAppend
  <2>2. Bytes(q) \in Seq(Byte) /\ Packet(f) \in Seq(Byte)  BY BytesIs, PacketIs
  <2>3. Len(Bytes(q)) \in Nat /\ Len(Packet(f)) = Len(f) + 2 /\ Len(f) \in Nat
    BY <2>2, PacketIs, FrameIs
  <2>4. Len(FirstBytes(r, Len(q) + 1)) = Len(Bytes(q)) + Len(Packet(f))
    BY <2>1, <2>2, ConcatProperties
  <2> QED  BY <2>3, <2>4
<1> HIDE DEF r
<1>4. ArrivedOf(r, n) = ArrivedOf(q, n)
  <2>1. ASSUME NEW k \in 0 .. Len(q)
        PROVE  k \in 0 .. Len(r) /\ FirstBytes(r, k) = FirstBytes(q, k)
    BY <1>1, <1>2
  <2>2. ASSUME NEW k \in 0 .. Len(r), Len(FirstBytes(r, k)) <= n
        PROVE  k \in 0 .. Len(q)
    BY <1>1, <1>3, <2>2
  <2> QED  BY <2>1, <2>2 DEF ArrivedOf
<1> QED  BY <1>4 DEF WholeOf, r

(* More bytes are not fewer frames.                                        *)
LEMMA WholeOfGrows ==
  ASSUME NEW q \in Seq(Frames), NEW n \in Nat, NEW m \in Nat, n <= m
  PROVE  WholeOf(q, n) <= WholeOf(q, m)
<1>1. ArrivedOf(q, n) \subseteq ArrivedOf(q, m)
  <2>1. \A k \in 0 .. Len(q) : Len(FirstBytes(q, k)) \in Nat  BY FirstBytesIs
  <2> QED  BY <2>1 DEF ArrivedOf
<1> QED  BY <1>1, WholeOfIs

(* The first has arrived, or none has.                                     *)
LEMMA WholeOfFirst ==
  ASSUME NEW q \in Seq(Frames), q # <<>>, NEW n \in Nat
  PROVE  /\ n < Len(Packet(Head(q))) => WholeOf(q, n) = 0
         /\ n >= Len(Packet(Head(q))) =>
              WholeOf(q, n) > 0 /\ WholeOf(Tail(q), n - Len(Packet(Head(q)))) = WholeOf(q, n) - 1
<1> DEFINE t == Tail(q)
           p == Packet(Head(q))
<1>1. /\ t \in Seq(Frames) /\ Len(q) = Len(t) + 1 /\ Len(t) \in Nat
      /\ p \in Seq(Byte) /\ Len(p) \in Nat
  <2>1. Head(q) \in Frames /\ t \in Seq(Frames) /\ Len(t) = Len(q) - 1
    BY HeadTailProperties
  <2>2. Len(q) \in Nat /\ Len(t) \in Nat  BY <2>1
  <2> QED  BY <2>1, <2>2, PacketIs
<1>2. \A k \in 0 .. Len(t) : FirstBytes(q, k + 1) = p \o FirstBytes(t, k)  BY BytesFirst
<1> HIDE DEF t, p
<1>3. ASSUME NEW k \in 0 .. Len(t)
      PROVE  Len(FirstBytes(q, k + 1)) = Len(p) + Len(FirstBytes(t, k))
             /\ Len(FirstBytes(t, k)) \in Nat
  <2>1. FirstBytes(t, k) \in Seq(Byte)  BY <1>1, FirstBytesIs
  <2> QED  BY <1>1, <1>2, <2>1, ConcatProperties
<1>4. 0 \in ArrivedOf(q, n)
  <2>1. FirstBytes(q, 0) = <<>>  BY FirstBytesIs
  <2> QED  BY <1>1, <2>1 DEF ArrivedOf
<1>5. ASSUME n < Len(p)  PROVE WholeOf(q, n) = 0
  <2>1. ASSUME NEW k \in ArrivedOf(q, n)  PROVE k <= 0
    <3>1. k \in 0 .. Len(q) /\ Len(FirstBytes(q, k)) <= n  BY DEF ArrivedOf
    <3>2. CASE k # 0
      <4>1. k - 1 \in 0 .. Len(t) /\ (k - 1) + 1 = k  BY <1>1, <3>1, <3>2
      <4>2. Len(FirstBytes(q, k)) = Len(p) + Len(FirstBytes(t, k - 1))
            /\ Len(FirstBytes(t, k - 1)) \in Nat
        BY <1>3, <4>1
      <4> QED  BY <1>1, <1>5, <3>1, <4>2
    <3> QED  BY <3>2
  <2> QED  BY <1>4, <2>1, WholeOfIsOnly
<1>6. ASSUME n >= Len(p)
      PROVE  WholeOf(q, n) > 0 /\ WholeOf(t, n - Len(p)) = WholeOf(q, n) - 1
  <2> DEFINE m == n - Len(p)
             w == WholeOf(t, m)
  <2>1. m \in Nat /\ n = m + Len(p)  BY <1>1, <1>6
  <2> HIDE DEF m
  <2>2. /\ w \in 0 .. Len(t) /\ Len(FirstBytes(t, w)) <= m
        /\ \A k \in ArrivedOf(t, m) : k <= w
    BY <1>1, <2>1, WholeOfIs DEF ArrivedOf
  <2> HIDE DEF w
  <2>3. w + 1 \in ArrivedOf(q, n)
    <3>1. w + 1 \in 0 .. Len(q)  BY <1>1, <2>2
    <3>2. Len(FirstBytes(q, w + 1)) = Len(p) + Len(FirstBytes(t, w))
          /\ Len(FirstBytes(t, w)) \in Nat
      BY <1>3, <2>2
    <3>3. Len(FirstBytes(q, w + 1)) <= n  BY <1>1, <2>1, <2>2, <3>2
    <3> QED  BY <3>1, <3>3 DEF ArrivedOf
  <2>4. ASSUME NEW k \in ArrivedOf(q, n)  PROVE k <= w + 1
    <3>1. k \in 0 .. Len(q) /\ Len(FirstBytes(q, k)) <= n  BY DEF ArrivedOf
    <3>2. CASE k = 0  BY <2>2, <3>2
    <3>3. CASE k # 0
      <4>1. k - 1 \in 0 .. Len(t) /\ (k - 1) + 1 = k  BY <1>1, <3>1, <3>3
      <4>2. Len(FirstBytes(q, k)) = Len(p) + Len(FirstBytes(t, k - 1))
            /\ Len(FirstBytes(t, k - 1)) \in Nat
        BY <1>3, <4>1
      <4>3. Len(FirstBytes(t, k - 1)) <= m  BY <1>1, <2>1, <3>1, <4>2
      <4>4. k - 1 \in ArrivedOf(t, m)  BY <4>1, <4>3 DEF ArrivedOf
      <4>5. k - 1 <= w  BY <2>2, <4>4
      <4> QED  BY <2>2, <3>1, <4>5
    <3> QED  BY <3>2, <3>3
  <2>5. WholeOf(q, n) = w + 1  BY <2>3, <2>4, WholeOfIsOnly
  <2>6. w \in Nat  BY <2>2
  <2> QED  BY <2>5, <2>6 DEF w, m
<1> QED  BY <1>5, <1>6 DEF t, p

-----------------------------------------------------------------------------
(* Every step keeps the promise of FrameQueue.                             *)

LEMMA WholeIs ==
  /\ Whole = WholeOf(queue, Len(inbox))
  /\ Whole' = WholeOf(queue', Len(inbox'))
<1> QED  BY DEF Whole, Arrived, WholeOf, ArrivedOf, FirstBytes

LEMMA PromiseInit ==
  ASSUME Init
  PROVE  Promise!Init
<1>1. queue = <<>> /\ inbox = <<>> /\ taken = NoFrame /\ inStep = TRUE  BY DEF Init
<1>2. Len(inbox) = 0  BY <1>1
<1>3. Whole = 0  BY <1>1, <1>2, WholeIs, WholeOfEmpty
<1> QED  BY <1>1, <1>3 DEF Promise!Init, Promise!NoFrame, NoFrame

(* Out of step nothing is due, and anything may be taken.                  *)
LEMMA Garbles ==
  ASSUME InStep, InStep', ~inStep, inStep' = inStep
  PROVE  Promise!Garble
<1>1. queue = <<>> /\ queue' = <<>>  BY DEF InStep
<1>2. Len(inbox) \in Nat /\ Len(inbox') \in Nat  BY DEF InStep
<1>3. Whole = 0 /\ Whole' = 0  BY <1>1, <1>2, WholeIs, WholeOfEmpty
<1> QED  BY <1>1, <1>3 DEF Promise!Garble

LEMMA PutStep ==
  ASSUME InStep, InStep', ServerSends
  PROVE  Promise!Put \/ Promise!Garble
<1>1. PICK f \in Frames : queue' = IF inStep THEN Append(queue, f) ELSE queue
  BY DEF ServerSends
<1>2. inbox' = inbox /\ inStep' = inStep /\ taken' = NoFrame  BY DEF ServerSends
<1>3. CASE inStep
  <2>1. /\ queue \in Seq(Frames) /\ inbox \in Seq(Byte) /\ wire \in Seq(Byte)
        /\ inbox \o wire = Bytes(queue)
    BY <1>3 DEF InStep
  <2>2. Len(inbox) \in Nat /\ Len(wire) \in Nat /\ Len(Bytes(queue)) = Len(inbox) + Len(wire)
    BY <2>1, ConcatProperties
  <2>3. Len(inbox) <= Len(Bytes(queue))  BY <2>2
  <2>4. Whole' = Whole
    BY <1>1, <1>2, <1>3, <2>1, <2>2, <2>3, WholeIs, WholeOfAppend
  <2> QED  BY <1>1, <1>2, <1>3, <2>4 DEF Promise!Put, Promise!NoFrame, NoFrame
<1>4. CASE ~inStep  BY <1>2, <1>4, Garbles
<1> QED  BY <1>3, <1>4

LEMMA ArriveStep ==
  ASSUME InStep, InStep', Arrive
  PROVE  Promise!Arrive \/ Promise!Garble
<1>1. queue' = queue /\ inStep' = inStep /\ taken' = NoFrame  BY DEF Arrive
<1>2. CASE inStep
  <2>1. queue \in Seq(Frames) /\ Len(inbox) \in Nat /\ Len(inbox') \in Nat  BY DEF InStep
  <2>2. Len(inbox) <= Len(inbox')  BY InStepArrive
  <2>3. Whole <= Whole'  BY <1>1, <2>1, <2>2, WholeIs, WholeOfGrows
  <2>4. Whole \in 0 .. Len(queue) /\ Whole' \in 0 .. Len(queue)
    BY <1>1, <2>1, WholeIs, WholeOfIs
  <2>5. Whole' \in Whole .. Len(queue)  BY <2>1, <2>3, <2>4
  <2> QED  BY <1>1, <1>2, <2>5 DEF Promise!Arrive, Promise!NoFrame, NoFrame
<1>3. CASE ~inStep  BY <1>1, <1>3, Garbles
<1> QED  BY <1>2, <1>3

LEMMA TakeStep ==
  ASSUME InStep, InStep', receive
  PROVE  Promise!Take \/ Promise!Break \/ Promise!Garble
<1>1. queue \in Seq(Frames) /\ inStep \in BOOLEAN /\ Len(inbox) \in Nat /\ Len(inbox') \in Nat
  BY DEF InStep
<1>2. CASE inStep /\ HeadArrived /\ Len(Head(queue)) <= Limit
  <2>1. /\ taken' = [size |-> Len(Head(queue)), data |-> Head(queue)]
        /\ queue' = Tail(queue) /\ inStep' = inStep
        /\ Len(inbox') = Len(inbox) - Len(Packet(Head(queue)))
    BY <1>2, Receives
  <2>2. queue # <<>> /\ Len(inbox) >= Len(Packet(Head(queue)))  BY <1>2 DEF HeadArrived
  <2>3. Whole > 0 /\ Whole' = Whole - 1
    BY <1>1, <2>1, <2>2, WholeIs, WholeOfFirst
  <2> QED  BY <1>2, <2>1, <2>3 DEF Promise!Take, Promise!FrameOf
<1>3. CASE inStep /\ ~(HeadArrived /\ Len(Head(queue)) <= Limit)
  <2>1. queue' = <<>> /\ inStep' = FALSE  BY <1>3, Receives
  <2>2. Whole' = 0  BY <1>1, <2>1, WholeIs, WholeOfEmpty
  <2>3. queue # <<>>
    <3>1. inbox \in Seq(Byte) /\ wire \in Seq(Byte) /\ inbox # <<>>
          /\ inbox \o wire = Bytes(queue)
      BY <1>3 DEF InStep, receive
    <3>2. inbox \o wire # <<>>  BY <3>1, ConcatEqualIffEmpty
    <3> QED  BY <3>1, <3>2, BytesEmpty
  <2>4. Whole = 0 \/ Len(Head(queue)) > Limit
    <3>1. Head(queue) \in Frames  BY <1>1, <2>3, HeadTailProperties
    <3>2. Len(Head(queue)) \in Nat /\ Limit \in Nat /\ Len(Packet(Head(queue))) \in Nat
      BY <3>1, FrameIs, PacketIs, FramingAssumption
    <3>3. CASE Len(Head(queue)) <= Limit
      <4>1. Len(inbox) < Len(Packet(Head(queue)))
        BY <1>1, <1>3, <2>3, <3>2, <3>3 DEF HeadArrived
      <4> QED  BY <1>1, <2>3, <4>1, WholeIs, WholeOfFirst
    <3> QED  BY <3>2, <3>3
  <2> QED  BY <1>3, <2>1, <2>2, <2>3, <2>4 DEF Promise!Break
<1>4. CASE ~inStep
  <2>1. inStep' = FALSE  BY <1>4, Receives
  <2> QED  BY <1>1, <1>4, <2>1, Garbles
<1> QED  BY <1>2, <1>3, <1>4

LEMMA ReconnectStep ==
  ASSUME Reconnect
  PROVE  Promise!Reconnect
<1>1. queue' = <<>> /\ inbox' = <<>> /\ taken' = NoFrame /\ inStep' = TRUE  BY DEF Reconnect
<1>2. Len(inbox') = 0  BY <1>1
<1>3. Whole' = 0  BY <1>1, <1>2, WholeIs, WholeOfEmpty
<1> QED  BY <1>1, <1>3 DEF Promise!Reconnect, Promise!NoFrame, NoFrame

(* A frame that has arrived and is not too long is received as it was      *)
(* sent, in its order, until one is read too early or is too long, and a   *)
(* new connection starts in step: Framing implements FrameQueue, which     *)
(* Session and Messages rely on (domoio.cpp:52-73, 129-140).               *)
THEOREM ImplementsFrameQueue == Spec => KeepsPromise
<1>1. Init => Promise!Init  BY PromiseInit
<1>2. InStep /\ InStep' /\ [Next]_vars => [Promise!Next]_(Promise!vars)
  <2> SUFFICES ASSUME InStep, InStep', [Next]_vars
               PROVE  [Promise!Next]_(Promise!vars)
    OBVIOUS
  <2>1. CASE ServerSends  BY <2>1, PutStep DEF Promise!Next
  <2>2. CASE Arrive  BY <2>2, ArriveStep DEF Promise!Next
  <2>3. CASE receive  BY <2>3, TakeStep DEF Promise!Next
  <2>4. CASE Reconnect  BY <2>4, ReconnectStep DEF Promise!Next
  <2>5. CASE UNCHANGED vars
    <3>1. queue' = queue /\ inbox' = inbox /\ taken' = taken /\ inStep' = inStep
      BY <2>5 DEF vars
    <3>2. Whole' = Whole  BY <3>1, WholeIs
    <3> QED  BY <3>1, <3>2 DEF Promise!vars
  <2> QED  BY <2>1, <2>2, <2>3, <2>4, <2>5 DEF Next
<1> QED  BY <1>1, <1>2, StaysInStep, PTL DEF Spec, KeepsPromise, Promise!Spec
=============================================================================

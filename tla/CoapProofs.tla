----------------------------- MODULE CoapProofs -----------------------------
(***************************************************************************)
(* Proofs about the two halves of cantcoap.                                *)
(*                                                                         *)
(* CoapPdu: whatever the order of the calls, the bytes hold the options    *)
(* one behind the other in the order of their numbers, and validate() and  *)
(* getOptions() read them back.                                            *)
(*                                                                         *)
(* CoapUri: what getURI() writes stays in the buffer, however long the     *)
(* options, and of every well-formed URI it restores what fits.            *)
(***************************************************************************)
EXTENDS CoapPdu, CoapUri, SequenceTheorems, FiniteSetTheorems,
        WellFoundedInduction, TLAPS

-----------------------------------------------------------------------------
(* Induction, on a set of natural numbers.                                 *)

LEMMA SetInduction ==
  ASSUME NEW S, 0 \in S, \A n \in Nat : n \in S => n + 1 \in S
  PROVE  Nat \subseteq S
<1> DEFINE T == Nat \ S
<1>1. SUFFICES ASSUME T # {}  PROVE FALSE
  OBVIOUS
<1>2. PICK x \in T : \A y \in T : <<y, x>> \notin OpToRel(<, Nat)
  BY <1>1, WFMin, NatLessThanWellFounded, Zenon
<1>3. \A y \in T : ~ (y < x)
  BY <1>2 DEF OpToRel
<1>4. x # 0 /\ x - 1 \in Nat /\ x - 1 < x
  OBVIOUS
<1>5. x - 1 \in S
  BY <1>3, <1>4
<1> QED  BY <1>4, <1>5

(* Up to n, as for the rounds of a loop.                                   *)
LEMMA UpTo ==
  ASSUME NEW n \in Nat, NEW S, 0 \in S, \A k \in 1 .. n : k - 1 \in S => k \in S
  PROVE  0 .. n \subseteq S
<1> DEFINE T == {k \in Nat : k <= n => k \in S}
<1>1. 0 \in T  OBVIOUS
<1>2. ASSUME NEW k \in Nat, k \in T  PROVE k + 1 \in T
  <2>1. SUFFICES ASSUME k + 1 <= n  PROVE k + 1 \in S
    OBVIOUS
  <2>2. k \in S  BY <1>2, <2>1
  <2>3. k + 1 \in 1 .. n /\ (k + 1) - 1 = k  BY <2>1
  <2> QED  BY <2>2, <2>3
<1>3. Nat \subseteq T
  <2> HIDE DEF T
  <2> QED  BY <1>1, <1>2, SetInduction
<1> QED  BY <1>3

-----------------------------------------------------------------------------
(* The header of an option.                                                *)

(* The numbers of two bytes, which the provers must not enumerate.         *)
Sized == {n \in Nat : n <= MaxUint16}

LEMMA SizedIs ==
  ASSUME NEW n
  PROVE  n \in Sized <=> n \in Nat /\ n <= 65535
BY DEF Sized, MaxUint16

LEMMA SizedRange == Sized = 0 .. MaxUint16
<1>1. MaxUint16 \in Nat  BY DEF MaxUint16
<1> QED  BY <1>1 DEF Sized

LEMMA LengthIs ==
  ASSUME NEW n \in Nat, n <= MaxLength
  PROVE  n \in Sized
BY SizedIs DEF MaxLength, MaxUint16

LEMMA Uint16Is ==
  ASSUME NEW n \in Sized
  PROVE  Uint16(n) = n
<1>1. n \in Nat /\ n <= 65535  BY SizedIs
<1> QED  BY <1>1 DEF Uint16, MaxUint16

LEMMA NibbleIs ==
  ASSUME NEW n \in Sized
  PROVE  /\ ExtraBytes(n) \in 0 .. 2
         /\ Nibble(n) \in 0 .. 14
         /\ Nibble(n) = 13 <=> ExtraBytes(n) = 1
         /\ Nibble(n) = 14 <=> ExtraBytes(n) = 2
         /\ ExtraBytes(n) = 0 => Nibble(n) = n
         /\ ExtraBytes(Nibble(n)) <= ExtraBytes(n)
BY SizedIs DEF Nibble, ExtraBytes

LEMMA ByteIs ==
  ASSUME NEW n \in Byte
  PROVE  n \in Cell /\ n \in Nat /\ n <= 255
BY DEF Byte, Cell, Junk

LEMMA BytesAreCells ==
  ASSUME NEW s \in Seq(Byte)
  PROVE  s \in Seq(Cell)
<1>1. Byte \subseteq Cell  BY ByteIs
<1> QED  BY <1>1, SeqMonotonic

LEMMA One ==
  ASSUME NEW x \in Cell
  PROVE  <<x>> \in Seq(Cell) /\ Len(<<x>>) = 1 /\ <<x>>[1] = x
OBVIOUS

LEMMA Two ==
  ASSUME NEW x \in Cell, NEW y \in Cell
  PROVE  <<x, y>> \in Seq(Cell) /\ Len(<<x, y>>) = 2 /\ <<x, y>>[1] = x /\ <<x, y>>[2] = y
OBVIOUS

LEMMA ExtraIs ==
  ASSUME NEW n \in Sized
  PROVE  /\ Extra(n) \in Seq(Cell)
         /\ Len(Extra(n)) = ExtraBytes(n)
         /\ ExtraBytes(n) = 1 => Extra(n)[1] + 13 = n
         /\ ExtraBytes(n) = 2 => 256 * Extra(n)[1] + Extra(n)[2] + 269 = n
<1>0. n \in Nat /\ n <= 65535  BY SizedIs
<1>1. CASE n < 13
  <2>1. ExtraBytes(n) = 0 /\ 0 # 1 /\ 0 # 2  BY <1>0, <1>1 DEF ExtraBytes
  <2>2. Extra(n) = <<>>  BY <2>1, Zenon DEF Extra
  <2> QED  BY <2>1, <2>2
<1>2. CASE 13 <= n /\ n < 269
  <2> DEFINE a == n - 13
  <2>1. ExtraBytes(n) = 1 /\ 1 # 0 /\ 1 # 2  BY <1>0, <1>2 DEF ExtraBytes
  <2>2. Extra(n) = <<a>>  BY <2>1, Zenon DEF Extra
  <2>3. a \in Cell /\ a + 13 = n  BY <1>0, <1>2 DEF Cell, Junk
  <2> HIDE DEF a
  <2>4. <<a>> \in Seq(Cell) /\ Len(<<a>>) = 1 /\ <<a>>[1] = a  BY <2>3, One
  <2> QED  BY <2>1, <2>2, <2>3, <2>4
<1>3. CASE 269 <= n
  <2> DEFINE a == (n - 269) \div 256
             b == (n - 269) % 256
  <2>1. ExtraBytes(n) = 2 /\ 2 # 0 /\ 2 # 1  BY <1>0, <1>3 DEF ExtraBytes
  <2>2. Extra(n) = <<a, b>>  BY <2>1, Zenon DEF Extra
  <2>3. a \in Cell /\ b \in Cell /\ 256 * a + b + 269 = n  BY <1>0, <1>3 DEF Cell, Junk
  <2> HIDE DEF a, b
  <2>4. <<a, b>> \in Seq(Cell) /\ Len(<<a, b>>) = 2 /\ <<a, b>>[1] = a /\ <<a, b>>[2] = b
    BY <2>3, Two
  <2> QED  BY <2>1, <2>2, <2>3, <2>4
<1> QED  BY <1>0, <1>1, <1>2, <1>3

(* The first byte of an option.                                            *)
First(delta, length) == 16 * Nibble(delta) + Nibble(length)

LEMMA FirstIs ==
  ASSUME NEW d \in Sized, NEW l \in Sized
  PROVE  /\ First(d, l) \in Cell /\ First(d, l) # Marker
         /\ First(d, l) \div 16 = Nibble(d) /\ First(d, l) % 16 = Nibble(l)
<1>1. Nibble(d) \in 0 .. 14 /\ Nibble(l) \in 0 .. 14  BY NibbleIs
<1> QED  BY <1>1 DEF First, Cell, Junk, Marker

LEMMA HeaderIs ==
  ASSUME NEW d \in Sized, NEW l \in Sized
  PROVE  /\ Header(d, l) = (<<First(d, l)>> \o Extra(d)) \o Extra(l)
         /\ <<First(d, l)>> \in Seq(Cell) /\ Len(<<First(d, l)>>) = 1
         /\ <<First(d, l)>> \o Extra(d) \in Seq(Cell)
         /\ Len(<<First(d, l)>> \o Extra(d)) = 1 + ExtraBytes(d)
         /\ Header(d, l) \in Seq(Cell)
         /\ Len(Header(d, l)) = 1 + ExtraBytes(d) + ExtraBytes(l)
<1> DEFINE f == <<First(d, l)>>  x == Extra(d)  y == Extra(l)
<1>1. Header(d, l) = (f \o x) \o y  BY DEF Header, First
<1>2. First(d, l) \in Cell  BY FirstIs
<1>3. f \in Seq(Cell) /\ Len(f) = 1  BY <1>2, One, Zenon
<1>4. x \in Seq(Cell) /\ y \in Seq(Cell)  BY ExtraIs
<1>5. Len(x) = ExtraBytes(d) /\ Len(y) = ExtraBytes(l)  BY ExtraIs
<1> HIDE DEF f, x, y
<1>6. f \o x \in Seq(Cell) /\ Len(f \o x) = 1 + ExtraBytes(d)
  <2>1. f \o x \in Seq(Cell) /\ Len(f \o x) = Len(f) + Len(x)  BY <1>3, <1>4, ConcatProperties, Zenon
  <2> QED  BY <1>3, <1>5, <2>1
<1>7. (f \o x) \o y \in Seq(Cell) /\ Len((f \o x) \o y) = 1 + ExtraBytes(d) + ExtraBytes(l)
  BY <1>4, <1>5, <1>6
<1> QED  BY <1>1, <1>3, <1>6, <1>7 DEF f, x, y

-----------------------------------------------------------------------------
(* What bytes hold at a position.                                          *)

LEMMA HoldsConcat ==
  ASSUME NEW x \in Seq(Cell), NEW y \in Seq(Cell), NEW at \in Nat, NEW b \in Seq(Cell)
  PROVE  HoldsAt(b, at, x \o y) <=> HoldsAt(b, at, x) /\ HoldsAt(b, at + Len(x), y)
<1> DEFINE c == x \o y
<1>1. /\ Len(c) = Len(x) + Len(y) /\ Len(x) \in Nat /\ Len(y) \in Nat
      /\ \A i \in 1 .. Len(x) : c[i] = x[i]
      /\ \A i \in 1 .. Len(y) : c[Len(x) + i] = y[i]
  OBVIOUS
<1>2. ASSUME HoldsAt(b, at, c)
      PROVE  HoldsAt(b, at, x) /\ HoldsAt(b, at + Len(x), y)
  <2> HIDE DEF c
  <2>1. ASSUME NEW i \in 1 .. Len(y)  PROVE b[at + Len(x) + i - 1] = y[i]
    <3>1. Len(x) + i \in 1 .. Len(c)  BY <1>1
    <3>2. b[at + (Len(x) + i) - 1] = c[Len(x) + i]  BY <1>2, <3>1 DEF HoldsAt
    <3>3. at + (Len(x) + i) - 1 = at + Len(x) + i - 1  BY <1>1
    <3> QED  BY <1>1, <3>2, <3>3
  <2>2. \A i \in 1 .. Len(x) : b[at + i - 1] = x[i]  BY <1>1, <1>2 DEF HoldsAt
  <2>3. at + Len(x) + Len(y) <= Len(b) + 1  BY <1>1, <1>2 DEF HoldsAt
  <2> QED  BY <1>1, <2>1, <2>2, <2>3 DEF HoldsAt
<1>3. ASSUME HoldsAt(b, at, x), HoldsAt(b, at + Len(x), y)
      PROVE  HoldsAt(b, at, c)
  <2> HIDE DEF c
  <2>1. ASSUME NEW i \in 1 .. Len(c)  PROVE b[at + i - 1] = c[i]
    <3>1. CASE i <= Len(x)  BY <1>1, <1>3, <3>1 DEF HoldsAt
    <3>2. CASE i > Len(x)
      <4> DEFINE j == i - Len(x)
      <4>1. j \in 1 .. Len(y) /\ i = Len(x) + j  BY <1>1, <3>2
      <4>2. b[at + Len(x) + j - 1] = y[j]  BY <1>3, <4>1 DEF HoldsAt
      <4>3. at + Len(x) + j - 1 = at + i - 1  BY <1>1
      <4> QED  BY <1>1, <4>1, <4>2, <4>3
    <3> QED  BY <1>1, <3>1, <3>2
  <2> QED  BY <1>1, <1>3, <2>1 DEF HoldsAt
<1> QED  BY <1>2, <1>3

(* What is held moves along with the bytes.                                *)
LEMMA HoldsMoved ==
  ASSUME NEW c \in Seq(Cell), NEW at \in Nat, NEW shift \in Int,
         NEW b, NEW b2, Len(b2) \in Nat, at + shift \in Nat,
         HoldsAt(b, at, c), at + shift + Len(c) <= Len(b2) + 1,
         \A i \in at .. at + Len(c) - 1 : b2[i + shift] = b[i]
  PROVE  HoldsAt(b2, at + shift, c)
<1>1. ASSUME NEW i \in 1 .. Len(c)  PROVE b2[at + shift + i - 1] = c[i]
  <2>1. at + i - 1 \in at .. at + Len(c) - 1 /\ (at + i - 1) + shift = at + shift + i - 1
    OBVIOUS
  <2> QED  BY <2>1 DEF HoldsAt
<1> QED  BY <1>1 DEF HoldsAt

(* The bytes of an option one by one.                                      *)
Holds(b, at, d, v) == HoldsAt(b, at, Header(d, Len(v)) \o v)

LEMMA Pieces ==
  ASSUME NEW d \in Sized, NEW v \in Seq(Cell), Len(v) \in Sized,
         NEW at \in Nat, NEW b \in Seq(Cell)
  PROVE  Holds(b, at, d, v) <=>
           /\ at <= Len(b) /\ b[at] = First(d, Len(v))
           /\ HoldsAt(b, at + 1, Extra(d))
           /\ HoldsAt(b, at + 1 + ExtraBytes(d), Extra(Len(v)))
           /\ HoldsAt(b, at + 1 + ExtraBytes(d) + ExtraBytes(Len(v)), v)
<1> DEFINE l == Len(v)  f == <<First(d, l)>>  x == Extra(d)  y == Extra(l)  h == Header(d, l)
<1>1. x \in Seq(Cell) /\ y \in Seq(Cell)  BY ExtraIs
<1>2. /\ f \in Seq(Cell) /\ Len(f) = 1
      /\ h = (f \o x) \o y /\ h \in Seq(Cell) /\ Len(h) = 1 + ExtraBytes(d) + ExtraBytes(l)
      /\ f \o x \in Seq(Cell) /\ Len(f \o x) = 1 + ExtraBytes(d)
  BY HeaderIs, Zenon
<1>3. f[1] = First(d, l)  OBVIOUS
<1>4. ExtraBytes(d) \in Nat /\ ExtraBytes(l) \in Nat /\ Len(b) \in Nat  BY NibbleIs
<1>5. HoldsAt(b, at, h \o v) <=> HoldsAt(b, at, h) /\ HoldsAt(b, at + Len(h), v)
  BY <1>2, HoldsConcat, Zenon
<1>6. HoldsAt(b, at, (f \o x) \o y) <=> HoldsAt(b, at, f \o x) /\ HoldsAt(b, at + Len(f \o x), y)
  BY <1>1, <1>2, HoldsConcat, Zenon
<1>7. HoldsAt(b, at, f \o x) <=> HoldsAt(b, at, f) /\ HoldsAt(b, at + Len(f), x)
  BY <1>1, <1>2, HoldsConcat, Zenon
<1> HIDE DEF f, x, y, h
<1>8. HoldsAt(b, at, f) <=> at <= Len(b) /\ b[at] = First(d, l)
  <2>1. \A i \in 1 .. Len(f) : at + i - 1 = at /\ i = 1  BY <1>2
  <2>2. 1 \in 1 .. Len(f)  BY <1>2
  <2>3. at + Len(f) <= Len(b) + 1 <=> at <= Len(b)  BY <1>2, <1>4
  <2>4. (\A i \in 1 .. Len(f) : b[at + i - 1] = f[i]) => b[at] = f[1]
    <3> SUFFICES ASSUME \A i \in 1 .. Len(f) : b[at + i - 1] = f[i]  PROVE b[at] = f[1]
      OBVIOUS
    <3>1. b[at + 1 - 1] = f[1] /\ at + 1 - 1 = at  BY <2>2
    <3> QED  BY <3>1
  <2>5. ASSUME b[at] = f[1], NEW i \in 1 .. Len(f)  PROVE b[at + i - 1] = f[i]
    <3>1. at + i - 1 = at /\ i = 1  BY <2>1
    <3> QED  BY <2>5, <3>1, Zenon
  <2>6. b[at] = f[1] => \A i \in 1 .. Len(f) : b[at + i - 1] = f[i]  BY <2>5, Zenon
  <2>7. HoldsAt(b, at, f) <=> at <= Len(b) /\ b[at] = f[1]
    BY <2>3, <2>4, <2>6, Zenon DEF HoldsAt
  <2> QED  BY <1>3, <2>7
<1>9. at + Len(h) = at + 1 + ExtraBytes(d) + ExtraBytes(l) /\ at + Len(f \o x) = at + 1 + ExtraBytes(d)
  BY <1>2, <1>4, SMTT(20)
<1>10. Holds(b, at, d, v) <=> HoldsAt(b, at, h \o v)  BY DEF Holds, h
<1>11. Holds(b, at, d, v) <=>
         /\ at <= Len(b) /\ b[at] = First(d, l)
         /\ HoldsAt(b, at + 1, x)
         /\ HoldsAt(b, at + 1 + ExtraBytes(d), y)
         /\ HoldsAt(b, at + 1 + ExtraBytes(d) + ExtraBytes(l), v)
  <2> HIDE DEF l
  <2> QED  BY <1>2, <1>5, <1>6, <1>7, <1>8, <1>9, <1>10, Zenon
<1> QED  BY <1>11 DEF x, y

-----------------------------------------------------------------------------
(* Reading an option.                                                      *)

LEMMA ExtendedIs ==
  ASSUME NEW n \in Sized, NEW at \in Nat, NEW b \in Seq(Cell), HoldsAt(b, at, Extra(n))
  PROVE  Extended(b, Nibble(n), at) = n
<1>1. /\ n \in Nat /\ n <= 65535 /\ ExtraBytes(n) \in 0 .. 2 /\ Nibble(n) \in 0 .. 14
      /\ Nibble(n) = 13 <=> ExtraBytes(n) = 1
      /\ Nibble(n) = 14 <=> ExtraBytes(n) = 2
      /\ ExtraBytes(n) = 0 => Nibble(n) = n
  BY SizedIs, NibbleIs
<1>2. /\ Len(Extra(n)) = ExtraBytes(n)
      /\ ExtraBytes(n) = 1 => Extra(n)[1] + 13 = n
      /\ ExtraBytes(n) = 2 => 256 * Extra(n)[1] + Extra(n)[2] + 269 = n
  BY ExtraIs
<1>3. \A i \in 1 .. ExtraBytes(n) : b[at + i - 1] = Extra(n)[i]  BY <1>2 DEF HoldsAt
<1>4. CASE ExtraBytes(n) = 0
  <2>1. Nibble(n) # 13 /\ Nibble(n) # 14 /\ Nibble(n) = n  BY <1>1, <1>4
  <2> QED  BY <2>1 DEF Extended
<1>5. CASE ExtraBytes(n) = 1
  <2>1. Nibble(n) = 13 /\ Nibble(n) # 14  BY <1>1, <1>5
  <2>2. b[at + 1 - 1] = Extra(n)[1] /\ at + 1 - 1 = at  BY <1>3, <1>5
  <2>3. b[at] + 13 = n  BY <1>2, <1>5, <2>2
  <2> QED  BY <2>1, <2>3, Zenon DEF Extended
<1>6. CASE ExtraBytes(n) = 2
  <2>1. Nibble(n) = 14 /\ Nibble(n) # 13  BY <1>1, <1>6
  <2>2. b[at + 1 - 1] = Extra(n)[1] /\ at + 1 - 1 = at  BY <1>3, <1>6
  <2>3. b[at + 2 - 1] = Extra(n)[2] /\ at + 2 - 1 = at + 1  BY <1>3, <1>6
  <2>4. 256 * b[at] + b[at + 1] + 269 = n  BY <1>2, <1>6, <2>2, <2>3
  <2>5. Uint16(n) = n  BY Uint16Is
  <2>6. Uint16(256 * b[at] + b[at + 1] + 269) = n  BY <2>4, <2>5
  <2> QED  BY <2>1, <2>6, Zenon DEF Extended
<1> QED  BY <1>1, <1>4, <1>5, <1>6

LEMMA HeldIs ==
  ASSUME NEW v \in Seq(Cell), NEW at \in Nat, at # 0, NEW b \in Seq(Cell), HoldsAt(b, at, v)
  PROVE  SubSeq(b, at, at + Len(v) - 1) = v
<1> DEFINE w == SubSeq(b, at, at + Len(v) - 1)
<1>1. at + Len(v) - 1 <= Len(b) /\ Len(b) \in Nat /\ Len(v) \in Nat  BY DEF HoldsAt
<1>2. w \in Seq(Cell) /\ Len(w) = Len(v) /\ \A i \in 1 .. Len(v) : w[i] = b[at + i - 1]
  BY <1>1
<1>3. \A i \in 1 .. Len(v) : w[i] = v[i]  BY <1>2 DEF HoldsAt
<1> HIDE DEF w
<1>4. w = v  BY <1>2, <1>3, SeqEqual
<1> QED  BY <1>4 DEF w

LEMMA ValueIs ==
  ASSUME NEW d \in Sized, NEW v \in Seq(Cell), Len(v) \in Sized, NEW at \in Nat, at # 0,
         NEW b \in Seq(Cell), HoldsAt(b, at + 1 + ExtraBytes(d) + ExtraBytes(Len(v)), v)
  PROVE  SubSeq(b, at + EncodedSize(d, v) - Len(v), at + EncodedSize(d, v) - 1) = v
<1> DEFINE x == ExtraBytes(d)  y == ExtraBytes(Len(v))  l == Len(v)  p == at + 1 + x + y
<1>1. EncodedSize(d, v) = 1 + x + y + l  BY DEF EncodedSize
<1>2. x \in Nat /\ y \in Nat /\ l \in Nat  BY NibbleIs
<1> HIDE DEF x, y, l
<1>3. at + (1 + x + y + l) - l = p /\ at + (1 + x + y + l) - 1 = p + l - 1 /\ p \in Nat /\ p # 0
  BY <1>2
<1> HIDE DEF p
<1>4. at + EncodedSize(d, v) - l = p /\ at + EncodedSize(d, v) - 1 = p + l - 1
  BY <1>1, <1>3, Zenon
<1>5. SubSeq(b, p, p + Len(v) - 1) = v  BY <1>3, HeldIs DEF p, x, y
<1> QED  BY <1>4, <1>5, Zenon DEF l

LEMMA OptionIs ==
  ASSUME NEW d \in Sized, NEW v \in Seq(Cell), Len(v) \in Sized,
         NEW at \in Nat, at # 0, NEW b \in Seq(Cell), Holds(b, at, d, v)
  PROVE  /\ at <= Len(b) /\ b[at] = First(d, Len(v))
         /\ OptionAt(b, at) = [delta |-> d, size |-> EncodedSize(d, v), value |-> v]
<1> DEFINE l == Len(v)
           nibble == b[at] \div 16
           delta == Extended(b, nibble, at + 1)
           skip == IF nibble \in {13, 14} THEN nibble - 12 ELSE 0
           length == Extended(b, b[at] % 16, at + 1 + skip)
           size == 1 + ExtraBytes(delta) + ExtraBytes(length) + length
<1>1. /\ at <= Len(b) /\ b[at] = First(d, l)
      /\ HoldsAt(b, at + 1, Extra(d))
      /\ HoldsAt(b, at + 1 + ExtraBytes(d), Extra(l))
      /\ HoldsAt(b, at + 1 + ExtraBytes(d) + ExtraBytes(l), v)
  BY Pieces
<1>2. nibble = Nibble(d) /\ b[at] % 16 = Nibble(l)  BY <1>1, FirstIs
<1>3. /\ ExtraBytes(d) \in 0 .. 2 /\ Nibble(d) \in 0 .. 14
      /\ Nibble(d) = 13 <=> ExtraBytes(d) = 1
      /\ Nibble(d) = 14 <=> ExtraBytes(d) = 2
  BY NibbleIs
<1>4. ExtraBytes(l) \in 0 .. 2 /\ l \in Nat  BY NibbleIs
<1>5. delta = d
  <2>1. at + 1 \in Nat  OBVIOUS
  <2> QED  BY <1>1, <1>2, <2>1, ExtendedIs, Zenon
<1>6. skip = ExtraBytes(d)
  <2>1. Nibble(d) \notin {13, 14} => ExtraBytes(d) = 0  BY <1>3
  <2>2. Nibble(d) \in {13, 14} => Nibble(d) - 12 = ExtraBytes(d)  BY <1>3
  <2> HIDE DEF nibble
  <2> QED  BY <1>2, <2>1, <2>2
<1>7. length = l
  <2>1. at + 1 + ExtraBytes(d) \in Nat  BY <1>3
  <2> HIDE DEF skip
  <2>2. length = Extended(b, Nibble(l), at + 1 + ExtraBytes(d))  BY <1>2, <1>6, Zenon
  <2> QED  BY <1>1, <2>1, <2>2, ExtendedIs, Zenon
<1> HIDE DEF nibble, delta, skip, length
<1>8. size = EncodedSize(d, v)  BY <1>5, <1>7 DEF EncodedSize
<1>10. SubSeq(b, at + size - length, at + size - 1) = v
  <2>1. SubSeq(b, at + EncodedSize(d, v) - Len(v), at + EncodedSize(d, v) - 1) = v
    BY <1>1, ValueIs
  <2> HIDE DEF size
  <2> QED  BY <1>7, <1>8, <2>1, Zenon
<1>11. OptionAt(b, at) = [delta |-> delta, size |-> size,
                          value |-> SubSeq(b, at + size - length, at + size - 1)]
  BY Zenon DEF OptionAt, delta, length, size, skip, nibble
<1> HIDE DEF size
<1> QED  BY <1>1, <1>5, <1>8, <1>10, <1>11

-----------------------------------------------------------------------------
(* The options as they are laid out.                                       *)

Delta(os, k) == NumberOf(os, k) - NumberOf(os, k - 1)

LEMMA SizeIs ==
  ASSUME NEW d \in Sized, NEW v \in Seq(Cell), Len(v) \in Sized
  PROVE  /\ EncodedSize(d, v) \in Nat
         /\ EncodedSize(d, v) = 1 + ExtraBytes(d) + ExtraBytes(Len(v)) + Len(v)
         /\ EncodedSize(d, v) > 0
<1> DEFINE x == ExtraBytes(d)  y == ExtraBytes(Len(v))  l == Len(v)
<1>1. EncodedSize(d, v) = 1 + x + y + l  BY DEF EncodedSize
<1>2. x \in Nat /\ y \in Nat /\ l \in Nat  BY NibbleIs
<1> HIDE DEF x, y, l
<1>3. 1 + x + y + l \in Nat /\ 1 + x + y + l > 0  BY <1>2
<1>4. EncodedSize(d, v) \in Nat /\ EncodedSize(d, v) > 0  BY <1>1, <1>3
<1> QED  BY <1>1, <1>4 DEF x, y, l

LEMMA NumberIs ==
  ASSUME NEW os \in Seq(OptionSet), NEW k \in 0 .. Len(os)
  PROVE  /\ NumberOf(os, k) \in Sized /\ NumberOf(os, k) \in Nat
         /\ k # 0 => os[k] \in OptionSet /\ NumberOf(os, k) = os[k].number
<1>1. CASE k = 0
  <2>1. 0 \in Sized  BY SizedIs
  <2> QED  BY <1>1, <2>1 DEF NumberOf
<1>2. CASE k # 0
  <2>1. k \in 1 .. Len(os)  BY <1>2
  <2>2. os[k] \in OptionSet  BY <2>1
  <2>3. os[k].number \in Sized  BY <2>2, SizedRange DEF OptionSet
  <2>4. os[k].number \in Nat  BY <2>3, SizedIs
  <2> QED  BY <1>2, <2>2, <2>3, <2>4 DEF NumberOf
<1> QED  BY <1>1, <1>2

LEMMA LaidIs ==
  ASSUME NEW b \in Seq(Cell), NEW at, NEW os, Laid(b, at, os), NEW k \in 1 .. Len(os)
  PROVE  /\ Delta(os, k) >= 0 /\ Len(os[k].value) <= MaxLength
         /\ at[k] = at[k - 1] + EncodedSize(Delta(os, k), os[k].value)
         /\ Holds(b, at[k - 1], Delta(os, k), os[k].value)
<1>1. \A i \in 1 .. Len(os) :
        /\ Delta(os, i) >= 0 /\ Len(os[i].value) <= MaxLength
        /\ at[i] = at[i - 1] + EncodedSize(Delta(os, i), os[i].value)
        /\ HoldsAt(b, at[i - 1], Header(Delta(os, i), Len(os[i].value)) \o os[i].value)
  BY DEF Laid, Delta
<1> QED  BY <1>1 DEF Holds

LEMMA LaidTypes ==
  ASSUME NEW b \in Seq(Cell), NEW at, NEW os, Laid(b, at, os), NEW k \in 1 .. Len(os)
  PROVE  /\ os[k] \in OptionSet /\ os[k].number \in Sized
         /\ os[k].value \in Seq(Cell) /\ Len(os[k].value) \in Sized /\ Len(os[k].value) <= MaxLength
         /\ Delta(os, k) \in Sized /\ Delta(os, k) \in Nat
<1>1. os \in Seq(OptionSet)  BY DEF Laid
<1>2. Len(os) \in Nat /\ k - 1 \in 0 .. Len(os) /\ k \in 0 .. Len(os) /\ k # 0  BY <1>1
<1>3. /\ os[k] \in OptionSet /\ NumberOf(os, k) = os[k].number
      /\ NumberOf(os, k) \in Sized /\ NumberOf(os, k) \in Nat
      /\ NumberOf(os, k - 1) \in Sized /\ NumberOf(os, k - 1) \in Nat
  BY <1>1, <1>2, NumberIs
<1>4. Delta(os, k) >= 0 /\ Len(os[k].value) <= MaxLength  BY LaidIs
<1>5. os[k].value \in Seq(Cell)  BY <1>3 DEF OptionSet
<1>6. Len(os[k].value) \in Sized
  <2>1. Len(os[k].value) \in Nat  BY <1>5
  <2> QED  BY <1>4, <2>1, LengthIs
<1>7. Delta(os, k) \in Sized /\ Delta(os, k) \in Nat
  <2> DEFINE x == NumberOf(os, k)  y == NumberOf(os, k - 1)
  <2>1. x \in Nat /\ y \in Nat /\ x <= 65535  BY <1>3, SizedIs
  <2>2. x - y >= 0  BY <1>4 DEF Delta
  <2> HIDE DEF x, y
  <2>3. x - y \in Nat /\ x - y <= 65535  BY <2>1, <2>2
  <2>4. Delta(os, k) = x - y  BY DEF Delta, x, y
  <2> QED  BY <2>3, <2>4, SizedIs DEF x, y
<1> QED  BY <1>3, <1>4, <1>5, <1>6, <1>7

LEMMA LaidNumbers ==
  ASSUME NEW b \in Seq(Cell), NEW at, NEW os, Laid(b, at, os), NEW k \in 1 .. Len(os)
  PROVE  /\ NumberOf(os, k) = os[k].number /\ NumberOf(os, k) \in Nat
         /\ NumberOf(os, k - 1) \in Nat
         /\ NumberOf(os, k) = NumberOf(os, k - 1) + Delta(os, k)
<1>1. os \in Seq(OptionSet)  BY DEF Laid
<1>2. Len(os) \in Nat /\ k - 1 \in 0 .. Len(os) /\ k \in 0 .. Len(os) /\ k # 0  BY <1>1
<1>3. /\ NumberOf(os, k) = os[k].number
      /\ NumberOf(os, k) \in Nat /\ NumberOf(os, k - 1) \in Nat
  BY <1>1, <1>2, NumberIs
<1>4. NumberOf(os, k) = NumberOf(os, k - 1) + Delta(os, k)  BY <1>3 DEF Delta
<1> QED  BY <1>3, <1>4

LEMMA LaidAt ==
  ASSUME NEW b \in Seq(Cell), NEW at, NEW os, Laid(b, at, os), NEW k \in 1 .. Len(os)
  PROVE  /\ at[k - 1] \in Nat /\ at[k] \in Nat
         /\ at[k] = at[k - 1] + EncodedSize(Delta(os, k), os[k].value)
         /\ EncodedSize(Delta(os, k), os[k].value) \in Nat
         /\ at[k] > at[k - 1]
<1>1. os \in Seq(OptionSet) /\ at \in [0 .. Len(os) -> Nat]  BY DEF Laid
<1>2. Len(os) \in Nat /\ k - 1 \in 0 .. Len(os) /\ k \in 0 .. Len(os)  BY <1>1
<1>3. at[k - 1] \in Nat /\ at[k] \in Nat  BY <1>1, <1>2
<1> DEFINE d == Delta(os, k)  v == os[k].value
<1>4. v \in Seq(Cell) /\ Len(v) \in Sized /\ d \in Sized  BY LaidTypes
<1>5. at[k] = at[k - 1] + EncodedSize(d, v)  BY LaidIs
<1> HIDE DEF d, v
<1>6. EncodedSize(d, v) \in Nat /\ EncodedSize(d, v) > 0  BY <1>4, SizeIs
<1>7. at[k] > at[k - 1]  BY <1>3, <1>5, <1>6
<1> QED  BY <1>3, <1>5, <1>6, <1>7 DEF d, v

(* Neither the places nor the numbers go back.                             *)
LEMMA LaidGrows ==
  ASSUME NEW b \in Seq(Cell), NEW at, NEW os, Laid(b, at, os)
  PROVE  \A k \in 0 .. Len(os) : \A j \in 0 .. k :
           /\ at[j] \in Nat /\ at[k] \in Nat /\ at[j] + (k - j) <= at[k]
           /\ NumberOf(os, j) <= NumberOf(os, k)
<1> DEFINE n == Len(os)
           Grows(j, k) == at[j] + (k - j) <= at[k] /\ NumberOf(os, j) <= NumberOf(os, k)
           S == {k \in 0 .. n : \A j \in 0 .. k : Grows(j, k)}
<1>1. os \in Seq(OptionSet) /\ at \in [0 .. n -> Nat] /\ n \in Nat  BY DEF Laid
<1>2. \A k \in 0 .. n : at[k] \in Nat /\ NumberOf(os, k) \in Nat  BY <1>1, NumberIs
<1>3. \A k \in 0 .. n : Grows(k, k)
  <2> SUFFICES ASSUME NEW k \in 0 .. n  PROVE Grows(k, k)
    OBVIOUS
  <2>1. at[k] \in Nat /\ NumberOf(os, k) \in Nat  BY <1>2
  <2> QED  BY <2>1
<1>4. 0 \in S
  <2>1. 0 \in 0 .. n /\ \A j \in 0 .. 0 : j = 0  BY <1>1
  <2> HIDE DEF Grows
  <2> QED  BY <1>3, <2>1
<1>5. ASSUME NEW k \in 1 .. n, k - 1 \in S  PROVE k \in S
  <2>1. k \in 0 .. n /\ k - 1 \in 0 .. n  BY <1>1
  <2>2. ASSUME NEW j \in 0 .. k  PROVE Grows(j, k)
    <3>1. CASE j = k
      <4> HIDE DEF Grows
      <4> QED  BY <1>3, <2>1, <3>1
    <3>2. CASE j # k
      <4>1. j \in 0 .. k - 1 /\ j \in Nat /\ j \in 0 .. n  BY <1>1, <3>2
      <4>2. Grows(j, k - 1)  BY <1>5, <4>1
      <4>3. at[k] > at[k - 1] /\ NumberOf(os, k) = NumberOf(os, k - 1) + Delta(os, k)
            /\ Delta(os, k) \in Nat
        BY LaidAt, LaidNumbers, LaidTypes
      <4>4. /\ at[j] \in Nat /\ at[k - 1] \in Nat /\ at[k] \in Nat
            /\ NumberOf(os, j) \in Nat /\ NumberOf(os, k - 1) \in Nat
        BY <1>2, <2>1, <4>1
      <4>5. at[j] + (k - j) <= at[k]  BY <4>1, <4>2, <4>3, <4>4, SMTT(20)
      <4>6. NumberOf(os, j) <= NumberOf(os, k)  BY <4>2, <4>3, <4>4
      <4> QED  BY <4>5, <4>6
    <3> QED  BY <3>1, <3>2
  <2> HIDE DEF Grows
  <2> QED  BY <2>1, <2>2
<1>6. 0 .. n \subseteq S
  <2> HIDE DEF S
  <2> QED  BY <1>1, <1>4, <1>5, UpTo
<1>7. ASSUME NEW k \in 0 .. n, NEW j \in 0 .. k  PROVE at[j] \in Nat /\ at[k] \in Nat /\ Grows(j, k)
  <2>1. j \in 0 .. n  BY <1>1
  <2>2. Grows(j, k)
    <3> HIDE DEF Grows
    <3> QED  BY <1>6
  <2> QED  BY <1>2, <2>1, <2>2
<1> QED  BY <1>7

-----------------------------------------------------------------------------
(* getOptions() finds what is laid out.                                    *)

Position(at, os, k) == [at |-> at[k], options |-> SubSeq(os, 1, k)]

(* The first k options.                                                    *)
LEMMA FirstOptions ==
  ASSUME NEW os \in Seq(OptionSet), NEW k \in 0 .. Len(os)
  PROVE  /\ SubSeq(os, 1, k) \in Seq(OptionSet) /\ Len(SubSeq(os, 1, k)) = k
         /\ LastNumber(SubSeq(os, 1, k)) = NumberOf(os, k)
         /\ k # 0 => SubSeq(os, 1, k) = Append(SubSeq(os, 1, k - 1), os[k])
<1>1. k \in Nat /\ Len(os) \in Nat  OBVIOUS
<1> DEFINE s == SubSeq(os, 1, k)
<1>2. s \in Seq(OptionSet) /\ Len(s) = k /\ \A i \in 1 .. k : s[i] = os[i]
  <2>1. \A i \in 1 .. k : os[i] \in OptionSet  BY <1>1
  <2>2. Len(s) = IF 1 <= k THEN k - 1 + 1 ELSE 0  BY <1>1, <2>1, SubSeqProperties
  <2>3. Len(s) = k  BY <1>1, <2>2
  <2>4. s \in Seq(OptionSet) /\ \A i \in 1 .. k - 1 + 1 : s[i] = os[1 + i - 1]
    BY <1>1, <2>1, SubSeqProperties
  <2>5. ASSUME NEW i \in 1 .. k  PROVE s[i] = os[i]
    <3>1. i \in 1 .. k - 1 + 1 /\ 1 + i - 1 = i  BY <1>1
    <3> QED  BY <2>4, <3>1
  <2> QED  BY <2>3, <2>4, <2>5
<1>3. LastNumber(s) = NumberOf(os, k)
  <2>1. CASE k = 0  BY <1>2, <2>1 DEF LastNumber, NumberOf
  <2>2. CASE k # 0
    <3>1. k \in 1 .. k  BY <1>1, <2>2
    <3>2. s[k] = os[k]  BY <1>2, <3>1
    <3> HIDE DEF s
    <3> QED  BY <1>2, <2>2, <3>2 DEF LastNumber, NumberOf
  <2> QED  BY <2>1, <2>2
<1>4. ASSUME k # 0  PROVE s = Append(SubSeq(os, 1, k - 1), os[k])
  <2>1. 1 \in 1 .. Len(os) /\ k \in 1 .. Len(os)  BY <1>1, <1>4
  <2>2. s = SubSeq(os, 1, k - 1) \o <<os[k]>>  BY <2>1, SubSeqRecursiveSecond
  <2>3. SubSeq(os, 1, k - 1) \in Seq(OptionSet) /\ os[k] \in OptionSet  BY <2>1
  <2> HIDE DEF s
  <2> QED  BY <2>2, <2>3, AppendIsConcat
<1> QED  BY <1>2, <1>3, <1>4

LEMMA BehindIs ==
  ASSUME NEW b \in Seq(Cell), FirstOption(b) \in Nat, FirstOption(b) > 0,
         NEW at, NEW os, Laid(b, at, os), NEW k \in 1 .. Len(os)
  PROVE  /\ Behind(b)[Position(at, os, k - 1)] = Position(at, os, k)
         /\ at[k - 1] <= Len(b) /\ b[at[k - 1]] # Marker
         /\ at[k - 1] \in Nat /\ at[k - 1] # 0
         /\ OptionAt(b, at[k - 1]) = [delta |-> Delta(os, k),
                                      size  |-> EncodedSize(Delta(os, k), os[k].value),
                                      value |-> os[k].value]
<1> DEFINE d == Delta(os, k)  v == os[k].value  p == Position(at, os, k - 1)
           option == OptionAt(b, at[k - 1])
<1>1. /\ os[k] \in OptionSet
      /\ v \in Seq(Cell) /\ Len(v) \in Sized /\ NumberOf(os, k) = os[k].number
      /\ NumberOf(os, k) = NumberOf(os, k - 1) + d
      /\ d \in Sized /\ k - 1 \in 0 .. Len(os) /\ at[k - 1] \in Nat
      /\ at[k] = at[k - 1] + EncodedSize(d, v) /\ Holds(b, at[k - 1], d, v)
      /\ os[k].number \in Sized
  <2>1. /\ os[k] \in OptionSet /\ v \in Seq(Cell) /\ Len(v) \in Sized
        /\ d \in Sized /\ os[k].number \in Sized
    BY LaidTypes
  <2>2. NumberOf(os, k) = os[k].number /\ NumberOf(os, k) = NumberOf(os, k - 1) + d
    BY LaidNumbers
  <2>3. at[k - 1] \in Nat /\ at[k] = at[k - 1] + EncodedSize(d, v)
    BY LaidAt
  <2>4. Holds(b, at[k - 1], d, v)
    BY LaidIs
  <2>5. k - 1 \in 0 .. Len(os)
    <3>1. Len(os) \in Nat  BY DEF Laid
    <3> QED  BY <3>1
  <2> QED  BY <2>1, <2>2, <2>3, <2>4, <2>5
<1>2. at[k - 1] # 0
  <2>1. os \in Seq(OptionSet) /\ at[0] = FirstOption(b)  BY DEF Laid
  <2>2. 0 \in 0 .. k - 1 /\ k - 1 \in Nat  BY <2>1
  <2>3. at[0] + (k - 1 - 0) <= at[k - 1]  BY <1>1, <2>2, LaidGrows
  <2> QED  BY <1>1, <2>1, <2>2, <2>3
<1>3. /\ at[k - 1] <= Len(b) /\ b[at[k - 1]] = First(d, Len(v))
      /\ option = [delta |-> d, size |-> EncodedSize(d, v), value |-> v]
  BY <1>1, <1>2, OptionIs
<1>4. b[at[k - 1]] # Marker  BY <1>1, <1>3, FirstIs
<1>5. p \in Place /\ p.at = at[k - 1] /\ p.options = SubSeq(os, 1, k - 1)
  <2>1. os \in Seq(OptionSet)  BY DEF Laid
  <2>2. SubSeq(os, 1, k - 1) \in Seq(OptionSet)  BY <1>1, <2>1, FirstOptions
  <2> QED  BY <1>1, <2>2 DEF Position, Place
<1>6. LastNumber(p.options) = NumberOf(os, k - 1)
  <2>1. os \in Seq(OptionSet)  BY DEF Laid
  <2> QED  BY <1>1, <1>5, <2>1, FirstOptions
<1>7. Behind(b)[p] =
        [at |-> p.at + option.size,
         options |-> Append(p.options, [number |-> Uint16(LastNumber(p.options) + option.delta),
                                        value  |-> option.value])]
  <2> HIDE DEF p
  <2> QED  BY <1>5 DEF Behind
<1>8. Uint16(LastNumber(p.options) + option.delta) = os[k].number
  <2>1. option.delta = d  BY <1>3
  <2>2. LastNumber(p.options) + option.delta = os[k].number  BY <1>1, <1>6, <2>1
  <2> QED  BY <1>1, <2>2, Uint16Is
<1>9. os[k] = [number |-> os[k].number, value |-> v]  BY <1>1 DEF OptionSet
<1>10. Append(p.options, os[k]) = SubSeq(os, 1, k)
  <2>1. os \in Seq(OptionSet) /\ k \in 0 .. Len(os) /\ k # 0  BY DEF Laid
  <2> QED  BY <1>5, <2>1, FirstOptions
<1>11. p.at + option.size = at[k] /\ option.value = v  BY <1>1, <1>3, <1>5
<1>12. Behind(b)[p] = [at |-> at[k], options |-> SubSeq(os, 1, k)]
  <2> HIDE DEF p, option, v
  <2> QED  BY <1>7, <1>8, <1>9, <1>10, <1>11
<1> QED  BY <1>1, <1>2, <1>3, <1>4, <1>12 DEF Position

LEMMA WalkIs ==
  ASSUME NEW b \in Seq(Cell), FirstOption(b) \in Nat, FirstOption(b) > 0,
         NEW at, NEW os, Laid(b, at, os)
  PROVE  Walk(b, Len(os)) = [k \in 0 .. Len(os) |-> Position(at, os, k)]
<1> DEFINE n == Len(os)
           F(g) == [k \in 0 .. n |-> IF k = 0 THEN Start(b) ELSE Behind(b)[g[k - 1]]]
           solution == [k \in 0 .. n |-> Position(at, os, k)]
           walk == CHOOSE g : g = F(g)
<1>1. n \in Nat /\ os \in Seq(OptionSet) /\ at[0] = FirstOption(b)  BY DEF Laid
<1>2. Start(b) = Position(at, os, 0)
  <2>1. SubSeq(os, 1, 0) = <<>>  BY <1>1
  <2> QED  BY <1>1, <2>1 DEF Start, Position
<1>3. \A k \in 1 .. n : Behind(b)[Position(at, os, k - 1)] = Position(at, os, k)
  BY BehindIs
<1>4. solution = F(solution)
  <2>1. ASSUME NEW k \in 0 .. n
        PROVE  solution[k] = IF k = 0 THEN Start(b) ELSE Behind(b)[solution[k - 1]]
    <3>1. solution[k] = Position(at, os, k)  OBVIOUS
    <3>2. CASE k = 0  BY <1>2, <3>1, <3>2
    <3>3. CASE k # 0
      <4>1. k \in 1 .. n /\ k - 1 \in 0 .. n  BY <1>1, <3>3
      <4>2. solution[k - 1] = Position(at, os, k - 1)  BY <4>1
      <4> HIDE DEF solution
      <4> QED  BY <1>3, <3>1, <3>3, <4>1, <4>2
    <3> QED  BY <3>2, <3>3
  <2> QED  BY <2>1
<1>5. walk = F(walk)
  <2> HIDE DEF F, solution
  <2> QED  BY <1>4
<1>6. Walk(b, n) = walk  BY Zenon DEF Walk
<1> HIDE DEF walk
<1>7. walk[0] = Start(b) /\ \A k \in 1 .. n : walk[k] = Behind(b)[walk[k - 1]]
  <2>1. \A k \in 0 .. n : walk[k] = IF k = 0 THEN Start(b) ELSE Behind(b)[walk[k - 1]]  BY <1>5
  <2>2. 0 \in 0 .. n /\ \A k \in 1 .. n : k \in 0 .. n /\ k # 0  BY <1>1
  <2> QED  BY <2>1, <2>2
<1>8. \A k \in 0 .. n : walk[k] = Position(at, os, k)
  <2> DEFINE S == {k \in 0 .. n : walk[k] = Position(at, os, k)}
  <2>1. 0 \in S  BY <1>1, <1>2, <1>7
  <2>2. ASSUME NEW k \in 1 .. n, k - 1 \in S  PROVE k \in S
    <3>1. k \in 0 .. n /\ walk[k - 1] = Position(at, os, k - 1)  BY <1>1, <2>2
    <3>2. walk[k] = Behind(b)[Position(at, os, k - 1)]  BY <1>7, <3>1
    <3> QED  BY <1>3, <3>1, <3>2
  <2>3. 0 .. n \subseteq S
    <3> HIDE DEF S
    <3> QED  BY <1>1, <2>1, <2>2, UpTo
  <2> QED  BY <2>3
<1>9. walk = [k \in 0 .. n |-> walk[k]]
  <2> DEFINE h == [k \in 0 .. n |-> IF k = 0 THEN Start(b) ELSE Behind(b)[walk[k - 1]]]
  <2>1. walk = h  BY <1>5, Zenon
  <2>2. h = [k \in 0 .. n |-> h[k]]  OBVIOUS
  <2> HIDE DEF h
  <2> QED  BY <2>1, <2>2
<1>10. walk = solution  BY <1>8, <1>9
<1> QED  BY <1>6, <1>10

LEMMA OptionsAre ==
  ASSUME NEW b \in Seq(Cell), FirstOption(b) \in Nat, FirstOption(b) > 0,
         NEW at, NEW os, Laid(b, at, os)
  PROVE  Options(b, Len(os)) = os /\ Places(b, Len(os)) = at
<1> DEFINE n == Len(os)  walk == Walk(b, n)
<1>1. os \in Seq(OptionSet) /\ at \in [0 .. n -> Nat] /\ n \in Nat  BY DEF Laid
<1>2. \A k \in 0 .. n : walk[k] = Position(at, os, k)  BY WalkIs
<1> HIDE DEF walk
<1>3. walk[n].options = SubSeq(os, 1, n)  BY <1>1, <1>2 DEF Position
<1>4. SubSeq(os, 1, n) = os  BY <1>1, SubSeqFull
<1>5. ASSUME NEW k \in 0 .. n  PROVE walk[k].at = at[k]
  <2>1. walk[k] = Position(at, os, k)  BY <1>2
  <2>2. Position(at, os, k).at = at[k]  BY DEF Position
  <2> QED  BY <2>1, <2>2, Zenon
<1>6. at = [k \in 0 .. n |-> walk[k].at]  BY <1>1, <1>5
<1> QED  BY <1>3, <1>4, <1>6 DEF Options, Places, walk

-----------------------------------------------------------------------------
(* validate() accepts what is laid out.                                    *)

Counted(at, k) == [at |-> at[k], count |-> k]

LEMMA OptionWellFormed ==
  ASSUME NEW b \in Seq(Cell), FirstOption(b) \in Nat, FirstOption(b) > 0,
         NEW at, NEW os, Laid(b, at, os), NEW k \in 1 .. Len(os), at[k] <= Len(b) + 1
  PROVE  ~ Malformed(b, at[k - 1])
<1> DEFINE d == Delta(os, k)  v == os[k].value  p == at[k - 1]
           upper == b[p] \div 16  lower == b[p] % 16
<1>1. v \in Seq(Cell) /\ Len(v) \in Sized /\ d \in Sized  BY LaidTypes
<1>2. p \in Nat /\ p # 0 /\ OptionAt(b, p).size = EncodedSize(d, v)
  <2>1. p \in Nat /\ p # 0  BY BehindIs
  <2>2. OptionAt(b, p) = [delta |-> d, size |-> EncodedSize(d, v), value |-> v]  BY BehindIs
  <2> HIDE DEF p, d, v
  <2> QED  BY <2>1, <2>2
<1>3. b[p] = First(d, Len(v))
  <2>1. Holds(b, p, d, v)  BY LaidIs
  <2> QED  BY <1>1, <1>2, <2>1, OptionIs
<1>4. upper = Nibble(d) /\ lower = Nibble(Len(v))  BY <1>1, <1>3, FirstIs
<1>5. at[k] = p + EncodedSize(d, v) /\ at[k] \in Nat  BY LaidAt
<1>6. /\ EncodedSize(d, v) = 1 + ExtraBytes(d) + ExtraBytes(Len(v)) + Len(v)
      /\ EncodedSize(d, v) \in Nat
  BY <1>1, SizeIs
<1>7. /\ Nibble(d) \in 0 .. 14 /\ ExtraBytes(Nibble(d)) <= ExtraBytes(d)
      /\ Nibble(Len(v)) \in 0 .. 14 /\ ExtraBytes(Nibble(Len(v))) <= ExtraBytes(Len(v))
      /\ ExtraBytes(d) \in Nat /\ ExtraBytes(Len(v)) \in Nat /\ Len(v) \in Nat
      /\ ExtraBytes(Nibble(d)) \in Nat /\ ExtraBytes(Nibble(Len(v))) \in Nat
  <2>1. \A n \in 0 .. 14 : n \in Sized /\ n \in Nat  BY SizedIs
  <2>2. /\ Nibble(d) \in 0 .. 14 /\ ExtraBytes(Nibble(d)) <= ExtraBytes(d)
        /\ ExtraBytes(d) \in 0 .. 2
    BY <1>1, NibbleIs
  <2>3. /\ Nibble(Len(v)) \in 0 .. 14 /\ ExtraBytes(Nibble(Len(v))) <= ExtraBytes(Len(v))
        /\ ExtraBytes(Len(v)) \in 0 .. 2
    BY <1>1, NibbleIs
  <2>4. ExtraBytes(Nibble(d)) \in 0 .. 2 /\ ExtraBytes(Nibble(Len(v))) \in 0 .. 2
    BY <2>1, <2>2, <2>3, NibbleIs
  <2>5. Len(v) \in Nat  BY <1>1
  <2> QED  BY <2>2, <2>3, <2>4, <2>5
<1>8. EncodedSize(d, v) <= Len(b) - p + 1 /\ Len(b) \in Nat  BY <1>2, <1>5, <1>6
<1>9. ExtraBytes(Nibble(d)) + ExtraBytes(Nibble(Len(v))) < EncodedSize(d, v)
  <2> DEFINE x == ExtraBytes(d)  y == ExtraBytes(Len(v))  l == Len(v)
             nx == ExtraBytes(Nibble(d))  ny == ExtraBytes(Nibble(Len(v)))
  <2>1. /\ x \in Nat /\ y \in Nat /\ l \in Nat /\ nx \in Nat /\ ny \in Nat
        /\ nx <= x /\ ny <= y /\ EncodedSize(d, v) = 1 + x + y + l
    BY <1>6, <1>7
  <2> HIDE DEF x, y, l, nx, ny
  <2>2. nx + ny < 1 + x + y + l  BY <2>1
  <2>3. nx + ny < EncodedSize(d, v)  BY <2>1, <2>2
  <2> QED  BY <2>3 DEF nx, ny
<1>10. /\ upper # 15 /\ lower # 15
       /\ ~ (ExtraBytes(upper) + ExtraBytes(lower) >= Len(b) - p + 1)
       /\ ~ (OptionAt(b, p).size > Len(b) - p + 1)
  <2>1. upper # 15 /\ lower # 15
    <3>1. upper \in 0 .. 14 /\ lower \in 0 .. 14  BY <1>4, <1>7, Zenon
    <3> HIDE DEF upper, lower
    <3> QED  BY <3>1
  <2>2. ExtraBytes(upper) + ExtraBytes(lower) < EncodedSize(d, v)  BY <1>4, <1>9
  <2>3. ExtraBytes(upper) + ExtraBytes(lower) \in Nat  BY <1>4, <1>7
  <2> DEFINE left == Len(b) - p + 1  extra == ExtraBytes(upper) + ExtraBytes(lower)
             size == EncodedSize(d, v)
  <2>4. left \in Int /\ size \in Nat /\ extra \in Nat /\ size <= left /\ extra < size
    BY <1>2, <1>6, <1>8, <2>2, <2>3
  <2> HIDE DEF left, extra, size
  <2>5. ~ (extra >= left) /\ ~ (size > left)  BY <2>4
  <2> QED  BY <1>2, <2>1, <2>5 DEF left, extra, size
<1> QED  BY <1>10, Zenon DEF Malformed

LEMMA ValidateIs ==
  ASSUME NEW b \in Seq(Cell), FirstOption(b) \in Nat, FirstOption(b) > 0,
         NEW at, NEW os, Laid(b, at, os), Len(b) >= HeaderSize,
         Version(b) = 1, TokenLength(b) \in 0 .. 8, HeaderSize + TokenLength(b) <= Len(b),
         NEW end, end = at[Len(os)],
         end = Len(b) + 1 \/ (end < Len(b) /\ b[end] = Marker)
  PROVE  Validate(b) = [valid |-> TRUE, options |-> Len(os),
                        payloadAt |-> IF end = Len(b) + 1 THEN 0 ELSE end + 1]
<1> DEFINE n == Len(os)
           N == Len(b)
           first == [at |-> FirstOption(b), count |-> 0]
           last(k) == IF k <= n THEN k ELSE n
           F(g) == [k \in 0 .. N |-> IF k = 0 THEN first ELSE Checked(b, g[k - 1])]
           solution == [k \in 0 .. N |-> Counted(at, last(k))]
           walk == CHOOSE g : g = F(g)
<1>1. /\ n \in Nat /\ N \in Nat /\ os \in Seq(OptionSet) /\ at[0] = FirstOption(b)
      /\ at \in [0 .. n -> Nat]
  BY DEF Laid
<1>2. end \in Nat /\ end <= N + 1  BY <1>1
<1>3. \A k \in 0 .. n : at[k] \in Nat /\ at[k] <= N + 1 /\ at[k] + (n - k) <= end
  <2> SUFFICES ASSUME NEW k \in 0 .. n  PROVE at[k] \in Nat /\ at[k] <= N + 1 /\ at[k] + (n - k) <= end
    OBVIOUS
  <2>1. n \in 0 .. n /\ k \in 0 .. n  BY <1>1
  <2>2. at[k] \in Nat /\ at[k] + (n - k) <= at[n]  BY <2>1, LaidGrows
  <2> QED  BY <1>1, <1>2, <2>2
<1>4. n <= N
  <2>1. 0 \in 0 .. n  BY <1>1
  <2>2. at[0] + (n - 0) <= end  BY <1>3, <2>1
  <2> QED  BY <1>1, <1>2, <2>2
<1>5. ASSUME NEW k \in 1 .. n  PROVE Checked(b, Counted(at, k - 1)) = Counted(at, k)
  <2> DEFINE s == Counted(at, k - 1)
  <2>1. s.at = at[k - 1] /\ s.count = k - 1  BY DEF Counted
  <2>2. k \in 0 .. n /\ k - 1 + 1 = k  BY <1>1
  <2>3. at[k] <= N + 1  BY <1>3, <2>2
  <2>4. at[k - 1] <= N /\ at[k - 1] \in Nat /\ b[at[k - 1]] # Marker  BY BehindIs
  <2>5. ~ Malformed(b, at[k - 1])  BY <2>3, OptionWellFormed
  <2>6. at[k - 1] + OptionAt(b, at[k - 1]).size = at[k]
    <3>1. OptionAt(b, at[k - 1]).size = EncodedSize(Delta(os, k), os[k].value)
      <4> DEFINE size == EncodedSize(Delta(os, k), os[k].value)
      <4>1. OptionAt(b, at[k - 1]) = [delta |-> Delta(os, k), size |-> size, value |-> os[k].value]
        BY BehindIs
      <4> HIDE DEF size
      <4>2. OptionAt(b, at[k - 1]).size = size  BY <4>1
      <4> QED  BY <4>2 DEF size
    <3>2. at[k] = at[k - 1] + EncodedSize(Delta(os, k), os[k].value)  BY LaidAt
    <3> QED  BY <3>1, <3>2, Zenon
  <2>7. ~ (s.at > N)  BY <1>1, <2>1, <2>4
  <2> HIDE DEF s
  <2>8. Checked(b, s) = [at |-> s.at + OptionAt(b, s.at).size, count |-> s.count + 1]
    BY <2>1, <2>4, <2>5, <2>7, Zenon DEF Checked
  <2>9. s.at + OptionAt(b, s.at).size = at[k] /\ s.count + 1 = k  BY <2>1, <2>2, <2>6
  <2>10. Checked(b, s) = Counted(at, k)  BY <2>8, <2>9 DEF Counted
  <2> QED  BY <2>10 DEF s
<1>6. Checked(b, Counted(at, n)) = Counted(at, n)
  <2>1. Counted(at, n).at = end  BY DEF Counted
  <2>2. end > N \/ b[end] = Marker  BY <1>1, <1>2
  <2> QED  BY <2>1, <2>2 DEF Checked
<1>7. Counted(at, 0) = first  BY <1>1 DEF Counted
<1> HIDE DEF first
<1>8. \A k \in 1 .. N : Checked(b, Counted(at, last(k - 1))) = Counted(at, last(k))
  <2> SUFFICES ASSUME NEW k \in 1 .. N
               PROVE  Checked(b, Counted(at, last(k - 1))) = Counted(at, last(k))
    OBVIOUS
  <2>1. CASE k <= n
    <3>1. k \in 1 .. n /\ last(k) = k /\ last(k - 1) = k - 1  BY <1>1, <2>1
    <3> HIDE DEF last
    <3> QED  BY <1>5, <3>1
  <2>2. CASE ~ (k <= n)
    <3>1. last(k) = n /\ last(k - 1) = n  BY <1>1, <2>2
    <3> HIDE DEF last
    <3> QED  BY <1>6, <3>1
  <2> QED  BY <2>1, <2>2
<1>9. last(0) = 0 /\ last(N) = n /\ 0 \in 0 .. N /\ N \in 0 .. N  BY <1>1, <1>4
<1> HIDE DEF last
<1>10. solution = F(solution)
  <2>1. ASSUME NEW k \in 0 .. N
        PROVE  solution[k] = IF k = 0 THEN first ELSE Checked(b, solution[k - 1])
    <3>1. solution[k] = Counted(at, last(k))  OBVIOUS
    <3>2. CASE k = 0  BY <1>7, <1>9, <3>1, <3>2
    <3>3. CASE k # 0
      <4>1. k \in 1 .. N /\ k - 1 \in 0 .. N  BY <1>1, <3>3
      <4>2. solution[k - 1] = Counted(at, last(k - 1))  BY <4>1
      <4> HIDE DEF solution
      <4> QED  BY <1>8, <3>1, <3>3, <4>1, <4>2
    <3> QED  BY <3>2, <3>3
  <2> QED  BY <2>1
<1>11. walk = F(walk)
  <2> HIDE DEF F, solution
  <2> QED  BY <1>10
<1> HIDE DEF walk
<1>12. walk[0] = first /\ \A k \in 1 .. N : walk[k] = Checked(b, walk[k - 1])
  <2>1. \A k \in 0 .. N : walk[k] = IF k = 0 THEN first ELSE Checked(b, walk[k - 1])  BY <1>11
  <2>2. 0 \in 0 .. N /\ \A k \in 1 .. N : k \in 0 .. N /\ k # 0  BY <1>1
  <2> QED  BY <2>1, <2>2
<1>13. walk[N] = Counted(at, n)
  <2> DEFINE S == {k \in 0 .. N : walk[k] = Counted(at, last(k))}
  <2>1. 0 \in S  BY <1>7, <1>9, <1>12
  <2>2. ASSUME NEW k \in 1 .. N, k - 1 \in S  PROVE k \in S
    <3>1. k \in 0 .. N /\ walk[k - 1] = Counted(at, last(k - 1))  BY <1>1, <2>2
    <3>2. walk[k] = Checked(b, Counted(at, last(k - 1)))  BY <1>12, <3>1
    <3> QED  BY <1>8, <3>1, <3>2
  <2>3. 0 .. N \subseteq S
    <3> HIDE DEF S
    <3> QED  BY <1>1, <2>1, <2>2, UpTo
  <2> QED  BY <1>9, <2>3
<1> DEFINE stop == walk[N]
<1>14. stop.at = end /\ stop.count = n  BY <1>13 DEF Counted
<1>15. Validate(b) =
         IF \/ N < HeaderSize \/ Version(b) # 1
            \/ TokenLength(b) > 8 \/ HeaderSize + TokenLength(b) > N
         THEN Invalid
         ELSE IF stop.at > N
         THEN [valid |-> TRUE, options |-> stop.count, payloadAt |-> 0]
         ELSE IF b[stop.at] = Marker /\ stop.at < N
         THEN [valid |-> TRUE, options |-> stop.count, payloadAt |-> stop.at + 1]
         ELSE Invalid
  BY Zenon DEF Validate, walk, first
<1>16. ~ (\/ N < HeaderSize \/ Version(b) # 1
          \/ TokenLength(b) > 8 \/ HeaderSize + TokenLength(b) > N)
  BY <1>1 DEF HeaderSize
<1> HIDE DEF stop
<1>17. CASE end = N + 1
  <2>1. end > N  BY <1>1, <1>17
  <2> QED  BY <1>14, <1>15, <1>16, <1>17, <2>1, Zenon
<1>18. CASE end < N /\ b[end] = Marker
  <2>1. ~ (end > N) /\ end # N + 1  BY <1>1, <1>2, <1>18
  <2> QED  BY <1>14, <1>15, <1>16, <1>18, <2>1, Zenon
<1> QED  BY <1>17, <1>18

-----------------------------------------------------------------------------
(* findInsertionPosition().                                                *)

LEMMA PositionIs ==
  ASSUME pdu \in Seq(Cell), FirstOption(pdu) \in Nat, FirstOption(pdu) > 0,
         NEW at, NEW os, Laid(pdu, at, os), NEW n \in Nat, ~ (n >= maxAdded),
         NEW j \in 0 .. Len(os) - 1, NumberOf(os, j) <= n, NumberOf(os, j + 1) > n
  PROVE  InsertionPosition(n) = [at |-> at[j], number |-> NumberOf(os, j)]
<1> DEFINE N == Len(pdu)
           last(k) == IF k <= j THEN k ELSE j
           F(g) == [k \in 0 .. N |-> IF k = 0 THEN Start(pdu) ELSE Advanced(n, g[k - 1])]
           solution == [k \in 0 .. N |-> Position(at, os, last(k))]
           walk == CHOOSE g : g = F(g)
<1>1. /\ Len(os) \in Nat /\ N \in Nat /\ os \in Seq(OptionSet) /\ at[0] = FirstOption(pdu)
      /\ at \in [0 .. Len(os) -> Nat] /\ j \in Nat /\ j + 1 \in 1 .. Len(os)
      /\ j \in 0 .. Len(os) /\ j + 1 \in 0 .. Len(os)
  BY DEF Laid
<1>2. at[j] <= N /\ at[j] \in Nat
  <2>1. (j + 1) - 1 = j  BY <1>1
  <2>2. at[(j + 1) - 1] <= N /\ at[(j + 1) - 1] \in Nat  BY <1>1, BehindIs
  <2> QED  BY <2>1, <2>2
<1>3. FirstOption(pdu) + j <= at[j]
  <2>1. 0 \in 0 .. j /\ j - 0 = j  BY <1>1
  <2>2. at[0] + (j - 0) <= at[j]  BY <1>1, <2>1, LaidGrows
  <2> QED  BY <1>1, <2>1, <2>2
<1>4. j <= N /\ ~ (N < FirstOption(pdu))  BY <1>1, <1>2, <1>3
<1>5. Start(pdu) = Position(at, os, 0)
  <2>1. SubSeq(os, 1, 0) = <<>>  BY <1>1
  <2> QED  BY <1>1, <2>1 DEF Start, Position
<1>6. ASSUME NEW k \in 1 .. Len(os)
      PROVE  Advanced(n, Position(at, os, k - 1)) =
               IF NumberOf(os, k) > n THEN Position(at, os, k - 1) ELSE Position(at, os, k)
  <2> DEFINE s == Position(at, os, k - 1)
  <2>1. s.at = at[k - 1]  BY DEF Position
  <2>2. at[k - 1] <= N /\ pdu[at[k - 1]] # Marker /\ at[k - 1] \in Nat  BY BehindIs
  <2>3. Behind(pdu)[s] = Position(at, os, k)  BY BehindIs
  <2>4. LastNumber(Position(at, os, k).options) = NumberOf(os, k)
    <3>1. k \in 0 .. Len(os)  BY <1>1
    <3>2. Position(at, os, k).options = SubSeq(os, 1, k)  BY DEF Position
    <3>3. LastNumber(SubSeq(os, 1, k)) = NumberOf(os, k)  BY <1>1, <3>1, FirstOptions
    <3> QED  BY <3>2, <3>3, Zenon
  <2>5. ~ (s.at > N \/ pdu[s.at] = Marker)  BY <1>1, <2>1, <2>2
  <2> HIDE DEF s
  <2>6. Advanced(n, s) = IF NumberOf(os, k) > n THEN s ELSE Position(at, os, k)
    BY <2>3, <2>4, <2>5, Zenon DEF Advanced
  <2> QED  BY <2>6 DEF s
<1>7. ASSUME NEW k \in 1 .. j
      PROVE  Advanced(n, Position(at, os, k - 1)) = Position(at, os, k)
  <2>1. k \in 1 .. Len(os) /\ k \in 0 .. j  BY <1>1
  <2>2. NumberOf(os, k) <= NumberOf(os, j)  BY <1>1, <2>1, LaidGrows
  <2>3. NumberOf(os, k) \in Nat /\ NumberOf(os, j) \in Nat  BY <1>1, <2>1, NumberIs
  <2>4. ~ (NumberOf(os, k) > n)  BY <2>2, <2>3
  <2> QED  BY <1>6, <2>1, <2>4, Zenon
<1>8. Advanced(n, Position(at, os, j)) = Position(at, os, j)
  <2>1. (j + 1) - 1 = j  BY <1>1
  <2>2. Advanced(n, Position(at, os, (j + 1) - 1)) = Position(at, os, (j + 1) - 1)
    BY <1>1, <1>6, Zenon
  <2> QED  BY <2>1, <2>2
<1>9. \A k \in 1 .. N : Advanced(n, Position(at, os, last(k - 1))) = Position(at, os, last(k))
  <2> SUFFICES ASSUME NEW k \in 1 .. N
               PROVE  Advanced(n, Position(at, os, last(k - 1))) = Position(at, os, last(k))
    OBVIOUS
  <2>1. CASE k <= j
    <3>1. k \in 1 .. j /\ last(k) = k /\ last(k - 1) = k - 1  BY <1>1, <2>1
    <3> HIDE DEF last
    <3> QED  BY <1>7, <3>1
  <2>2. CASE ~ (k <= j)
    <3>1. last(k) = j /\ last(k - 1) = j  BY <1>1, <2>2
    <3> HIDE DEF last
    <3> QED  BY <1>8, <3>1
  <2> QED  BY <2>1, <2>2
<1>10. last(0) = 0 /\ last(N) = j /\ 0 \in 0 .. N /\ N \in 0 .. N  BY <1>1, <1>4
<1> HIDE DEF last
<1>11. solution = F(solution)
  <2>1. ASSUME NEW k \in 0 .. N
        PROVE  solution[k] = IF k = 0 THEN Start(pdu) ELSE Advanced(n, solution[k - 1])
    <3>1. solution[k] = Position(at, os, last(k))  OBVIOUS
    <3>2. CASE k = 0  BY <1>5, <1>10, <3>1, <3>2
    <3>3. CASE k # 0
      <4>1. k \in 1 .. N /\ k - 1 \in 0 .. N  BY <1>1, <3>3
      <4>2. solution[k - 1] = Position(at, os, last(k - 1))  BY <4>1
      <4> HIDE DEF solution
      <4> QED  BY <1>9, <3>1, <3>3, <4>1, <4>2
    <3> QED  BY <3>2, <3>3
  <2> QED  BY <2>1
<1>12. walk = F(walk)
  <2> HIDE DEF F, solution
  <2> QED  BY <1>11
<1> HIDE DEF walk
<1>13. walk[0] = Start(pdu) /\ \A k \in 1 .. N : walk[k] = Advanced(n, walk[k - 1])
  <2>1. \A k \in 0 .. N : walk[k] = IF k = 0 THEN Start(pdu) ELSE Advanced(n, walk[k - 1])  BY <1>12
  <2>2. 0 \in 0 .. N /\ \A k \in 1 .. N : k \in 0 .. N /\ k # 0  BY <1>1
  <2> QED  BY <2>1, <2>2
<1>14. walk[N] = Position(at, os, j)
  <2> DEFINE S == {k \in 0 .. N : walk[k] = Position(at, os, last(k))}
  <2>1. 0 \in S  BY <1>5, <1>10, <1>13
  <2>2. ASSUME NEW k \in 1 .. N, k - 1 \in S  PROVE k \in S
    <3>1. k \in 0 .. N /\ walk[k - 1] = Position(at, os, last(k - 1))  BY <1>1, <2>2
    <3>2. walk[k] = Advanced(n, Position(at, os, last(k - 1)))  BY <1>13, <3>1
    <3> QED  BY <1>9, <3>1, <3>2
  <2>3. 0 .. N \subseteq S
    <3> HIDE DEF S
    <3> QED  BY <1>1, <2>1, <2>2, UpTo
  <2> QED  BY <1>10, <2>3
<1> DEFINE place == walk[N]
<1>15. place.at = at[j] /\ LastNumber(place.options) = NumberOf(os, j)
  <2>1. place.at = at[j] /\ place.options = SubSeq(os, 1, j)  BY <1>14 DEF Position
  <2>2. LastNumber(SubSeq(os, 1, j)) = NumberOf(os, j)  BY <1>1, FirstOptions
  <2> QED  BY <2>1, <2>2, Zenon
<1>16. InsertionPosition(n) =
         IF n >= maxAdded \/ N < FirstOption(pdu)
         THEN [at |-> N + 1, number |-> maxAdded]
         ELSE [at |-> place.at, number |-> LastNumber(place.options)]
  BY Zenon DEF InsertionPosition, walk
<1> HIDE DEF place
<1> QED  BY <1>4, <1>15, <1>16, Zenon

-----------------------------------------------------------------------------
(* Writing into the bytes.                                                 *)

LEMMA OverwriteIs ==
  ASSUME NEW b \in Seq(Cell), NEW at \in Nat, at # 0, NEW new \in Seq(Cell),
         at + Len(new) <= Len(b) + 1
  PROVE  /\ Overwrite(b, at, new) \in Seq(Cell) /\ Len(Overwrite(b, at, new)) = Len(b)
         /\ \A i \in 1 .. Len(b) : i < at \/ i >= at + Len(new) => Overwrite(b, at, new)[i] = b[i]
         /\ HoldsAt(Overwrite(b, at, new), at, new)
<1> DEFINE n == Len(b)  m == Len(new)  o == Overwrite(b, at, new)
<1>1. n \in Nat /\ m \in Nat /\ DOMAIN b = 1 .. n  OBVIOUS
<1>2. o = [i \in 1 .. n |-> IF i \in at .. at + m - 1 THEN new[i - at + 1] ELSE b[i]]
  BY <1>1 DEF Overwrite
<1>3. \A i \in 1 .. n : o[i] \in Cell
  <2> SUFFICES ASSUME NEW i \in 1 .. n  PROVE o[i] \in Cell
    OBVIOUS
  <2>1. CASE i \in at .. at + m - 1
    <3>1. i - at + 1 \in 1 .. m  BY <1>1, <2>1
    <3>2. new[i - at + 1] \in Cell  BY <3>1
    <3> HIDE DEF o
    <3> QED  BY <1>2, <2>1, <3>2
  <2>2. CASE i \notin at .. at + m - 1
    <3>1. b[i] \in Cell  OBVIOUS
    <3> HIDE DEF o
    <3> QED  BY <1>2, <2>2, <3>1
  <2> QED  BY <2>1, <2>2
<1>4. o \in Seq(Cell) /\ Len(o) = n
  <2>1. o \in [1 .. n -> Cell]
    <3> HIDE DEF o
    <3> QED  BY <1>2, <1>3
  <2> HIDE DEF o
  <2>2. o \in Seq(Cell)  BY <1>1, <2>1
  <2>3. DOMAIN o = 1 .. n  BY <2>1
  <2> QED  BY <1>1, <2>2, <2>3
<1>5. ASSUME NEW i \in 1 .. n, i < at \/ i >= at + m  PROVE o[i] = b[i]
  <2>1. i \notin at .. at + m - 1  BY <1>1, <1>5
  <2> HIDE DEF o
  <2> QED  BY <1>2, <2>1
<1>6. ASSUME NEW i \in 1 .. m  PROVE o[at + i - 1] = new[i]
  <2>1. at + i - 1 \in at .. at + m - 1 /\ at + i - 1 \in 1 .. n /\ (at + i - 1) - at + 1 = i
    BY <1>1
  <2> HIDE DEF o
  <2> QED  BY <1>2, <2>1
<1>7. HoldsAt(o, at, new)
  <2> HIDE DEF o
  <2> QED  BY <1>1, <1>4, <1>6 DEF HoldsAt
<1> QED  BY <1>4, <1>5, <1>7

LEMMA GrownIs ==
  ASSUME NEW b \in Seq(Cell), NEW k \in Nat
  PROVE  /\ Grown(b, k) \in Seq(Cell) /\ Len(Grown(b, k)) = Len(b) + k
         /\ \A i \in 1 .. Len(b) : Grown(b, k)[i] = b[i]
<1> DEFINE new == [i \in 1 .. k |-> Junk]
<1>1. Junk \in Cell  BY DEF Junk, Cell
<1>2. new \in Seq(Cell) /\ Len(new) = k  BY <1>1
<1> HIDE DEF new
<1>3. Grown(b, k) = b \o new  BY DEF Grown, new
<1>4. /\ b \o new \in Seq(Cell) /\ Len(b \o new) = Len(b) + Len(new)
      /\ \A i \in 1 .. Len(b) + Len(new) :
           (b \o new)[i] = IF i <= Len(b) THEN b[i] ELSE new[i - Len(b)]
  BY <1>2, ConcatProperties
<1>5. \A i \in 1 .. Len(b) : (b \o new)[i] = b[i]
  <2>1. \A i \in 1 .. Len(b) : i \in 1 .. Len(b) + Len(new) /\ i <= Len(b)  BY <1>2
  <2> QED  BY <1>4, <2>1
<1> QED  BY <1>2, <1>3, <1>4, <1>5

LEMMA ShiftedUpIs ==
  ASSUME NEW b \in Seq(Cell), NEW at \in 1 .. Len(b), NEW k \in Nat
  PROVE  /\ ShiftedUp(b, at, k) \in Seq(Cell) /\ Len(ShiftedUp(b, at, k)) = Len(b) + k
         /\ \A i \in 1 .. at - 1 : ShiftedUp(b, at, k)[i] = b[i]
         /\ \A i \in at .. Len(b) : ShiftedUp(b, at, k)[i + k] = b[i]
<1> DEFINE n == Len(b)  g == Grown(b, k)  s == ShiftedUp(b, at, k)
<1>1. n \in Nat /\ at \in Nat /\ at # 0 /\ at <= n  OBVIOUS
<1>2. g \in Seq(Cell) /\ Len(g) = n + k /\ \A i \in 1 .. n : g[i] = b[i]  BY GrownIs
<1> HIDE DEF g
<1>3. s = [i \in 1 .. n + k |-> IF i >= at + k THEN b[i - k] ELSE g[i]]  BY DEF ShiftedUp, g
<1> HIDE DEF s
<1>4. \A i \in 1 .. n + k : s[i] \in Cell
  <2> SUFFICES ASSUME NEW i \in 1 .. n + k  PROVE s[i] \in Cell
    OBVIOUS
  <2>1. CASE i >= at + k
    <3>1. i - k \in 1 .. n  BY <1>1, <2>1
    <3>2. b[i - k] \in Cell  BY <3>1
    <3> QED  BY <1>3, <2>1, <3>2
  <2>2. CASE ~ (i >= at + k)
    <3>1. g[i] \in Cell  BY <1>2
    <3> QED  BY <1>3, <2>2, <3>1
  <2> QED  BY <2>1, <2>2
<1>5. s \in Seq(Cell) /\ Len(s) = n + k
  <2>1. s \in [1 .. n + k -> Cell]  BY <1>3, <1>4
  <2>2. n + k \in Nat  BY <1>1
  <2>3. s \in Seq(Cell)  BY <2>1, <2>2
  <2>4. DOMAIN s = 1 .. n + k  BY <2>1
  <2> QED  BY <2>2, <2>3, <2>4
<1>6. ASSUME NEW i \in 1 .. at - 1  PROVE s[i] = b[i]
  <2>1. i \in 1 .. n + k /\ ~ (i >= at + k) /\ i \in 1 .. n  BY <1>1
  <2> QED  BY <1>2, <1>3, <2>1
<1>7. ASSUME NEW i \in at .. n  PROVE s[i + k] = b[i]
  <2>1. i + k \in 1 .. n + k /\ i + k >= at + k /\ (i + k) - k = i  BY <1>1
  <2> QED  BY <1>3, <2>1
<1> QED  BY <1>5, <1>6, <1>7 DEF s

-----------------------------------------------------------------------------
(* What is laid out.                                                       *)

LEMMA CodeIs ==
  ASSUME NEW d \in Sized, NEW v \in Seq(Cell), Len(v) \in Sized
  PROVE  /\ Header(d, Len(v)) \o v \in Seq(Cell)
         /\ Len(Header(d, Len(v)) \o v) = EncodedSize(d, v)
<1> DEFINE h == Header(d, Len(v))
<1>1. h \in Seq(Cell) /\ Len(h) = 1 + ExtraBytes(d) + ExtraBytes(Len(v))  BY HeaderIs
<1> HIDE DEF h
<1>2. h \o v \in Seq(Cell) /\ Len(h \o v) = Len(h) + Len(v)  BY <1>1, ConcatProperties
<1>3. Len(h \o v) = EncodedSize(d, v)  BY <1>1, <1>2 DEF EncodedSize
<1> QED  BY <1>2, <1>3 DEF h

LEMMA MakeLaid ==
  ASSUME NEW b, NEW os \in Seq(OptionSet), NEW at \in [0 .. Len(os) -> Nat],
         at[0] = FirstOption(b),
         \A k \in 1 .. Len(os) :
           /\ Delta(os, k) >= 0 /\ Len(os[k].value) <= MaxLength
           /\ at[k] = at[k - 1] + EncodedSize(Delta(os, k), os[k].value)
           /\ Holds(b, at[k - 1], Delta(os, k), os[k].value)
  PROVE  Laid(b, at, os)
BY DEF Laid, Delta, Holds

(* What is laid out stays so when the bytes move as a whole.               *)

LEMMA LaidKept ==
  ASSUME NEW b \in Seq(Cell), FirstOption(b) \in Nat, FirstOption(b) > 0,
         NEW at, NEW os, Laid(b, at, os), at[Len(os)] <= Len(b) + 1,
         NEW b2 \in Seq(Cell), NEW shift \in Int,
         FirstOption(b2) = FirstOption(b) + shift, FirstOption(b2) \in Nat,
         \A i \in FirstOption(b) .. at[Len(os)] - 1 : b2[i + shift] = b[i],
         at[Len(os)] + shift <= Len(b2) + 1
  PROVE  Laid(b2, [k \in 0 .. Len(os) |-> at[k] + shift], os)
<1> DEFINE n == Len(os)  at2 == [k \in 0 .. n |-> at[k] + shift]
<1>1. os \in Seq(OptionSet) /\ at \in [0 .. n -> Nat] /\ n \in Nat /\ at[0] = FirstOption(b)
  BY DEF Laid
<1>2. \A k \in 0 .. n : at[k] \in Nat /\ at[0] <= at[k] /\ at[k] <= at[n]
  <2> SUFFICES ASSUME NEW k \in 0 .. n
               PROVE  at[k] \in Nat /\ at[0] <= at[k] /\ at[k] <= at[n]
    OBVIOUS
  <2>1. 0 \in 0 .. k /\ k \in 0 .. n /\ n \in 0 .. n  BY <1>1
  <2>2. at[0] \in Nat /\ at[k] \in Nat /\ at[n] \in Nat  BY <1>1, <2>1
  <2>3. at[0] + (k - 0) <= at[k]  BY <2>1, LaidGrows
  <2>4. at[k] + (n - k) <= at[n]  BY <2>1, LaidGrows
  <2> QED  BY <1>1, <2>2, <2>3, <2>4, SMTT(20)
<1>3. at2 \in [0 .. n -> Nat] /\ at2[0] = FirstOption(b2)
  <2>1. ASSUME NEW k \in 0 .. n  PROVE at[k] + shift \in Nat
    BY <1>1, <1>2
  <2>2. 0 \in 0 .. n  BY <1>1
  <2> QED  BY <1>1, <2>1, <2>2
<1>4. ASSUME NEW k \in 1 .. n
      PROVE  /\ Delta(os, k) >= 0 /\ Len(os[k].value) <= MaxLength
             /\ at2[k] = at2[k - 1] + EncodedSize(Delta(os, k), os[k].value)
             /\ Holds(b2, at2[k - 1], Delta(os, k), os[k].value)
  <2> DEFINE d == Delta(os, k)  v == os[k].value  c == Header(d, Len(v)) \o v
             size == EncodedSize(d, v)
  <2>1. k \in 0 .. n /\ k - 1 \in 0 .. n  BY <1>1
  <2>2. at2[k] = at[k] + shift /\ at2[k - 1] = at[k - 1] + shift  BY <2>1
  <2>3. /\ v \in Seq(Cell) /\ Len(v) \in Sized /\ Len(v) <= MaxLength
        /\ d \in Sized /\ d \in Nat
    BY LaidTypes
  <2>4. at[k] = at[k - 1] + size /\ Holds(b, at[k - 1], d, v) /\ size \in Nat
    BY LaidAt, LaidIs
  <2>5. c \in Seq(Cell) /\ Len(c) = size
    <3> HIDE DEF d, v
    <3>1. c \in Seq(Cell)  BY <2>3, CodeIs
    <3>2. Len(c) = size  BY <2>3, CodeIs
    <3> QED  BY <3>1, <3>2
  <2>6. at[k - 1] \in Nat /\ at[k] \in Nat /\ at[0] <= at[k - 1] /\ at[k] <= at[n] /\ at[n] \in Nat
    <3>1. n \in 0 .. n  BY <1>1
    <3> QED  BY <1>2, <2>1, <3>1
  <2>7. at[k - 1] + shift \in Nat  BY <1>3, <2>1, <2>2
  <2> HIDE DEF at2, c, size
  <2>8. at[k - 1] + shift + Len(c) <= Len(b2) + 1
    <3>1. at[k - 1] + shift + size <= at[n] + shift
      <4> DEFINE x == at[k - 1]  y == at[k]  z == at[n]
      <4>1. x \in Nat /\ y \in Nat /\ z \in Nat /\ y <= z /\ y = x + size /\ size \in Nat
        BY <2>4, <2>6
      <4> HIDE DEF x, y, z
      <4>2. x + shift + size <= z + shift  BY <4>1
      <4> QED  BY <4>2 DEF x, z
    <3> DEFINE x == at[k - 1]  z == at[n]  m == Len(b2) + 1  l == Len(c)
    <3>2. Len(b2) \in Nat  OBVIOUS
    <3>3. /\ x \in Nat /\ z \in Nat /\ m \in Nat /\ l = size /\ size \in Nat
          /\ x + shift + size <= z + shift /\ z + shift <= m
      BY <2>4, <2>5, <2>6, <3>1, <3>2
    <3> HIDE DEF x, z, m, l
    <3>4. x + shift + l <= m  BY <3>3
    <3> QED  BY <3>4 DEF x, m, l
  <2>9. \A i \in at[k - 1] .. at[k - 1] + Len(c) - 1 : b2[i + shift] = b[i]
    <3> SUFFICES ASSUME NEW i \in at[k - 1] .. at[k - 1] + Len(c) - 1
                 PROVE  b2[i + shift] = b[i]
      OBVIOUS
    <3>1. i \in at[0] .. at[n] - 1
      <4> DEFINE w == at[0]  x == at[k - 1]  y == at[k]  z == at[n]
      <4>1. /\ w \in Nat /\ x \in Nat /\ y \in Nat /\ z \in Nat /\ w <= x /\ y <= z
            /\ y = x + size /\ size \in Nat
        BY <1>1, <2>4, <2>6
      <4>2. i \in x .. x + size - 1  BY <2>5
      <4> HIDE DEF w, x, y, z
      <4>3. i \in w .. z - 1  BY <4>1, <4>2
      <4> QED  BY <4>3 DEF w, z
    <3> QED  BY <1>1, <3>1
  <2>10. HoldsAt(b, at[k - 1], c)  BY <2>4 DEF Holds, c
  <2>11. HoldsAt(b2, at[k - 1] + shift, c)
    <3>1. Len(b2) \in Nat  OBVIOUS
    <3> QED  BY <2>5, <2>6, <2>7, <2>8, <2>9, <2>10, <3>1, HoldsMoved
  <2>12. Holds(b2, at2[k - 1], d, v)  BY <2>2, <2>11, Zenon DEF Holds, c
  <2>13. at2[k] = at2[k - 1] + size  BY <2>2, <2>4, <2>6, SMTT(20)
  <2>14. d >= 0  BY <2>3
  <2> QED  BY <2>3, <2>12, <2>13, <2>14 DEF size
<1> HIDE DEF at2
<1>5. Laid(b2, at2, os)
  <2>1. \A k \in 1 .. Len(os) :
          /\ Delta(os, k) >= 0 /\ Len(os[k].value) <= MaxLength
          /\ at2[k] = at2[k - 1] + EncodedSize(Delta(os, k), os[k].value)
          /\ Holds(b2, at2[k - 1], Delta(os, k), os[k].value)
    BY <1>4
  <2>2. os \in Seq(OptionSet) /\ at2 \in [0 .. Len(os) -> Nat] /\ at2[0] = FirstOption(b2)
    BY <1>1, <1>3
  <2> QED  BY <2>1, <2>2, MakeLaid
<1> QED  BY <1>5 DEF at2

-----------------------------------------------------------------------------
(* An option between others, or behind them.                               *)

LEMMA InsertAtIs ==
  ASSUME NEW os \in Seq(OptionSet), NEW j \in 0 .. Len(os), NEW new \in OptionSet
  PROVE  /\ InsertAt(os, j + 1, new) \in Seq(OptionSet)
         /\ Len(InsertAt(os, j + 1, new)) = Len(os) + 1
         /\ \A k \in 1 .. j : InsertAt(os, j + 1, new)[k] = os[k]
         /\ InsertAt(os, j + 1, new)[j + 1] = new
         /\ \A k \in j + 2 .. Len(os) + 1 : InsertAt(os, j + 1, new)[k] = os[k - 1]
<1> DEFINE n == Len(os)  x == SubSeq(os, 1, j)  y == <<new>>  z == SubSeq(os, j + 1, n)
<1>1. n \in Nat /\ j \in Nat /\ j <= n  OBVIOUS
<1>2. x \in Seq(OptionSet) /\ Len(x) = j /\ \A k \in 1 .. j : x[k] = os[k]
  <2>1. \A i \in 1 .. j : os[i] \in OptionSet  BY <1>1
  <2>2. Len(x) = IF 1 <= j THEN j - 1 + 1 ELSE 0  BY <1>1, <2>1, SubSeqProperties
  <2>3. x \in Seq(OptionSet) /\ \A i \in 1 .. j - 1 + 1 : x[i] = os[1 + i - 1]
    BY <1>1, <2>1, SubSeqProperties
  <2>4. ASSUME NEW k \in 1 .. j  PROVE x[k] = os[k]
    <3>1. k \in 1 .. j - 1 + 1 /\ 1 + k - 1 = k  BY <1>1
    <3> QED  BY <2>3, <3>1
  <2>5. Len(x) = j  BY <1>1, <2>2
  <2> QED  BY <2>3, <2>4, <2>5
<1>3. z \in Seq(OptionSet) /\ Len(z) = n - j /\ \A k \in 1 .. n - j : z[k] = os[j + k]
  <2>1. \A i \in j + 1 .. n : os[i] \in OptionSet  BY <1>1
  <2>2. Len(z) = IF j + 1 <= n THEN n - (j + 1) + 1 ELSE 0  BY <1>1, <2>1, SubSeqProperties
  <2>3. z \in Seq(OptionSet) /\ \A i \in 1 .. n - (j + 1) + 1 : z[i] = os[(j + 1) + i - 1]
    BY <1>1, <2>1, SubSeqProperties
  <2>4. ASSUME NEW k \in 1 .. n - j  PROVE z[k] = os[j + k]
    <3>1. k \in 1 .. n - (j + 1) + 1 /\ (j + 1) + k - 1 = j + k  BY <1>1
    <3> QED  BY <2>3, <3>1
  <2>5. Len(z) = n - j  BY <1>1, <2>2
  <2> QED  BY <2>3, <2>4, <2>5
<1>4. y \in Seq(OptionSet) /\ Len(y) = 1 /\ y[1] = new  OBVIOUS
<1> DEFINE s == InsertAt(os, j + 1, new)
<1>5. s = (x \o y) \o z
  <2>1. (j + 1) - 1 = j  BY <1>1
  <2> QED  BY <2>1 DEF InsertAt
<1> HIDE DEF x, y, z, s
<1>6. /\ x \o y \in Seq(OptionSet) /\ Len(x \o y) = j + 1
      /\ \A k \in 1 .. j : (x \o y)[k] = os[k]
      /\ (x \o y)[j + 1] = new
  <2>1. x \o y \in Seq(OptionSet) /\ Len(x \o y) = j + 1
    <3>1. x \o y \in Seq(OptionSet) /\ Len(x \o y) = Len(x) + Len(y)
      BY <1>2, <1>4, ConcatProperties
    <3> QED  BY <1>2, <1>4, <3>1
  <2>2. ASSUME NEW k \in 1 .. j  PROVE (x \o y)[k] = os[k]
    <3>1. k \in 1 .. Len(x) + Len(y) /\ k <= Len(x)  BY <1>1, <1>2, <1>4
    <3>2. (x \o y)[k] = x[k]  BY <1>2, <1>4, <3>1
    <3> QED  BY <1>2, <3>2
  <2>3. (x \o y)[j + 1] = y[1]
    <3>1. j + 1 \in 1 .. Len(x) + Len(y) /\ ~ (j + 1 <= Len(x)) /\ (j + 1) - Len(x) = 1
      BY <1>1, <1>2, <1>4
    <3>2. (x \o y)[j + 1] = y[(j + 1) - Len(x)]  BY <1>2, <1>4, <3>1, ConcatProperties
    <3> QED  BY <3>1, <3>2
  <2> QED  BY <1>4, <2>1, <2>2, <2>3
<1> DEFINE w == x \o y
<1> HIDE DEF w
<1>7. w \in Seq(OptionSet) /\ Len(w) = j + 1 /\ s = w \o z  BY <1>5, <1>6 DEF w
<1>8. s \in Seq(OptionSet) /\ Len(s) = n + 1
  <2>1. w \o z \in Seq(OptionSet) /\ Len(w \o z) = Len(w) + Len(z)  BY <1>3, <1>7, ConcatProperties
  <2> QED  BY <1>1, <1>3, <1>7, <2>1
<1>9. ASSUME NEW k \in 1 .. j + 1  PROVE s[k] = w[k]
  <2>1. k \in 1 .. Len(w) + Len(z) /\ k <= Len(w)  BY <1>1, <1>3, <1>7
  <2> QED  BY <1>3, <1>7, <2>1, ConcatProperties
<1>10. ASSUME NEW k \in j + 2 .. n + 1  PROVE s[k] = os[k - 1]
  <2>1. /\ k \in 1 .. Len(w) + Len(z) /\ ~ (k <= Len(w))
        /\ k - Len(w) \in 1 .. n - j /\ j + (k - Len(w)) = k - 1
    BY <1>1, <1>3, <1>7
  <2>2. s[k] = z[k - Len(w)]  BY <1>3, <1>7, <2>1, ConcatProperties
  <2> QED  BY <1>3, <2>1, <2>2
<1>11. /\ \A k \in 1 .. j : k \in 1 .. j + 1 /\ w[k] = os[k]
       /\ j + 1 \in 1 .. j + 1 /\ w[j + 1] = new
  BY <1>1, <1>6 DEF w
<1>12. (\A k \in 1 .. j : s[k] = os[k]) /\ s[j + 1] = new  BY <1>9, <1>11
<1> QED  BY <1>8, <1>10, <1>12 DEF s

LEMMA InsertedNumbers ==
  ASSUME NEW os \in Seq(OptionSet), NEW j \in 0 .. Len(os), NEW new \in OptionSet,
         NEW os2, os2 = InsertAt(os, j + 1, new)
  PROVE  /\ \A k \in 0 .. j : NumberOf(os2, k) = NumberOf(os, k)
         /\ NumberOf(os2, j + 1) = new.number
         /\ \A k \in j + 2 .. Len(os) + 1 : NumberOf(os2, k) = NumberOf(os, k - 1)
         /\ LastNumber(os2) = IF j = Len(os) THEN new.number ELSE LastNumber(os)
<1>1. Len(os) \in Nat /\ j \in Nat /\ j <= Len(os)  OBVIOUS
<1>2. /\ Len(os2) = Len(os) + 1 /\ os2[j + 1] = new
      /\ \A k \in 1 .. j : os2[k] = os[k]
      /\ \A k \in j + 2 .. Len(os) + 1 : os2[k] = os[k - 1]
  BY InsertAtIs
<1>3. ASSUME NEW k \in 0 .. j  PROVE NumberOf(os2, k) = NumberOf(os, k)
  <2>1. k # 0 => k \in 1 .. j  BY <1>1
  <2> QED  BY <1>2, <2>1 DEF NumberOf
<1>4. NumberOf(os2, j + 1) = new.number
  <2>1. j + 1 # 0  BY <1>1
  <2> QED  BY <1>2, <2>1 DEF NumberOf
<1>5. ASSUME NEW k \in j + 2 .. Len(os) + 1  PROVE NumberOf(os2, k) = NumberOf(os, k - 1)
  <2>1. k # 0 /\ k - 1 # 0  BY <1>1
  <2> QED  BY <1>2, <2>1 DEF NumberOf
<1>6. LastNumber(os2) = NumberOf(os2, Len(os) + 1)
  <2>1. Len(os2) = Len(os) + 1  BY <1>2
  <2> QED  BY <2>1 DEF LastNumber
<1>7. CASE j = Len(os)
  <2>1. LastNumber(os2) = new.number  BY <1>4, <1>6, <1>7
  <2> QED  BY <1>3, <1>4, <1>5, <1>7, <2>1
<1>8. CASE j # Len(os)
  <2>1. Len(os) + 1 \in j + 2 .. Len(os) + 1 /\ (Len(os) + 1) - 1 = Len(os)  BY <1>1, <1>8
  <2>2. NumberOf(os2, Len(os) + 1) = NumberOf(os, Len(os))  BY <1>5, <2>1
  <2>3. LastNumber(os2) = LastNumber(os)  BY <1>6, <2>2 DEF LastNumber
  <2> QED  BY <1>3, <1>4, <1>5, <1>8, <2>3
<1> QED  BY <1>7, <1>8

(* An option of which every byte moves by the same distance.               *)
LEMMA OptionMoved ==
  ASSUME NEW b \in Seq(Cell), NEW at, NEW os, Laid(b, at, os), NEW k \in 1 .. Len(os),
         NEW b2, Len(b2) \in Nat, NEW shift \in Int, at[k - 1] + shift \in Nat,
         at[k] + shift <= Len(b2) + 1,
         \A i \in at[k - 1] .. at[k] - 1 : b2[i + shift] = b[i]
  PROVE  Holds(b2, at[k - 1] + shift, Delta(os, k), os[k].value)
<1> DEFINE d == Delta(os, k)  v == os[k].value  c == Header(d, Len(v)) \o v
           x == at[k - 1]  y == at[k]  size == EncodedSize(d, v)
<1>1. v \in Seq(Cell) /\ Len(v) \in Sized /\ d \in Sized  BY LaidTypes
<1>2. x \in Nat /\ y = x + size /\ size \in Nat /\ Holds(b, x, d, v)  BY LaidAt, LaidIs
<1>3. x + shift \in Nat /\ y + shift <= Len(b2) + 1  OBVIOUS
<1>4. \A i \in x .. y - 1 : b2[i + shift] = b[i]  OBVIOUS
<1> HIDE DEF d, v, x, y
<1>5. c \in Seq(Cell) /\ Len(c) = size
  <2>1. c \in Seq(Cell)  BY <1>1, CodeIs
  <2>2. Len(c) = size  BY <1>1, CodeIs
  <2> QED  BY <2>1, <2>2
<1>6. HoldsAt(b, x, c)  BY <1>2 DEF Holds
<1> HIDE DEF c, size
<1>7. x + shift + Len(c) <= Len(b2) + 1  BY <1>2, <1>3, <1>5
<1>8. \A i \in x .. x + Len(c) - 1 : b2[i + shift] = b[i]  BY <1>2, <1>4, <1>5
<1>9. HoldsAt(b2, x + shift, c)  BY <1>2, <1>3, <1>5, <1>6, <1>7, <1>8, HoldsMoved
<1> QED  BY <1>9, Zenon DEF Holds, c, x, d, v

LEMMA LaidRange ==
  ASSUME NEW b \in Seq(Cell), NEW at, NEW os, Laid(b, at, os), NEW k \in 0 .. Len(os)
  PROVE  at[k] \in Nat /\ FirstOption(b) <= at[k] /\ at[k] <= at[Len(os)]
<1>1. os \in Seq(OptionSet) /\ Len(os) \in Nat /\ at[0] = FirstOption(b)  BY DEF Laid
<1>2. 0 \in 0 .. k /\ Len(os) \in 0 .. Len(os) /\ 0 \in 0 .. Len(os) /\ k \in 0 .. Len(os)  BY <1>1
<1>3. at[0] \in Nat /\ at[k] \in Nat /\ at[Len(os)] \in Nat  BY <1>2, LaidGrows
<1>4. at[0] + (k - 0) <= at[k]  BY <1>2, LaidGrows
<1>5. at[k] + (Len(os) - k) <= at[Len(os)]  BY <1>2, LaidGrows
<1> QED  BY <1>1, <1>3, <1>4, <1>5

(* An option has been put behind the j-th: the next one has moved and may  *)
(* have a new header, and the ones behind that have moved.                 *)
Moved(b, at, os, j, new, b2, grow, after) ==
  /\ at[j + 1] + grow = after + EncodedSize(NumberOf(os, j + 1) - new.number, os[j + 1].value)
  /\ Holds(b2, after, NumberOf(os, j + 1) - new.number, os[j + 1].value)
  /\ \A i \in at[j + 1] .. at[Len(os)] - 1 : b2[i + grow] = b[i]

Inserted(b, at, os, j, new, b2, grow, after) ==
  /\ b \in Seq(Cell) /\ Laid(b, at, os) /\ at[Len(os)] <= Len(b) + 1
  /\ j \in 0 .. Len(os) /\ new \in OptionSet /\ b2 \in Seq(Cell) /\ grow \in Nat
  /\ Len(new.value) <= MaxLength
  /\ NumberOf(os, j) <= new.number /\ (j < Len(os) => new.number <= NumberOf(os, j + 1))
  /\ FirstOption(b2) = FirstOption(b) /\ Len(b2) = Len(b) + grow
  /\ \A i \in FirstOption(b) .. at[j] - 1 : b2[i] = b[i]
  /\ Holds(b2, at[j], new.number - NumberOf(os, j), new.value)
  /\ after = at[j] + EncodedSize(new.number - NumberOf(os, j), new.value)
  /\ j = Len(os) => after = at[j] + grow
  /\ j < Len(os) => Moved(b, at, os, j, new, b2, grow, after)

LaidAgain(at, os, j, new, b2, grow) ==
  \E at2 : /\ Laid(b2, at2, InsertAt(os, j + 1, new))
           /\ at2[Len(os) + 1] = at[Len(os)] + grow

LEMMA LaidInserted ==
  ASSUME NEW b, NEW at, NEW os, NEW j, NEW new, NEW b2, NEW grow, NEW after,
         Inserted(b, at, os, j, new, b2, grow, after)
  PROVE  LaidAgain(at, os, j, new, b2, grow)
<1>0. /\ b \in Seq(Cell) /\ Laid(b, at, os) /\ at[Len(os)] <= Len(b) + 1
      /\ j \in 0 .. Len(os) /\ new \in OptionSet /\ b2 \in Seq(Cell) /\ grow \in Nat
      /\ Len(new.value) <= MaxLength
      /\ NumberOf(os, j) <= new.number /\ (j < Len(os) => new.number <= NumberOf(os, j + 1))
      /\ FirstOption(b2) = FirstOption(b) /\ Len(b2) = Len(b) + grow
      /\ \A i \in FirstOption(b) .. at[j] - 1 : b2[i] = b[i]
      /\ Holds(b2, at[j], new.number - NumberOf(os, j), new.value)
      /\ after = at[j] + EncodedSize(new.number - NumberOf(os, j), new.value)
      /\ j = Len(os) => after = at[j] + grow
  BY DEF Inserted
<1>00. ASSUME j < Len(os)
       PROVE  /\ at[j + 1] + grow =
                   after + EncodedSize(NumberOf(os, j + 1) - new.number, os[j + 1].value)
              /\ Holds(b2, after, NumberOf(os, j + 1) - new.number, os[j + 1].value)
              /\ \A i \in at[j + 1] .. at[Len(os)] - 1 : b2[i + grow] = b[i]
  BY <1>00 DEF Inserted, Moved
<1> USE <1>0
<1> DEFINE n == Len(os)  os2 == InsertAt(os, j + 1, new)
           at2 == [k \in 0 .. n + 1 |-> IF k <= j THEN at[k]
                                        ELSE IF k = j + 1 THEN after ELSE at[k - 1] + grow]
           delta == new.number - NumberOf(os, j)
<1>1. os \in Seq(OptionSet) /\ n \in Nat /\ j \in Nat /\ j <= n /\ at[0] = FirstOption(b)
  BY DEF Laid
<1>2. \A k \in 0 .. n : at[k] \in Nat /\ at[0] <= at[k] /\ at[k] <= at[n]
  BY <1>1, LaidRange
<1>3. \A k \in 0 .. n : NumberOf(os, k) \in Nat  BY <1>1, NumberIs
<1>4. /\ new.value \in Seq(Cell) /\ Len(new.value) \in Sized
      /\ new.number \in Sized /\ new.number \in Nat
  <2>1. new.value \in Seq(Cell) /\ new.number \in 0 .. MaxUint16  BY DEF OptionSet
  <2>2. new.number \in Sized  BY <2>1, SizedRange
  <2>3. Len(new.value) \in Nat  BY <2>1
  <2> QED  BY <2>1, <2>2, <2>3, LengthIs, SizedIs
<1>5. delta \in Sized /\ delta >= 0
  <2>1. NumberOf(os, j) \in Nat /\ NumberOf(os, j) <= new.number  BY <1>1, <1>3
  <2>2. new.number <= 65535  BY <1>4, SizedIs
  <2>3. delta \in Nat /\ delta <= 65535 /\ delta >= 0  BY <1>4, <2>1, <2>2
  <2> HIDE DEF delta
  <2> QED  BY <2>3, SizedIs, SMTT(20)
<1>6. EncodedSize(delta, new.value) \in Nat
  <2> HIDE DEF delta
  <2> QED  BY <1>4, <1>5, SizeIs
<1>7. after \in Nat /\ after = at[j] + EncodedSize(delta, new.value)
  <2>1. at[j] \in Nat  BY <1>1, <1>2
  <2> HIDE DEF delta
  <2>2. after = at[j] + EncodedSize(delta, new.value)  BY DEF delta
  <2> QED  BY <1>6, <2>1, <2>2
<1>8. /\ os2 \in Seq(OptionSet) /\ Len(os2) = n + 1 /\ os2[j + 1] = new
      /\ \A k \in 1 .. j : os2[k] = os[k]
      /\ \A k \in j + 2 .. n + 1 : os2[k] = os[k - 1]
  BY <1>1, InsertAtIs
<1>9. /\ \A k \in 0 .. j : NumberOf(os2, k) = NumberOf(os, k)
      /\ NumberOf(os2, j + 1) = new.number
      /\ \A k \in j + 2 .. n + 1 : NumberOf(os2, k) = NumberOf(os, k - 1)
  BY <1>1, InsertedNumbers
<1> HIDE DEF os2
<1>10. /\ \A k \in 0 .. j : at2[k] = at[k]
       /\ at2[j + 1] = after
       /\ \A k \in j + 2 .. n + 1 : at2[k] = at[k - 1] + grow
  <2>1. ASSUME NEW k \in 0 .. j  PROVE at2[k] = at[k]
    <3>1. k \in 0 .. n + 1 /\ k <= j  BY <1>1
    <3> QED  BY <3>1
  <2>2. at2[j + 1] = after
    <3>1. j + 1 \in 0 .. n + 1 /\ ~ (j + 1 <= j)  BY <1>1
    <3> QED  BY <3>1
  <2>3. ASSUME NEW k \in j + 2 .. n + 1  PROVE at2[k] = at[k - 1] + grow
    <3>1. k \in 0 .. n + 1 /\ ~ (k <= j) /\ k # j + 1  BY <1>1
    <3> QED  BY <3>1
  <2> QED  BY <2>1, <2>2, <2>3
<1>11. at2 \in [0 .. n + 1 -> Nat] /\ at2[0] = FirstOption(b2)
  <2>1. ASSUME NEW k \in 0 .. n + 1
        PROVE  (IF k <= j THEN at[k] ELSE IF k = j + 1 THEN after ELSE at[k - 1] + grow) \in Nat
    <3>1. CASE k <= j  BY <1>1, <1>2, <3>1
    <3>2. CASE k = j + 1  BY <1>1, <1>7, <3>2
    <3>3. CASE k > j + 1
      <4>1. k - 1 \in 0 .. n /\ ~ (k <= j) /\ k # j + 1  BY <1>1, <3>3
      <4>2. at[k - 1] \in Nat  BY <1>2, <4>1
      <4> QED  BY <4>1, <4>2, SMTT(20)
    <3> QED  BY <1>1, <3>1, <3>2, <3>3
  <2>2. at2 \in [0 .. n + 1 -> Nat]  BY <2>1
  <2>3. 0 \in 0 .. j  BY <1>1
  <2> HIDE DEF at2
  <2> QED  BY <1>1, <1>10, <2>2, <2>3
<1> HIDE DEF at2
<1> DEFINE Good(k) == /\ Delta(os2, k) >= 0 /\ Len(os2[k].value) <= MaxLength
                      /\ at2[k] = at2[k - 1] + EncodedSize(Delta(os2, k), os2[k].value)
                      /\ Holds(b2, at2[k - 1], Delta(os2, k), os2[k].value)
<1>12. ASSUME NEW k \in 1 .. n, NEW i \in 1 .. n + 1, NEW shift \in {0, grow},
              os2[i] = os[k], NumberOf(os2, i) = NumberOf(os, k),
              NumberOf(os2, i - 1) = NumberOf(os, k - 1),
              at2[i] = at[k] + shift, at2[i - 1] = at[k - 1] + shift,
              \A p \in at[k - 1] .. at[k] - 1 : b2[p + shift] = b[p]
       PROVE  Good(i)
  <2>1. Delta(os2, i) = Delta(os, k)  BY <1>12 DEF Delta
  <2>2. k \in 0 .. n /\ k - 1 \in 0 .. n /\ n \in 0 .. n /\ shift \in Nat /\ shift <= grow
    BY <1>1
  <2>3. at[k] \in Nat /\ at[k - 1] \in Nat /\ at[k] <= at[n] /\ at[n] \in Nat  BY <1>2, <2>2
  <2>4. at[k] + shift <= Len(b2) + 1 /\ Len(b2) \in Nat
    <3>1. at[n] <= Len(b) + 1 /\ Len(b) \in Nat /\ Len(b2) = Len(b) + grow  OBVIOUS
    <3> DEFINE x == at[k]  y == at[n]  l == Len(b)  l2 == Len(b2)
    <3>2. /\ x \in Nat /\ y \in Nat /\ x <= y /\ y <= l + 1 /\ l \in Nat /\ l2 = l + grow
          /\ shift \in Nat /\ shift <= grow /\ grow \in Nat
      BY <2>2, <2>3, <3>1
    <3> HIDE DEF x, y, l, l2
    <3>3. x + shift <= l2 + 1 /\ l2 \in Nat  BY <3>2
    <3> QED  BY <3>3 DEF x, l2
  <2>5. at[k - 1] + shift \in Nat /\ shift \in Int
    <3> DEFINE x == at[k - 1]
    <3>1. x \in Nat  BY <2>3
    <3> HIDE DEF x
    <3>2. x + shift \in Nat /\ shift \in Int  BY <2>2, <3>1
    <3> QED  BY <3>2 DEF x
  <2>6. Holds(b2, at[k - 1] + shift, Delta(os, k), os[k].value)
    BY <1>12, <2>4, <2>5, OptionMoved
  <2>7. /\ Delta(os, k) >= 0 /\ Len(os[k].value) <= MaxLength
        /\ at[k] = at[k - 1] + EncodedSize(Delta(os, k), os[k].value)
        /\ EncodedSize(Delta(os, k), os[k].value) \in Nat
    BY LaidIs, LaidAt
  <2> DEFINE size == EncodedSize(Delta(os, k), os[k].value)
  <2> HIDE DEF size
  <2>8. at[k] = at[k - 1] + size /\ size \in Nat  BY <2>7 DEF size
  <2>9. at2[i] = at2[i - 1] + size  BY <1>12, <2>2, <2>3, <2>8, SMTT(20)
  <2>10. at2[i] = at2[i - 1] + EncodedSize(Delta(os2, i), os2[i].value)
    BY <1>12, <2>1, <2>9 DEF size
  <2>11. Holds(b2, at2[i - 1], Delta(os2, i), os2[i].value)  BY <1>12, <2>1, <2>6
  <2>12. Delta(os2, i) >= 0 /\ Len(os2[i].value) <= MaxLength  BY <1>12, <2>1, <2>7
  <2> QED  BY <2>10, <2>11, <2>12
<1>13. ASSUME NEW k \in 1 .. n + 1  PROVE Good(k)
  <2>1. CASE k <= j
    <3>1. /\ k \in 1 .. n /\ k \in 1 .. j /\ k \in 0 .. j /\ k - 1 \in 0 .. j
          /\ k \in 0 .. n /\ k - 1 \in 0 .. n
      BY <1>1, <2>1
    <3>2. at2[k] = at[k] /\ at2[k - 1] = at[k - 1] /\ at[k] \in Nat /\ at[k - 1] \in Nat
      BY <1>2, <1>10, <3>1
    <3>3. at2[k] = at[k] + 0 /\ at2[k - 1] = at[k - 1] + 0  BY <3>2
    <3>4. os2[k] = os[k] /\ NumberOf(os2, k) = NumberOf(os, k)
          /\ NumberOf(os2, k - 1) = NumberOf(os, k - 1)
      BY <1>8, <1>9, <3>1
    <3>5. at[0] <= at[k - 1] /\ at[k] <= at[j] /\ at[j] \in Nat /\ at[0] \in Nat
      <4>1. k \in 0 .. j /\ j \in 0 .. n /\ 0 \in 0 .. n  BY <1>1, <3>1
      <4>2. at[k] + (j - k) <= at[j]  BY <4>1, LaidGrows
      <4>3. at[j] \in Nat /\ at[0] \in Nat /\ at[0] <= at[k - 1]  BY <1>2, <3>1, <4>1
      <4> QED  BY <1>1, <2>1, <3>2, <4>2, <4>3, SMTT(20)
    <3>6. ASSUME NEW p \in at[k - 1] .. at[k] - 1  PROVE b2[p + 0] = b[p]
      <4> DEFINE w == at[0]  x == at[k - 1]  y == at[k]  z == at[j]
      <4>0. /\ w \in Nat /\ x \in Nat /\ y \in Nat /\ z \in Nat /\ w <= x /\ y <= z
            /\ p \in x .. y - 1
        BY <3>2, <3>5
      <4> HIDE DEF w, x, y, z
      <4>1. p \in w .. z - 1 /\ p + 0 = p  BY <4>0
      <4> USE DEF w, x, y, z
      <4> QED  BY <1>1, <4>1
    <3> HIDE DEF Good
    <3>7. 0 \in {0, grow}  OBVIOUS
    <3> QED  BY <1>12, <3>1, <3>3, <3>4, <3>6, <3>7
  <2>2. CASE k = j + 1
    <3>0. k - 1 = j /\ j \in 0 .. j /\ at2[j] = at[j]  BY <1>1, <1>10, <2>2
    <3>1. at2[k] = after /\ at2[k - 1] = at[j] /\ os2[k] = new
      BY <1>8, <1>10, <2>2, <3>0
    <3>2. NumberOf(os2, k) = new.number /\ NumberOf(os2, k - 1) = NumberOf(os, j)
      BY <1>9, <2>2, <3>0
    <3>3. Delta(os2, k) = delta  BY <3>2 DEF Delta
    <3>4. Holds(b2, at[j], delta, new.value)  OBVIOUS
    <3> HIDE DEF delta
    <3> QED  BY <1>5, <1>7, <3>1, <3>3, <3>4
  <2>3. CASE k = j + 2
    <3>1. /\ k - 1 = j + 1 /\ k \in j + 2 .. n + 1 /\ j < n /\ j + 1 \in 1 .. n
          /\ j + 1 \in 0 .. n
      BY <1>1, <2>3
    <3>2. at2[k] = at[j + 1] + grow /\ at2[k - 1] = after /\ os2[k] = os[j + 1]
      BY <1>8, <1>10, <3>1
    <3>3. Delta(os2, k) = NumberOf(os, j + 1) - new.number  BY <1>9, <3>1 DEF Delta
    <3>4. new.number <= NumberOf(os, j + 1) /\ NumberOf(os, j + 1) \in Nat  BY <1>3, <3>1
    <3>5. Delta(os2, k) >= 0  BY <1>4, <3>3, <3>4
    <3>6. Len(os[j + 1].value) <= MaxLength  BY <3>1, LaidIs
    <3>7. at[j + 1] + grow = after + EncodedSize(NumberOf(os, j + 1) - new.number, os[j + 1].value)
          /\ Holds(b2, after, NumberOf(os, j + 1) - new.number, os[j + 1].value)
      BY <1>00, <3>1
    <3>8. at2[k] = at2[k - 1] + EncodedSize(Delta(os2, k), os2[k].value)
          /\ Holds(b2, at2[k - 1], Delta(os2, k), os2[k].value)
      BY <3>2, <3>3, <3>7, Zenon
    <3> QED  BY <3>2, <3>5, <3>6, <3>8
  <2>4. CASE k > j + 2
    <3>1. /\ k - 1 \in 1 .. n /\ k \in j + 2 .. n + 1 /\ k - 1 \in j + 2 .. n + 1
          /\ j < n /\ k - 1 \in 0 .. n /\ (k - 1) - 1 \in 0 .. n /\ j + 1 \in 0 .. (k - 1) - 1
      <4>1. k \in Nat /\ k > j + 2 /\ k <= n + 1  BY <1>1, <2>4
      <4>2. k - 1 \in 1 .. n /\ k \in j + 2 .. n + 1 /\ k - 1 \in j + 2 .. n + 1 /\ j < n
        BY <1>1, <4>1
      <4>3. k - 1 \in 0 .. n /\ (k - 1) - 1 \in 0 .. n /\ j + 1 \in 0 .. (k - 1) - 1
        BY <1>1, <4>1
      <4> QED  BY <4>2, <4>3
    <3>2. /\ at2[k] = at[k - 1] + grow /\ at2[k - 1] = at[(k - 1) - 1] + grow
          /\ os2[k] = os[k - 1] /\ NumberOf(os2, k) = NumberOf(os, k - 1)
          /\ NumberOf(os2, k - 1) = NumberOf(os, (k - 1) - 1)
      BY <1>8, <1>9, <1>10, <3>1
    <3>3. at[j + 1] <= at[(k - 1) - 1] /\ at[k - 1] <= at[n] /\ at[n] \in Nat
          /\ at[j + 1] \in Nat /\ at[(k - 1) - 1] \in Nat /\ at[k - 1] \in Nat
      <4>1. at[j + 1] + ((k - 1) - 1 - (j + 1)) <= at[(k - 1) - 1]  BY <3>1, LaidGrows
      <4>2. j + 1 \in 0 .. n /\ n \in 0 .. n  BY <1>1, <3>1
      <4>3. /\ at[j + 1] \in Nat /\ at[(k - 1) - 1] \in Nat /\ at[k - 1] \in Nat
            /\ at[n] \in Nat /\ at[k - 1] <= at[n]
        BY <1>2, <3>1, <4>2
      <4> DEFINE x == at[j + 1]  y == at[(k - 1) - 1]
      <4>4. x \in Nat /\ y \in Nat /\ x + ((k - 1) - 1 - (j + 1)) <= y  BY <4>1, <4>3
      <4> HIDE DEF x, y
      <4>5. x <= y  BY <1>1, <2>4, <4>4
      <4> QED  BY <4>3, <4>5 DEF x, y
    <3>4. ASSUME NEW p \in at[(k - 1) - 1] .. at[k - 1] - 1  PROVE b2[p + grow] = b[p]
      <4> DEFINE w == at[j + 1]  x == at[(k - 1) - 1]  y == at[k - 1]  z == at[n]
      <4>0. /\ w \in Nat /\ x \in Nat /\ y \in Nat /\ z \in Nat /\ w <= x /\ y <= z
            /\ p \in x .. y - 1
        BY <3>3
      <4> HIDE DEF w, x, y, z
      <4>1. p \in w .. z - 1  BY <4>0
      <4> USE DEF w, x, y, z
      <4> QED  BY <1>00, <3>1, <4>1
    <3> HIDE DEF Good
    <3>5. grow \in {0, grow}  OBVIOUS
    <3> QED  BY <1>12, <3>1, <3>2, <3>4, <3>5
  <2> QED  BY <1>1, <2>1, <2>2, <2>3, <2>4
<1>14. Laid(b2, at2, os2)
  <2>1. \A k \in 1 .. Len(os2) :
          /\ Delta(os2, k) >= 0 /\ Len(os2[k].value) <= MaxLength
          /\ at2[k] = at2[k - 1] + EncodedSize(Delta(os2, k), os2[k].value)
          /\ Holds(b2, at2[k - 1], Delta(os2, k), os2[k].value)
    BY <1>8, <1>13
  <2>2. at2 \in [0 .. Len(os2) -> Nat] /\ at2[0] = FirstOption(b2)  BY <1>8, <1>11
  <2> QED  BY <1>8, <2>1, <2>2, MakeLaid
<1>15. at2[n + 1] = at[n] + grow
  <2>1. CASE j = n  BY <1>10, <2>1
  <2>2. CASE j # n
    <3>1. n + 1 \in j + 2 .. n + 1 /\ (n + 1) - 1 = n  BY <1>1, <2>2
    <3> QED  BY <1>10, <3>1
  <2> QED  BY <2>1, <2>2
<1> QED  BY <1>14, <1>15 DEF os2, LaidAgain

-----------------------------------------------------------------------------
(* The bytes of a new option.                                              *)

LEMMA CopiedIs ==
  ASSUME NEW v \in Seq(Cell)
  PROVE  /\ Copied(v) \in Seq(Cell) /\ Len(Copied(v)) <= Len(v)
         /\ Len(v) < 269 => Copied(v) = v
<1>1. Len(v) \in Nat  OBVIOUS
<1>2. CASE Len(v) < 269
  <2>1. Copied(v) = SubSeq(v, 1, Len(v))  BY <1>2 DEF Copied
  <2>2. Copied(v) = v  BY <2>1, SubSeqFull
  <2> QED  BY <1>1, <2>2
<1>3. CASE ~ (Len(v) < 269)
  <2> DEFINE m == Len(v) - 269
  <2>1. Copied(v) = SubSeq(v, 1, m)  BY <1>3 DEF Copied
  <2>2. m \in Nat /\ m <= Len(v)  BY <1>1, <1>3
  <2> HIDE DEF m
  <2>3. SubSeq(v, 1, m) \in Seq(Cell) /\ Len(SubSeq(v, 1, m)) = m  BY <2>2
  <2> QED  BY <1>3, <2>1, <2>2, <2>3
<1> QED  BY <1>2, <1>3

LEMMA EncodedIs ==
  ASSUME NEW d \in Sized, NEW v \in Seq(Cell), Len(v) \in Sized
  PROVE  /\ Encoded(d, v) \in Seq(Cell) /\ Len(Encoded(d, v)) <= EncodedSize(d, v)
<1> DEFINE h == Header(d, Len(v))  c == Copied(v)
<1>1. h \in Seq(Cell) /\ Len(h) = 1 + ExtraBytes(d) + ExtraBytes(Len(v))  BY HeaderIs
<1>2. c \in Seq(Cell) /\ Len(c) <= Len(v)  BY CopiedIs
<1>3. EncodedSize(d, v) = 1 + ExtraBytes(d) + ExtraBytes(Len(v)) + Len(v)  BY DEF EncodedSize
<1>4. Encoded(d, v) = h \o c  BY DEF Encoded
<1> HIDE DEF h, c
<1>5. h \o c \in Seq(Cell) /\ Len(h \o c) = Len(h) + Len(c)  BY <1>1, <1>2, ConcatProperties
<1> DEFINE x == Len(h)  y == Len(c)  l == Len(v)  e == EncodedSize(d, v)
<1>6. e = x + l /\ x \in Nat /\ y \in Nat /\ l \in Nat /\ y <= l  BY <1>1, <1>2, <1>3
<1> HIDE DEF x, y, l, e
<1>7. x + y <= e  BY <1>6
<1> QED  BY <1>4, <1>5, <1>7 DEF x, y, e

(* An option is there as long as its value should be; the value itself is  *)
(* when it is shorter than 269 bytes.                                      *)
LEMMA EncodedHolds ==
  ASSUME NEW d \in Sized, NEW v \in Seq(Cell), Len(v) \in Sized, NEW at \in Nat, at # 0,
         NEW b \in Seq(Cell), HoldsAt(b, at, Encoded(d, v)),
         at + EncodedSize(d, v) <= Len(b) + 1
  PROVE  \E w \in Seq(Cell) : /\ Len(w) = Len(v) /\ EncodedSize(d, w) = EncodedSize(d, v)
                              /\ Len(v) < 269 => w = v
                              /\ Holds(b, at, d, w)
<1> DEFINE h == Header(d, Len(v))  c == Copied(v)  p == at + Len(h)
           w == SubSeq(b, p, p + Len(v) - 1)
<1>1. h \in Seq(Cell) /\ Len(h) = 1 + ExtraBytes(d) + ExtraBytes(Len(v))  BY HeaderIs
<1>2. c \in Seq(Cell) /\ (Len(v) < 269 => c = v)  BY CopiedIs
<1>3. HoldsAt(b, at, h) /\ HoldsAt(b, p, c)
  <2>1. HoldsAt(b, at, h \o c)  BY DEF Encoded
  <2> HIDE DEF h, c
  <2> QED  BY <1>1, <1>2, <2>1, HoldsConcat
<1>4. p + Len(v) = at + EncodedSize(d, v)
  <2>1. EncodedSize(d, v) = 1 + ExtraBytes(d) + ExtraBytes(Len(v)) + Len(v)  BY DEF EncodedSize
  <2>2. ExtraBytes(d) \in Nat /\ ExtraBytes(Len(v)) \in Nat /\ Len(v) \in Nat  BY NibbleIs
  <2> HIDE DEF h
  <2> QED  BY <1>1, <2>1, <2>2
<1>5. p \in Nat /\ p # 0 /\ p + Len(v) - 1 <= Len(b) /\ Len(v) \in Nat /\ Len(b) \in Nat
  <2>1. Len(h) \in Nat
    <3> HIDE DEF h
    <3> QED  BY <1>1
  <2> DEFINE x == Len(h)  e == EncodedSize(d, v)
  <2>2. at + e <= Len(b) + 1 /\ x \in Nat /\ p = at + x /\ p + Len(v) = at + e  BY <1>4, <2>1
  <2>3. Len(v) \in Nat /\ Len(b) \in Nat  OBVIOUS
  <2> HIDE DEF x, e, p
  <2>4. p \in Nat /\ p # 0  BY <2>2
  <2>5. p + Len(v) - 1 <= Len(b)  BY <2>2, <2>3, <2>4
  <2> QED  BY <2>3, <2>4, <2>5
<1> HIDE DEF p
<1>6. w \in Seq(Cell) /\ Len(w) = Len(v) /\ \A i \in 1 .. Len(v) : w[i] = b[p + i - 1]
  BY <1>5
<1> HIDE DEF w
<1>7. HoldsAt(b, p, w)
  <2>1. p + Len(w) <= Len(b) + 1  BY <1>5, <1>6
  <2> QED  BY <1>6, <2>1 DEF HoldsAt
<1>8. Holds(b, at, d, w)
  <2>1. HoldsAt(b, at, h \o w)
    <3> HIDE DEF h
    <3> QED  BY <1>1, <1>3, <1>6, <1>7, HoldsConcat DEF p
  <2> QED  BY <1>6, <2>1 DEF Holds
<1>9. Len(v) < 269 => w = v
  <2>1. SUFFICES ASSUME Len(v) < 269  PROVE w = v
    OBVIOUS
  <2>2. HoldsAt(b, p, v)  BY <1>2, <1>3, <2>1
  <2>3. SubSeq(b, p, p + Len(v) - 1) = v  BY <1>5, <2>2, HeldIs
  <2> QED  BY <2>3 DEF w
<1>10. EncodedSize(d, w) = EncodedSize(d, v)  BY <1>6 DEF EncodedSize
<1> QED  BY <1>6, <1>8, <1>9, <1>10

LEMMA FirstOptionIs ==
  ASSUME NEW b \in Seq(Cell), Len(b) >= 1
  PROVE  FirstOption(b) \in Nat /\ FirstOption(b) >= 5 /\ TokenLength(b) \in 0 .. 15
<1> DEFINE x == b[1]
<1>1. x \in Cell
  <2>1. 1 \in 1 .. Len(b)  OBVIOUS
  <2> QED  BY <2>1
<1> HIDE DEF x
<1>2. x \in Nat  BY <1>1 DEF Cell, Junk
<1> DEFINE y == x % 16
<1>3. y \in 0 .. 15  BY <1>2
<1> HIDE DEF y
<1>4. 4 + y + 1 \in Nat /\ 4 + y + 1 >= 5  BY <1>3
<1>5. TokenLength(b) = y /\ FirstOption(b) = 4 + y + 1
  BY DEF FirstOption, TokenLength, HeaderSize, x, y
<1> QED  BY <1>3, <1>4, <1>5

LEMMA SameFirstOption ==
  ASSUME NEW b, NEW b2, b2[1] = b[1]
  PROVE  FirstOption(b2) = FirstOption(b)
BY DEF FirstOption, TokenLength

(* The options fill the bytes.                                             *)
Filled(b, at, os) == Laid(b, at, os) /\ at[Len(os)] = Len(b) + 1

(* The value of an option as it is kept.                                   *)
Kept(w, v) == w \in Seq(Cell) /\ Len(w) = Len(v) /\ (Len(v) < 269 => w = v)

LEMMA AppendedIs ==
  ASSUME pdu \in Seq(Cell), Len(pdu) >= 1, NEW at, NEW os, Filled(pdu, at, os),
         NEW n \in Sized, LastNumber(os) <= n,
         NEW v \in Seq(Cell), Len(v) <= MaxLength,
         NEW b2, b2 = Appended(LastNumber(os), n, v)
  PROVE  /\ b2 \in Seq(Cell) /\ Len(b2) >= Len(pdu)
         /\ \A i \in 1 .. Len(pdu) : b2[i] = pdu[i]
         /\ \E at2, w : /\ Kept(w, v)
                        /\ Filled(b2, at2, InsertAt(os, Len(os) + 1, [number |-> n, value |-> w]))
<1> DEFINE N == Len(pdu)  d == n - LastNumber(os)  e == EncodedSize(d, v)
           g == Grown(pdu, e)  code == Encoded(d, v)
<1>1. os \in Seq(OptionSet) /\ Len(os) \in Nat /\ Laid(pdu, at, os) /\ at[Len(os)] = N + 1 /\ N \in Nat
  BY DEF Filled, Laid
<1>2. LastNumber(os) \in Nat
  <2>1. Len(os) \in 0 .. Len(os)  BY <1>1
  <2> QED  BY <1>1, <2>1, NumberIs DEF LastNumber
<1>3. n \in Nat /\ d \in Sized
  <2>1. n \in Nat /\ n <= 65535  BY SizedIs
  <2>2. d \in Nat /\ d <= 65535  BY <1>2, <2>1
  <2> HIDE DEF d
  <2> QED  BY <2>1, <2>2, SizedIs
<1>4. Len(v) \in Sized /\ Len(v) \in Nat
  <2>1. Len(v) \in Nat  OBVIOUS
  <2> QED  BY <2>1, LengthIs
<1>5. Uint16(n - LastNumber(os)) = d  BY <1>3, Uint16Is
<1>6. b2 = Overwrite(g, N + 1, code)
  <2> HIDE DEF d
  <2> QED  BY <1>5 DEF Appended
<1> HIDE DEF d
<1>7. e \in Nat  BY <1>3, <1>4, SizeIs
<1> HIDE DEF e
<1>8. g \in Seq(Cell) /\ Len(g) = N + e /\ \A i \in 1 .. N : g[i] = pdu[i]  BY <1>7, GrownIs
<1>9. code \in Seq(Cell) /\ Len(code) <= e
  <2>1. code \in Seq(Cell)  BY <1>3, <1>4, EncodedIs
  <2>2. Len(code) <= EncodedSize(d, v)  BY <1>3, <1>4, EncodedIs
  <2> QED  BY <2>1, <2>2 DEF e
<1> HIDE DEF g, code
<1>10. /\ b2 \in Seq(Cell) /\ Len(b2) = N + e /\ HoldsAt(b2, N + 1, code)
       /\ \A i \in 1 .. N : b2[i] = pdu[i]
  <2>1. N + 1 \in Nat /\ N + 1 # 0 /\ N + 1 + Len(code) <= Len(g) + 1
    <3>1. Len(code) \in Nat  BY <1>9
    <3> QED  BY <1>1, <1>7, <1>8, <1>9, <3>1
  <2>2. /\ b2 \in Seq(Cell) /\ Len(b2) = Len(g) /\ HoldsAt(b2, N + 1, code)
        /\ \A i \in 1 .. Len(g) : i < N + 1 \/ i >= N + 1 + Len(code) => b2[i] = g[i]
    BY <1>6, <1>8, <1>9, <2>1, OverwriteIs
  <2>3. ASSUME NEW i \in 1 .. N  PROVE b2[i] = pdu[i]
    <3>1. i \in 1 .. Len(g) /\ i < N + 1  BY <1>1, <1>7, <1>8
    <3> QED  BY <1>8, <2>2, <3>1
  <2> QED  BY <1>8, <2>2, <2>3
<1>11. PICK w \in Seq(Cell) : /\ Len(w) = Len(v) /\ EncodedSize(d, w) = e
                              /\ Len(v) < 269 => w = v
                              /\ Holds(b2, N + 1, d, w)
  <2>1. N + 1 \in Nat /\ N + 1 # 0 /\ N + 1 + e <= Len(b2) + 1  BY <1>1, <1>7, <1>10
  <2> QED  BY <1>3, <1>4, <1>9, <1>10, <2>1, EncodedHolds DEF e, code
<1> DEFINE new == [number |-> n, value |-> w]
<1>12. new \in OptionSet /\ new.value = w /\ new.number = n
  <2>1. n \in 0 .. MaxUint16  BY SizedRange
  <2> QED  BY <2>1 DEF OptionSet
<1> HIDE DEF new
<1>13. FirstOption(b2) = FirstOption(pdu) /\ FirstOption(pdu) \in Nat /\ FirstOption(pdu) >= 5
  <2>1. 1 \in 1 .. N  BY <1>1
  <2>2. b2[1] = pdu[1]  BY <1>10, <2>1
  <2> QED  BY <2>2, SameFirstOption, FirstOptionIs
<1>14. \A i \in FirstOption(pdu) .. at[Len(os)] - 1 : b2[i] = pdu[i]
  <2> SUFFICES ASSUME NEW i \in FirstOption(pdu) .. at[Len(os)] - 1  PROVE b2[i] = pdu[i]
    OBVIOUS
  <2>1. i \in 1 .. N  BY <1>1, <1>13
  <2> QED  BY <1>10, <2>1
<1>15. \E at2 : /\ Laid(b2, at2, InsertAt(os, Len(os) + 1, new))
                /\ at2[Len(os) + 1] = at[Len(os)] + e
  <2>1. /\ Len(os) \in 0 .. Len(os) /\ NumberOf(os, Len(os)) <= new.number
        /\ ~ (Len(os) < Len(os)) /\ new.number - NumberOf(os, Len(os)) = d
    BY <1>1, <1>12 DEF LastNumber, d
  <2>2. at[Len(os)] <= Len(pdu) + 1 /\ Len(new.value) <= MaxLength /\ Len(b2) = Len(pdu) + e
    BY <1>1, <1>10, <1>11, <1>12
  <2>3. /\ Holds(b2, at[Len(os)], new.number - NumberOf(os, Len(os)), new.value)
        /\ at[Len(os)] + e = at[Len(os)] + EncodedSize(new.number - NumberOf(os, Len(os)), new.value)
    BY <1>1, <1>11, <1>12, <2>1
  <2> DEFINE j == Len(os)  after == at[j] + EncodedSize(new.number - NumberOf(os, j), new.value)
  <2>4. Inserted(pdu, at, os, j, new, b2, e, after)
    <3>1. ~ (j < Len(os)) /\ after = at[j] + e /\ NumberOf(os, j) <= new.number
      BY <2>1, <2>3
    <3>2. Holds(b2, at[j], new.number - NumberOf(os, j), new.value)  BY <2>3
    <3>3. \A i \in FirstOption(pdu) .. at[j] - 1 : b2[i] = pdu[i]  BY <1>14
    <3>4. after = at[j] + EncodedSize(new.number - NumberOf(os, j), new.value)  OBVIOUS
    <3>5. j \in 0 .. Len(os)  BY <2>1
    <3>6. Laid(pdu, at, os) /\ at[Len(os)] <= Len(pdu) + 1  BY <1>1, <2>2
    <3> HIDE DEF j, after
    <3> QED  BY <1>7, <1>10, <1>12, <1>13, <2>2, <3>1, <3>2, <3>3, <3>4, <3>5, <3>6, Zenon
            DEF Inserted
  <2>5. LaidAgain(at, os, j, new, b2, e)
    <3> HIDE DEF j, after
    <3> QED  BY <2>4, LaidInserted
  <2> QED  BY <2>5, Zenon DEF LaidAgain
<1>16. PICK at2 : /\ Laid(b2, at2, InsertAt(os, Len(os) + 1, new))
                  /\ at2[Len(os) + 1] = at[Len(os)] + e
  BY <1>15
<1>17. Filled(b2, at2, InsertAt(os, Len(os) + 1, new))
  <2>1. Len(InsertAt(os, Len(os) + 1, new)) = Len(os) + 1
    <3>1. Len(os) \in 0 .. Len(os)  BY <1>1
    <3> QED  BY <1>1, <1>12, <3>1, InsertAtIs
  <2>2. N + 1 + e = Len(b2) + 1  BY <1>1, <1>7, <1>10
  <2> QED  BY <1>1, <1>16, <2>1, <2>2 DEF Filled
<1>18. Kept(w, v)  BY <1>11 DEF Kept
<1>19. Len(b2) >= Len(pdu)  BY <1>1, <1>7, <1>10
<1>20. Filled(b2, at2, InsertAt(os, Len(os) + 1, [number |-> n, value |-> w]))
  BY <1>17 DEF new
<1>21. \E at3, w3 : /\ Kept(w3, v)
                    /\ Filled(b2, at3, InsertAt(os, Len(os) + 1, [number |-> n, value |-> w3]))
  BY <1>18, <1>20
<1> QED  BY <1>10, <1>19, <1>21

(* The delta of an option shrinks by less than the bytes of a new one.     *)
LEMMA ExtraSum ==
  ASSUME NEW x \in Nat, NEW y \in Nat
  PROVE  ExtraBytes(x + y) <= 1 + ExtraBytes(x) + ExtraBytes(y)
BY DEF ExtraBytes

LEMMA InsertedBeforeIs ==
  ASSUME pdu \in Seq(Cell), Len(pdu) >= 1, NEW at, NEW os, Filled(pdu, at, os),
         NEW j \in 0 .. Len(os) - 1,
         NEW n \in Sized, NumberOf(os, j) <= n, n <= NumberOf(os, j + 1),
         NEW v \in Seq(Cell), Len(v) <= MaxLength,
         NEW b2, b2 = InsertedBefore(at[j], NumberOf(os, j), n, v)
  PROVE  /\ b2 \in Seq(Cell) /\ Len(b2) >= Len(pdu)
         /\ \A i \in 1 .. FirstOption(pdu) - 1 : b2[i] = pdu[i]
         /\ \E at2, w : /\ Kept(w, v)
                        /\ Filled(b2, at2, InsertAt(os, j + 1, [number |-> n, value |-> w]))
<1> DEFINE N == Len(pdu)  previous == NumberOf(os, j)  next == NumberOf(os, j + 1)
           u == os[j + 1].value  D == Delta(os, j + 1)  d == n - previous  y == next - n
           a == at[j]  e == EncodedSize(d, v)  grow == e + ExtraBytes(y) - ExtraBytes(D)
           code == Encoded(d, v)  head == <<First(y, Len(u))>> \o Extra(y)
           s == ShiftedUp(pdu, a, grow)  s2 == Overwrite(s, a + e, head)
<1>1. /\ os \in Seq(OptionSet) /\ Len(os) \in Nat /\ Laid(pdu, at, os) /\ at[Len(os)] = N + 1
      /\ N \in Nat /\ j \in Nat /\ j + 1 \in 1 .. Len(os) /\ j \in 0 .. Len(os)
      /\ j + 1 \in 0 .. Len(os) /\ (j + 1) - 1 = j /\ j < Len(os) /\ j # Len(os)
  BY DEF Filled, Laid
<1>2. /\ u \in Seq(Cell) /\ Len(u) \in Sized /\ D \in Sized
      /\ previous \in Nat /\ next \in Sized /\ next \in Nat /\ D = next - previous
  <2>1. u \in Seq(Cell) /\ Len(u) \in Sized /\ D \in Sized  BY <1>1, LaidTypes
  <2>2. previous \in Nat /\ next \in Sized /\ next \in Nat  BY <1>1, NumberIs
  <2> QED  BY <1>1, <2>1, <2>2 DEF Delta
<1>3. /\ a \in Nat /\ a <= N /\ a + EncodedSize(D, u) = at[j + 1] /\ at[j + 1] <= N + 1
      /\ Holds(pdu, a, D, u) /\ FirstOption(pdu) \in Nat /\ FirstOption(pdu) >= 5
      /\ FirstOption(pdu) <= a
      /\ OptionAt(pdu, a) = [delta |-> D, size |-> EncodedSize(D, u), value |-> u]
  <2>1. FirstOption(pdu) \in Nat /\ FirstOption(pdu) >= 5 /\ FirstOption(pdu) > 0  BY FirstOptionIs
  <2>2. a \in Nat /\ FirstOption(pdu) <= a /\ at[j + 1] <= at[Len(os)]  BY <1>1, LaidRange
  <2>3. at[(j + 1) - 1] <= Len(pdu)  BY <1>1, <2>1, BehindIs
  <2>4. OptionAt(pdu, at[(j + 1) - 1]) = [delta |-> D, size |-> EncodedSize(D, u), value |-> u]
    BY <1>1, <2>1, BehindIs
  <2>5. at[j + 1] = at[(j + 1) - 1] + EncodedSize(D, u) /\ Holds(pdu, at[(j + 1) - 1], D, u)
    BY <1>1, LaidIs
  <2>6. at[j + 1] = a + EncodedSize(D, u) /\ Holds(pdu, a, D, u)  BY <1>1, <2>5
  <2>7. a <= N /\ OptionAt(pdu, a) = [delta |-> D, size |-> EncodedSize(D, u), value |-> u]
    BY <1>1, <2>3, <2>4
  <2> QED  BY <1>1, <2>1, <2>2, <2>6, <2>7
<1>4. n \in Nat /\ d \in Sized /\ d \in Nat /\ y \in Sized /\ y \in Nat /\ D = d + y
  <2>1. n \in Nat /\ n <= 65535 /\ next <= 65535 /\ previous <= n /\ n <= next
    BY <1>2, SizedIs
  <2>2. d \in Nat /\ d <= 65535 /\ y \in Nat /\ y <= 65535 /\ D = d + y
    <3>1. previous \in Nat /\ next \in Nat /\ D = next - previous  BY <1>2
    <3> HIDE DEF previous, next, D
    <3> QED  BY <2>1, <3>1
  <2> HIDE DEF d, y, D
  <2> QED  BY <2>1, <2>2, SizedIs
<1>5. Len(v) \in Sized /\ Len(v) \in Nat
  <2>1. Len(v) \in Nat  OBVIOUS
  <2> QED  BY <2>1, LengthIs
<1>6. b2 = Overwrite(s2, a, code)
  <2>1. NextDelta(n, previous, D) = y
    <3>1. D = next - previous /\ y = next - n /\ previous \in Nat /\ next \in Nat /\ n \in Nat
      BY <1>2, <1>4
    <3> HIDE DEF D, y, previous, next
    <3>2. previous + D - n = y  BY <3>1
    <3> QED  BY <3>2 DEF NextDelta
  <2>2. pdu[a] % 16 = Nibble(Len(u))
    <3>1. pdu[a] = First(D, Len(u))
      <4> HIDE DEF a, D, u
      <4> QED  BY <1>2, <1>3, Pieces
    <3>2. First(D, Len(u)) % 16 = Nibble(Len(u))
      <4> HIDE DEF D, u
      <4> QED  BY <1>2, FirstIs
    <3> QED  BY <3>1, <3>2
  <2>3. <<16 * Nibble(y) + (pdu[a] % 16)>> \o Extra(y) = head  BY <2>2 DEF First
  <2>4. OptionAt(pdu, a).delta = D
    <3> DEFINE size == EncodedSize(D, u)
    <3>1. OptionAt(pdu, a) = [delta |-> D, size |-> size, value |-> u]  BY <1>3
    <3> HIDE DEF size, D, u, a
    <3> QED  BY <3>1
  <2> HIDE DEF a, D, u, y, head
  <2>5. InsertedBefore(a, previous, n, v) =
          Overwrite(Overwrite(ShiftedUp(pdu, a, EncodedSize(d, v) + ExtraBytes(y) - ExtraBytes(D)),
                              a + EncodedSize(d, v), head),
                    a, Encoded(d, v))
    BY <2>1, <2>3, <2>4, Zenon DEF InsertedBefore
  <2> QED  BY <2>5 DEF a
<1> HIDE DEF previous, next, u, D, d, y, a, code, head, s, s2
<1>7. e \in Nat /\ ExtraBytes(D) \in Nat /\ ExtraBytes(y) \in Nat /\ ExtraBytes(Len(u)) \in Nat
      /\ Len(u) \in Nat /\ grow \in Nat
  <2>1. /\ e \in Nat /\ e = 1 + ExtraBytes(d) + ExtraBytes(Len(v)) + Len(v)
    BY <1>4, <1>5, SizeIs
  <2>2. /\ ExtraBytes(D) \in Nat /\ ExtraBytes(y) \in Nat /\ ExtraBytes(Len(u)) \in Nat
        /\ ExtraBytes(d) \in Nat /\ ExtraBytes(Len(v)) \in Nat
    <3>1. ASSUME NEW x \in Sized  PROVE ExtraBytes(x) \in Nat
      <4>1. ExtraBytes(x) \in 0 .. 2  BY NibbleIs
      <4> QED  BY <4>1
    <3> QED  BY <1>2, <1>4, <1>5, <3>1
  <2>3. ExtraBytes(D) <= 1 + ExtraBytes(d) + ExtraBytes(y)  BY <1>4, ExtraSum
  <2>4. Len(u) \in Nat  BY <1>2
  <2> HIDE DEF e
  <2>5. e + ExtraBytes(y) - ExtraBytes(D) \in Nat
    <3> DEFINE p == ExtraBytes(D)  q == ExtraBytes(y)  r == ExtraBytes(d)  t == ExtraBytes(Len(v))
    <3>1. /\ p \in Nat /\ q \in Nat /\ r \in Nat /\ t \in Nat /\ e = 1 + r + t + Len(v)
          /\ p <= 1 + r + q
      BY <2>1, <2>2, <2>3
    <3> HIDE DEF p, q, r, t
    <3>2. e + q - p \in Nat  BY <1>5, <3>1
    <3> QED  BY <3>2 DEF p, q
  <2> QED  BY <2>1, <2>2, <2>4, <2>5
<1>8. EncodedSize(D, u) = 1 + ExtraBytes(D) + ExtraBytes(Len(u)) + Len(u)
      /\ EncodedSize(y, u) = 1 + ExtraBytes(y) + ExtraBytes(Len(u)) + Len(u)
  BY DEF EncodedSize
<1> DEFINE xD == ExtraBytes(D)  xy == ExtraBytes(y)  xl == ExtraBytes(Len(u))
<1>9. /\ e \in Nat /\ xD \in Nat /\ xy \in Nat /\ xl \in Nat /\ Len(u) \in Nat
      /\ grow \in Nat /\ grow + xD = e + xy
      /\ a + 1 + xD + xl + Len(u) = at[j + 1] /\ at[j + 1] <= N + 1
  <2>1. a + EncodedSize(D, u) = at[j + 1] /\ at[j + 1] <= N + 1  BY <1>3
  <2> HIDE DEF e
  <2>2. xD \in Nat /\ xy \in Nat /\ xl \in Nat /\ e \in Nat  BY <1>7
  <2>3. EncodedSize(D, u) = 1 + xD + xl + Len(u)  BY <1>8
  <2>4. grow \in Nat /\ grow = e + xy - xD  BY <1>7
  <2> HIDE DEF xD, xy, xl, grow
  <2>5. grow + xD = e + xy  BY <2>2, <2>4
  <2>6. a + 1 + xD + xl + Len(u) = at[j + 1]  BY <1>3, <1>7, <2>1, <2>2, <2>3
  <2> QED  BY <1>7, <2>1, <2>2, <2>4, <2>5, <2>6
<1> HIDE DEF xD, xy, xl
<1>10. /\ s \in Seq(Cell) /\ Len(s) = N + grow
       /\ \A i \in 1 .. a - 1 : s[i] = pdu[i]
       /\ \A i \in a .. N : s[i + grow] = pdu[i]
  <2>1. a \in 1 .. Len(pdu)  BY <1>1, <1>3
  <2> HIDE DEF grow
  <2> QED  BY <1>9, <2>1, ShiftedUpIs DEF s
<1>11. head \in Seq(Cell) /\ Len(head) = 1 + xy
  <2>1. <<First(y, Len(u))>> \o Extra(y) \in Seq(Cell)  BY <1>2, <1>4, HeaderIs
  <2>2. Len(<<First(y, Len(u))>> \o Extra(y)) = 1 + ExtraBytes(y)  BY <1>2, <1>4, HeaderIs
  <2> QED  BY <2>1, <2>2 DEF head, xy
<1>12. code \in Seq(Cell) /\ Len(code) <= e /\ Len(code) \in Nat
  <2>1. code \in Seq(Cell)  BY <1>4, <1>5, EncodedIs DEF code
  <2>2. Len(code) <= EncodedSize(d, v)  BY <1>4, <1>5, EncodedIs DEF code
  <2> QED  BY <2>1, <2>2
<1> HIDE DEF e, grow, N
<1>13. /\ s2 \in Seq(Cell) /\ Len(s2) = N + grow /\ HoldsAt(s2, a + e, head)
       /\ \A i \in 1 .. N + grow : i < a + e \/ i >= a + e + 1 + xy => s2[i] = s[i]
  <2>1. a + e \in Nat /\ a + e # 0 /\ a + e + Len(head) <= Len(s) + 1
    <3> DEFINE z == at[j + 1]  l == Len(u)  p == Len(head)  q == Len(s)
    <3>1. /\ a \in Nat /\ a >= 5 /\ N \in Nat /\ e \in Nat /\ xD \in Nat /\ xy \in Nat /\ xl \in Nat
          /\ l \in Nat /\ grow \in Nat /\ grow + xD = e + xy /\ a + 1 + xD + xl + l = z
          /\ z <= N + 1
      BY <1>1, <1>3, <1>9
    <3>2. p = 1 + xy /\ q = N + grow  BY <1>10, <1>11
    <3> HIDE DEF z, l, p, q
    <3>3. a + e \in Nat /\ a + e # 0 /\ a + e + p <= q + 1  BY <3>1, <3>2
    <3> QED  BY <3>3 DEF p, q
  <2>2. /\ s2 \in Seq(Cell) /\ Len(s2) = Len(s) /\ HoldsAt(s2, a + e, head)
        /\ \A i \in 1 .. Len(s) : i < a + e \/ i >= (a + e) + Len(head) => s2[i] = s[i]
    BY <1>10, <1>11, <2>1, OverwriteIs DEF s2
  <2>3. ASSUME NEW i \in 1 .. N + grow, i < a + e \/ i >= a + e + 1 + xy  PROVE s2[i] = s[i]
    <3>1. i \in 1 .. Len(s)  BY <1>10
    <3>2. (a + e) + Len(head) = a + e + 1 + xy  BY <1>3, <1>9, <1>11
    <3> QED  BY <2>2, <2>3, <3>1, <3>2
  <2> QED  BY <1>10, <2>2, <2>3
<1>14. /\ b2 \in Seq(Cell) /\ Len(b2) = N + grow /\ HoldsAt(b2, a, code)
       /\ \A i \in 1 .. N + grow : i < a \/ i >= a + e => b2[i] = s2[i]
  <2>1. a \in Nat /\ a # 0 /\ a + Len(code) <= Len(s2) + 1
    BY <1>1, <1>3, <1>9, <1>12, <1>13
  <2>2. /\ b2 \in Seq(Cell) /\ Len(b2) = Len(s2) /\ HoldsAt(b2, a, code)
        /\ \A i \in 1 .. Len(s2) : i < a \/ i >= a + Len(code) => b2[i] = s2[i]
    <3>1. s2 \in Seq(Cell) /\ code \in Seq(Cell)  BY <1>12, <1>13
    <3>2. LET o == Overwrite(s2, a, code)
          IN /\ o \in Seq(Cell) /\ Len(o) = Len(s2) /\ HoldsAt(o, a, code)
             /\ \A i \in 1 .. Len(s2) : i < a \/ i >= a + Len(code) => o[i] = s2[i]
      BY <2>1, <3>1, OverwriteIs
    <3> QED  BY <1>6, <3>2
  <2>3. ASSUME NEW i \in 1 .. N + grow, i < a \/ i >= a + e  PROVE b2[i] = s2[i]
    <3>1. i \in 1 .. Len(s2)  BY <1>13
    <3>2. i < a \/ i >= a + Len(code)  BY <1>1, <1>3, <1>9, <1>12, <2>3
    <3> QED  BY <2>2, <3>1, <3>2
  <2> QED  BY <1>13, <2>2, <2>3
<1>15. \A i \in 1 .. a - 1 : b2[i] = pdu[i]
  <2> SUFFICES ASSUME NEW i \in 1 .. a - 1  PROVE b2[i] = pdu[i]
    OBVIOUS
  <2>1. i \in 1 .. N + grow /\ i < a /\ i < a + e  BY <1>1, <1>3, <1>9
  <2>2. b2[i] = s2[i] /\ s2[i] = s[i]  BY <1>13, <1>14, <2>1
  <2> QED  BY <1>10, <2>2
<1>16. \A i \in a + 1 + xD .. N : b2[i + grow] = pdu[i]
  <2> SUFFICES ASSUME NEW i \in a + 1 + xD .. N  PROVE b2[i + grow] = pdu[i]
    OBVIOUS
  <2>1. /\ i + grow \in 1 .. N + grow /\ i + grow >= a + e /\ i + grow >= a + e + 1 + xy
        /\ i \in a .. N
    BY <1>1, <1>3, <1>9
  <2>2. b2[i + grow] = s2[i + grow] /\ s2[i + grow] = s[i + grow]  BY <1>13, <1>14, <2>1
  <2> QED  BY <1>10, <2>1, <2>2
<1> DEFINE after == a + e
<1>17. after \in Nat /\ after <= Len(b2)  BY <1>1, <1>3, <1>9, <1>14
<1>18. Holds(b2, after, y, u)
  <2>1. HoldsAt(b2, after, head)
    <3>1. \A i \in after .. after + Len(head) - 1 : b2[i + 0] = s2[i]
      <4> SUFFICES ASSUME NEW i \in after .. after + Len(head) - 1  PROVE b2[i + 0] = s2[i]
        OBVIOUS
      <4>1. i \in 1 .. N + grow /\ i >= a + e /\ i + 0 = i  BY <1>1, <1>3, <1>9, <1>11
      <4> QED  BY <1>14, <4>1
    <3>2. after + 0 + Len(head) <= Len(b2) + 1 /\ after + 0 = after /\ after + 0 \in Nat
          /\ Len(b2) \in Nat /\ HoldsAt(s2, after, head)
      BY <1>1, <1>3, <1>9, <1>11, <1>13, <1>14
    <3> HIDE DEF after
    <3>3. HoldsAt(b2, after + 0, head)
      <4>1. head \in Seq(Cell) /\ after \in Nat /\ 0 \in Int  BY <1>11, <1>17
      <4> QED  BY <3>1, <3>2, <4>1, HoldsMoved
    <3> QED  BY <3>2, <3>3
  <2>2. b2[after] = First(y, Len(u)) /\ HoldsAt(b2, after + 1, Extra(y))
    <3> DEFINE f == <<First(y, Len(u))>>
    <3>1. f \in Seq(Cell) /\ Len(f) = 1 /\ f[1] = First(y, Len(u))
      <4>1. First(y, Len(u)) \in Cell  BY <1>2, <1>4, FirstIs
      <4> QED  BY <4>1, One
    <3>2. Extra(y) \in Seq(Cell)  BY <1>4, ExtraIs
    <3>3. HoldsAt(b2, after, f \o Extra(y))  BY <2>1 DEF head
    <3> HIDE DEF f, after
    <3>4. HoldsAt(b2, after, f) /\ HoldsAt(b2, after + Len(f), Extra(y))
      BY <1>14, <1>17, <3>1, <3>2, <3>3, HoldsConcat
    <3>5. b2[after + 1 - 1] = f[1]
      <4>1. 1 \in 1 .. Len(f)  BY <3>1
      <4> QED  BY <3>4, <4>1 DEF HoldsAt
    <3>6. after + 1 - 1 = after  BY <1>17
    <3> QED  BY <3>1, <3>4, <3>5, <3>6
  <2>3. HoldsAt(pdu, a + 1 + xD, Extra(Len(u))) /\ HoldsAt(pdu, a + 1 + xD + xl, u)
    BY <1>2, <1>3, Pieces DEF xD, xl
  <2>4. Len(Extra(Len(u))) = xl /\ Extra(Len(u)) \in Seq(Cell)
    <3>1. Len(Extra(Len(u))) = ExtraBytes(Len(u))  BY <1>2, ExtraIs
    <3>2. Extra(Len(u)) \in Seq(Cell)  BY <1>2, ExtraIs
    <3> QED  BY <3>1, <3>2 DEF xl
  <2>5. (a + 1 + xD) + grow = after + 1 + xy /\ (a + 1 + xD + xl) + grow = after + 1 + xy + xl
    BY <1>3, <1>9
  <2>6. HoldsAt(b2, (a + 1 + xD) + grow, Extra(Len(u)))
    <3> DEFINE p == a + 1 + xD  c == Extra(Len(u))
    <3>1. p \in Nat /\ p + grow \in Nat /\ grow \in Int /\ Len(b2) \in Nat  BY <1>3, <1>9, <1>14
    <3>2. p + grow + Len(c) <= Len(b2) + 1  BY <1>1, <1>3, <1>9, <1>14, <2>4
    <3>3. \A i \in p .. p + Len(c) - 1 : b2[i + grow] = pdu[i]
      <4> SUFFICES ASSUME NEW i \in p .. p + Len(c) - 1  PROVE b2[i + grow] = pdu[i]
        OBVIOUS
      <4>1. i \in a + 1 + xD .. N  BY <1>1, <1>3, <1>9, <2>4
      <4> QED  BY <1>16, <4>1
    <3>4. HoldsAt(pdu, p, c)  BY <2>3
    <3> HIDE DEF p, c
    <3>5. c \in Seq(Cell)  BY <2>4 DEF c
    <3>6. HoldsAt(b2, p + grow, c)  BY <3>1, <3>2, <3>3, <3>4, <3>5, HoldsMoved
    <3> QED  BY <3>6 DEF p, c
  <2>7. HoldsAt(b2, (a + 1 + xD + xl) + grow, u)
    <3> DEFINE p == a + 1 + xD + xl
    <3>1. p \in Nat /\ p + grow \in Nat /\ grow \in Int /\ Len(b2) \in Nat  BY <1>3, <1>9, <1>14
    <3>2. p + grow + Len(u) <= Len(b2) + 1  BY <1>1, <1>3, <1>9, <1>14
    <3>3. \A i \in p .. p + Len(u) - 1 : b2[i + grow] = pdu[i]
      <4> SUFFICES ASSUME NEW i \in p .. p + Len(u) - 1  PROVE b2[i + grow] = pdu[i]
        OBVIOUS
      <4>1. i \in a + 1 + xD .. N  BY <1>1, <1>3, <1>9
      <4> QED  BY <1>16, <4>1
    <3>4. HoldsAt(pdu, p, u)  BY <2>3
    <3> HIDE DEF p
    <3>5. HoldsAt(b2, p + grow, u)  BY <1>2, <3>1, <3>2, <3>3, <3>4, HoldsMoved
    <3> QED  BY <3>5 DEF p
  <2>8. HoldsAt(b2, after + 1 + xy, Extra(Len(u))) /\ HoldsAt(b2, after + 1 + xy + xl, u)
    BY <2>5, <2>6, <2>7
  <2> HIDE DEF after
  <2> QED  BY <1>2, <1>4, <1>14, <1>17, <2>2, <2>8, Pieces DEF xy, xl
<1>19. at[j + 1] + grow = after + EncodedSize(y, u)
  <2> DEFINE z == at[j + 1]  l == Len(u)
  <2>1. EncodedSize(y, u) = 1 + xy + xl + l  BY <1>8 DEF xy, xl
  <2>2. /\ a \in Nat /\ e \in Nat /\ xD \in Nat /\ xy \in Nat /\ xl \in Nat
        /\ l \in Nat /\ grow \in Nat /\ grow + xD = e + xy /\ a + 1 + xD + xl + l = z
    BY <1>3, <1>9
  <2> HIDE DEF z, l
  <2>3. z + grow = a + e + (1 + xy + xl + l)  BY <2>2
  <2> QED  BY <2>1, <2>3 DEF z, l
<1>20. PICK w \in Seq(Cell) : /\ Len(w) = Len(v) /\ EncodedSize(d, w) = e
                              /\ Len(v) < 269 => w = v
                              /\ Holds(b2, a, d, w)
  <2>1. a \in Nat /\ a # 0 /\ a + e <= Len(b2) + 1  BY <1>3, <1>14, <1>17
  <2>2. HoldsAt(b2, a, Encoded(d, v)) /\ a + EncodedSize(d, v) <= Len(b2) + 1
    BY <1>14, <2>1 DEF e, code
  <2>3. \E w \in Seq(Cell) : /\ Len(w) = Len(v) /\ EncodedSize(d, w) = EncodedSize(d, v)
                             /\ Len(v) < 269 => w = v
                             /\ Holds(b2, a, d, w)
    BY <1>4, <1>5, <1>14, <2>1, <2>2, EncodedHolds
  <2> QED  BY <2>3 DEF e
<1> DEFINE new == [number |-> n, value |-> w]
<1>21. new \in OptionSet /\ new.value = w /\ new.number = n
  <2>1. n \in 0 .. MaxUint16  BY SizedRange
  <2> QED  BY <2>1 DEF OptionSet
<1> HIDE DEF new
<1>22. /\ FirstOption(b2) = FirstOption(pdu)
       /\ \A i \in 1 .. FirstOption(pdu) - 1 : b2[i] = pdu[i]
       /\ \A i \in FirstOption(pdu) .. a - 1 : b2[i] = pdu[i]
  <2>1. ASSUME NEW i \in 1 .. FirstOption(pdu) - 1  PROVE b2[i] = pdu[i]
    <3>1. i \in 1 .. a - 1  BY <1>3
    <3> QED  BY <1>15, <3>1
  <2>2. ASSUME NEW i \in FirstOption(pdu) .. a - 1  PROVE b2[i] = pdu[i]
    <3>1. i \in 1 .. a - 1  BY <1>3
    <3> QED  BY <1>15, <3>1
  <2>3. b2[1] = pdu[1]
    <3>1. 1 \in 1 .. FirstOption(pdu) - 1  BY <1>3
    <3> QED  BY <2>1, <3>1
  <2>4. FirstOption(b2) = FirstOption(pdu)  BY <2>3, SameFirstOption
  <2> QED  BY <2>1, <2>2, <2>4
<1>23. Moved(pdu, at, os, j, new, b2, grow, after)
  <2>1. NumberOf(os, j + 1) - new.number = y  BY <1>21 DEF y, next
  <2>2. at[j + 1] + grow = after + EncodedSize(NumberOf(os, j + 1) - new.number, os[j + 1].value)
    BY <1>19, <2>1 DEF u
  <2>3. Holds(b2, after, NumberOf(os, j + 1) - new.number, os[j + 1].value)
    BY <1>18, <2>1 DEF u
  <2>4. \A i \in at[j + 1] .. at[Len(os)] - 1 : b2[i + grow] = pdu[i]
    <3> SUFFICES ASSUME NEW i \in at[j + 1] .. at[Len(os)] - 1  PROVE b2[i + grow] = pdu[i]
      OBVIOUS
    <3>1. at[Len(os)] = N + 1 /\ at[j + 1] \in Nat  BY <1>1, <1>3, LaidRange DEF N
    <3> DEFINE z == at[j + 1]  t == at[Len(os)]
    <3>2. i \in z .. t - 1 /\ t = N + 1 /\ z \in Nat /\ a + 1 + xD + xl + Len(u) = z
      BY <1>9, <3>1
    <3> HIDE DEF z, t
    <3>3. i \in a + 1 + xD .. N  BY <1>1, <1>3, <1>9, <3>2
    <3> QED  BY <1>16, <3>3
  <2> HIDE DEF after
  <2> QED  BY <2>2, <2>3, <2>4 DEF Moved
<1>24. Inserted(pdu, at, os, j, new, b2, grow, after)
  <2>1. at[Len(os)] <= Len(pdu) + 1
    <3>1. at[Len(os)] = N + 1 /\ N \in Nat  BY <1>1
    <3> QED  BY <3>1 DEF N
  <2>2. NumberOf(os, j) <= new.number /\ new.number <= NumberOf(os, j + 1)  BY <1>21
  <2>3. Len(b2) = Len(pdu) + grow  BY <1>14 DEF N
  <2>4. Holds(b2, at[j], new.number - NumberOf(os, j), new.value)
    BY <1>20, <1>21 DEF a, d, previous
  <2>5. after = at[j] + EncodedSize(new.number - NumberOf(os, j), new.value)
    <3>1. EncodedSize(new.number - NumberOf(os, j), new.value) = e
      BY <1>20, <1>21 DEF d, previous
    <3> QED  BY <3>1 DEF a
  <2>6. Len(new.value) <= MaxLength  BY <1>20, <1>21
  <2>7. \A i \in FirstOption(pdu) .. at[j] - 1 : b2[i] = pdu[i]  BY <1>22 DEF a
  <2> HIDE DEF after
  <2> QED  BY <1>1, <1>9, <1>14, <1>21, <1>22, <1>23, <2>1, <2>2, <2>3, <2>4, <2>5, <2>6, <2>7,
              Zenon DEF Inserted
<1>25. LaidAgain(at, os, j, new, b2, grow)
  <2> HIDE DEF after
  <2> QED  BY <1>24, LaidInserted
<1>26. PICK at2 : /\ Laid(b2, at2, InsertAt(os, j + 1, new))
                  /\ at2[Len(os) + 1] = at[Len(os)] + grow
  BY <1>25 DEF LaidAgain
<1>27. Filled(b2, at2, InsertAt(os, j + 1, new))
  <2>1. Len(InsertAt(os, j + 1, new)) = Len(os) + 1  BY <1>1, <1>21, InsertAtIs
  <2>2. N + 1 + grow = Len(b2) + 1  BY <1>1, <1>9, <1>14
  <2> QED  BY <1>1, <1>26, <2>1, <2>2 DEF Filled
<1>28. Kept(w, v)  BY <1>20 DEF Kept
<1>29. Len(b2) >= Len(pdu)
  <2>1. Len(b2) >= N  BY <1>1, <1>9, <1>14
  <2> QED  BY <2>1 DEF N
<1>30. Filled(b2, at2, InsertAt(os, j + 1, [number |-> n, value |-> w]))
  BY <1>27 DEF new
<1>31. \E at3, w3 : /\ Kept(w3, v)
                    /\ Filled(b2, at3, InsertAt(os, j + 1, [number |-> n, value |-> w3]))
  BY <1>28, <1>30
<1> QED  BY <1>14, <1>22, <1>29, <1>31

-----------------------------------------------------------------------------
(* A new token.                                                            *)

LEMMA FirstByteIs ==
  ASSUME NEW version \in {0, 1}, NEW length \in 0 .. 8
  PROVE  /\ 64 * version + length \in Cell
         /\ (64 * version + length) % 16 = length /\ (64 * version + length) \div 64 = version
BY DEF Cell, Junk

LEMMA HeadedIs ==
  ASSUME NEW b, NEW version \in {0, 1}, NEW length \in 0 .. 8, b[1] = 64 * version + length
  PROVE  /\ TokenLength(b) = length /\ Version(b) = version
         /\ FirstOption(b) = 5 + length
<1>1. (64 * version + length) % 16 = length /\ (64 * version + length) \div 64 = version
  BY FirstByteIs
<1>2. 4 + length + 1 = 5 + length  OBVIOUS
<1> QED  BY <1>1, <1>2 DEF TokenLength, Version, FirstOption, HeaderSize

Headed(x, t) == <<x, 0, 0, 0>> \o t

LEMMA TokenHeader ==
  ASSUME NEW x \in Cell, NEW t \in Seq(Cell)
  PROVE  /\ Headed(x, t) \in Seq(Cell) /\ Len(Headed(x, t)) = 4 + Len(t)
         /\ Headed(x, t)[1] = x /\ \A i \in 1 .. Len(t) : Headed(x, t)[4 + i] = t[i]
<1> DEFINE f == <<x, 0, 0, 0>>  h == Headed(x, t)
<1>1. f \in Seq(Cell) /\ Len(f) = 4 /\ f[1] = x
  <2>1. 0 \in Cell  BY DEF Cell, Junk
  <2> QED  BY <2>1
<1> HIDE DEF f
<1>2. h = f \o t  BY DEF f, Headed
<1> HIDE DEF h
<1>3. /\ h \in Seq(Cell) /\ Len(h) = Len(f) + Len(t)
      /\ \A i \in 1 .. Len(f) + Len(t) : h[i] = IF i <= Len(f) THEN f[i] ELSE t[i - Len(f)]
  BY <1>1, <1>2, ConcatProperties
<1>4. Len(t) \in Nat  OBVIOUS
<1>5. h[1] = x
  <2>1. 1 \in 1 .. Len(f) + Len(t) /\ 1 <= Len(f)  BY <1>1, <1>4
  <2> QED  BY <1>1, <1>3, <2>1
<1>6. ASSUME NEW i \in 1 .. Len(t)  PROVE h[4 + i] = t[i]
  <2>1. 4 + i \in 1 .. Len(f) + Len(t) /\ ~ (4 + i <= Len(f)) /\ 4 + i - Len(f) = i
    BY <1>1, <1>4
  <2> QED  BY <1>3, <2>1
<1> QED  BY <1>1, <1>3, <1>5, <1>6 DEF h

Change(t) == Len(t) - TokenLength(pdu)

LEMMA IndexIs ==
  ASSUME NEW N \in Nat, NEW F \in Nat, F >= 5, NEW k \in Nat, NEW change \in Int,
         F + change = 5 + k, NEW i \in F .. N
  PROVE  /\ i + change \in 1 .. N + change /\ ~ (i + change <= 4 + k)
         /\ (i + change) - change = i /\ i >= 1 /\ i \in 1 .. N
         /\ (i + change) - (4 + k) \in 1 .. N - F + 1 /\ F + ((i + change) - (4 + k)) - 1 = i
         /\ i + change \in 1 .. (4 + k) + (N - F + 1)
OBVIOUS

LEMMA FunctionIsSeq ==
  ASSUME NEW M \in Nat, NEW f \in [1 .. M -> Cell]
  PROVE  f \in Seq(Cell) /\ Len(f) = M
OBVIOUS

Lifted(h, g, M, change, b2) ==
  /\ h \in Seq(Cell) /\ g \in Seq(Cell) /\ M \in Nat /\ Len(h) <= M /\ Len(g) = M
  /\ change \in Nat
  /\ b2 = [i \in 1 .. M |-> IF i <= Len(h) THEN h[i]
                            ELSE IF i - change >= 1 THEN g[i - change] ELSE Junk]

Behinds(h, g, M, change, b2) ==
  /\ b2 \in Seq(Cell) /\ Len(b2) = M
  /\ \A i \in 1 .. Len(h) : b2[i] = h[i]
  /\ \A i \in 1 .. M : ~ (i <= Len(h)) /\ i - change >= 1 => b2[i] = g[i - change]

LEMMA GrownBehind ==
  ASSUME NEW h, NEW g, NEW M, NEW change, NEW b2, Lifted(h, g, M, change, b2)
  PROVE  Behinds(h, g, M, change, b2)
<1>0. /\ h \in Seq(Cell) /\ g \in Seq(Cell) /\ M \in Nat /\ Len(h) <= M /\ Len(g) = M
      /\ change \in Nat
  BY DEF Lifted
<1>1. /\ \A i \in 1 .. M :
           b2[i] = IF i <= Len(h) THEN h[i] ELSE IF i - change >= 1 THEN g[i - change] ELSE Junk
      /\ b2 = [i \in 1 .. M |-> b2[i]]
  BY DEF Lifted
<1>2. Len(h) \in Nat  BY <1>0
<1>3. ASSUME NEW i \in 1 .. M  PROVE b2[i] \in Cell
  <2>1. CASE i <= Len(h)
    <3>1. i \in 1 .. Len(h)  BY <1>0, <1>2, <2>1
    <3>2. h[i] \in Cell  BY <1>0, <3>1
    <3>3. b2[i] = h[i]  BY <1>1, <2>1
    <3> QED  BY <3>2, <3>3
  <2>2. CASE ~ (i <= Len(h)) /\ i - change >= 1
    <3>1. i - change \in 1 .. M  BY <1>0, <2>2
    <3>2. g[i - change] \in Cell  BY <1>0, <3>1
    <3>3. b2[i] = g[i - change]  BY <1>1, <2>2
    <3> QED  BY <3>2, <3>3
  <2>3. CASE ~ (i <= Len(h)) /\ ~ (i - change >= 1)
    <3>1. Junk \in Cell  BY DEF Junk, Cell
    <3>2. b2[i] = Junk  BY <1>1, <2>3
    <3> QED  BY <3>1, <3>2
  <2> QED  BY <2>1, <2>2, <2>3
<1>4. b2 \in Seq(Cell) /\ Len(b2) = M
  <2>2. [i \in 1 .. M |-> b2[i]] \in [1 .. M -> Cell]  BY <1>3
  <2>3. b2 \in [1 .. M -> Cell]  BY <1>1, <2>2, Zenon
  <2> QED  BY <1>0, <2>3, FunctionIsSeq
<1>5. \A i \in 1 .. Len(h) : i \in 1 .. M /\ i <= Len(h)  BY <1>0, <1>2
<1>6. \A i \in 1 .. Len(h) : b2[i] = h[i]  BY <1>1, <1>5
<1>7. \A i \in 1 .. M : ~ (i <= Len(h)) /\ i - change >= 1 => b2[i] = g[i - change]
  BY <1>1
<1> QED  BY <1>4, <1>6, <1>7 DEF Behinds

(* The bytes behind the token, when the token has changed its length.      *)
Ready(version, length, t) ==
  /\ pdu \in Seq(Cell) /\ version \in {0, 1} /\ length \in 0 .. 8
  /\ Len(pdu) < 256 /\ FirstOption(pdu) <= Len(pdu) + 1 /\ pdu[1] = 64 * version + length
  /\ t \in Seq(Cell) /\ Len(t) <= 8

LEMMA RetokenedBytes ==
  ASSUME NEW version, NEW length, NEW t, Ready(version, length, t),
         NEW b2, b2 = Retokened(t), NEW change, change = Change(t)
  PROVE  /\ change = Len(t) - length
         /\ b2 \in Seq(Cell) /\ Len(b2) = Len(pdu) + change
         /\ b2[1] = 64 * version + Len(t)
         /\ \A i \in 1 .. Len(t) : b2[4 + i] = t[i]
         /\ \A i \in 5 + length .. Len(pdu) : b2[i + change] = pdu[i]
<1> DEFINE N == Len(pdu)  k == Len(t)  h == Headed(pdu[1] + Change(t), t)
           F == 5 + length  first == 64 * version + k  o == N % 256
           room == IF Change(t) > 0 THEN Grown(pdu, Change(t)) ELSE pdu
           M == N + Change(t)  shift == M - o
<1>0. /\ pdu \in Seq(Cell) /\ version \in {0, 1} /\ length \in 0 .. 8
      /\ pdu[1] = 64 * version + length /\ t \in Seq(Cell) /\ Len(t) <= 8 /\ Len(pdu) < 256
  BY DEF Ready
<1>1. TokenLength(pdu) = length /\ FirstOption(pdu) = F  BY <1>0, HeadedIs
<1>2. /\ N \in Nat /\ k \in Nat /\ k <= 8 /\ change \in Int /\ change = k - length
      /\ Change(t) = change /\ o = N /\ F <= N + 1 /\ F \in Nat /\ F >= 5 /\ F + change = 5 + k
  <2>1. N \in Nat /\ k \in Nat /\ k <= 8  BY <1>0
  <2>2. change = k - length /\ Change(t) = change  BY <1>1 DEF Change
  <2>3. N < 256 /\ F <= N + 1  BY <1>1 DEF Ready
  <2> HIDE DEF N, k
  <2>4. N % 256 = N  BY <2>1, <2>3
  <2>5. change \in Int /\ F \in Nat /\ F >= 5 /\ F + change = 5 + k  BY <1>0, <2>1, <2>2
  <2> HIDE DEF F
  <2> QED  BY <2>1, <2>2, <2>3, <2>4, <2>5
<1>3. pdu[1] + Change(t) = first /\ first \in Cell
  <2>1. k \in Nat /\ k \in 0 .. 8 /\ change = k - length
    <3>1. k \in Nat /\ k <= 8 /\ change = k - length  BY <1>2
    <3> HIDE DEF k
    <3> QED  BY <3>1
  <2> HIDE DEF k
  <2>2. 64 * version + length + change = first  BY <1>0, <2>1
  <2>3. first \in Cell  BY <1>0, <2>1, FirstByteIs
  <2> QED  BY <1>0, <1>2, <2>2, <2>3
<1>4. /\ h \in Seq(Cell) /\ Len(h) = 4 + k /\ h[1] = first
      /\ \A i \in 1 .. k : h[4 + i] = t[i]
  <2> HIDE DEF first
  <2>1. h = Headed(first, t)  BY <1>3
  <2>2. first \in Cell /\ t \in Seq(Cell)  BY <1>0, <1>3
  <2> HIDE DEF h
  <2> QED  BY <2>1, <2>2, TokenHeader
<1>5. b2 = IF M > o
           THEN [i \in 1 .. M |->
                   IF i <= Len(h) THEN h[i] ELSE IF i - shift >= 1 THEN room[i - shift] ELSE Junk]
           ELSE h \o SubSeq(pdu, FirstOption(pdu), N)
  BY DEF Retokened, OldLength, Change, Headed
<1>6. M = N + change /\ shift = M - o  BY <1>2
<1> HIDE DEF N, k, F, h, first, room, M, shift, o
<1>7. /\ b2 \in Seq(Cell) /\ Len(b2) = N + change
      /\ \A i \in 1 .. Len(h) : b2[i] = h[i]
      /\ \A i \in F .. N : b2[i + change] = pdu[i]
  <2>1. CASE change > 0
    <3> DEFINE g == Grown(pdu, change)
    <3>1. change \in Nat /\ M > o /\ shift = change /\ M \in Nat /\ Len(h) <= M
      BY <1>2, <1>4, <1>6, <2>1, SMTT(20)
    <3>2. g \in Seq(Cell) /\ Len(g) = M /\ \A i \in 1 .. N : g[i] = pdu[i]
      <4>1. Len(Grown(pdu, change)) = N + change  BY <1>0, <3>1, GrownIs DEF N
      <4>2. g \in Seq(Cell) /\ \A i \in 1 .. N : g[i] = pdu[i]  BY <1>0, <3>1, GrownIs DEF N
      <4> QED  BY <1>6, <4>1, <4>2
    <3>3. room = g  BY <1>2, <2>1 DEF room
    <3> HIDE DEF g
    <3>4. Lifted(h, g, M, change, b2)
      <4>1. b2 = [i \in 1 .. M |->
                    IF i <= Len(h) THEN h[i] ELSE IF i - shift >= 1 THEN room[i - shift] ELSE Junk]
        BY <1>5, <3>1
      <4>2. b2 = [i \in 1 .. M |->
                    IF i <= Len(h) THEN h[i] ELSE IF i - change >= 1 THEN g[i - change] ELSE Junk]
        BY <4>1, <3>1, <3>3, Zenon
      <4> QED  BY <1>4, <3>1, <3>2, <4>2, Zenon DEF Lifted
    <3>5. /\ b2 \in Seq(Cell) /\ Len(b2) = M
          /\ \A i \in 1 .. Len(h) : b2[i] = h[i]
          /\ \A i \in 1 .. M : ~ (i <= Len(h)) /\ i - change >= 1 => b2[i] = g[i - change]
      BY <3>4, GrownBehind DEF Behinds
    <3>6. ASSUME NEW i \in F .. N  PROVE b2[i + change] = pdu[i]
      <4>1. /\ i + change \in 1 .. N + change /\ ~ (i + change <= 4 + k)
            /\ (i + change) - change = i /\ i >= 1 /\ i \in 1 .. N
        BY <1>2, IndexIs
      <4> DEFINE q == i + change
      <4>2. q \in 1 .. N + change /\ ~ (q <= 4 + k) /\ q - change = i  BY <4>1, Zenon
      <4> HIDE DEF q
      <4>0. q \in 1 .. M /\ ~ (q <= Len(h)) /\ q - change >= 1
        <5>1. M = N + change /\ Len(h) = 4 + k  BY <1>4, <1>6
        <5>2. q \in 1 .. M  BY <5>1, <4>2, Zenon
        <5>3. ~ (q <= Len(h))  BY <5>1, <4>2, Zenon
        <5>4. q - change >= 1  BY <4>1, <4>2, Zenon
        <5> QED  BY <5>2, <5>3, <5>4
      <4>3. b2[q] = g[i]  BY <3>5, <4>0, <4>2
      <4> QED  BY <3>2, <4>1, <4>3 DEF q
    <3> QED  BY <1>6, <3>5, <3>6
  <2>2. CASE ~ (change > 0)
    <3> DEFINE r == SubSeq(pdu, F, N)
    <3>1. ~ (M > o)  BY <1>2, <1>6, <2>2
    <3>2. b2 = h \o r  BY <1>1, <1>5, <3>1
    <3>3. /\ r \in Seq(Cell) /\ Len(r) = N - F + 1
          /\ \A i \in 1 .. N - F + 1 : r[i] = pdu[F + i - 1]
      <4>1. F \in Nat /\ N = Len(pdu) /\ F # 0 /\ F <= N + 1  BY <1>2 DEF N
      <4> QED  BY <1>0, <4>1
    <3> HIDE DEF r
    <3>4. /\ b2 \in Seq(Cell) /\ Len(b2) = Len(h) + Len(r)
          /\ \A i \in 1 .. Len(h) + Len(r) : b2[i] = IF i <= Len(h) THEN h[i] ELSE r[i - Len(h)]
      <4>1. h \in Seq(Cell) /\ r \in Seq(Cell)  BY <1>4, <3>3
      <4>2. /\ h \o r \in Seq(Cell) /\ Len(h \o r) = Len(h) + Len(r)
            /\ \A i \in 1 .. Len(h) + Len(r) : (h \o r)[i] = IF i <= Len(h) THEN h[i] ELSE r[i - Len(h)]
        BY <4>1, ConcatProperties
      <4> QED  BY <3>2, <4>2
    <3>5. Len(h) + Len(r) = N + change
      <4>1. 4 + k + (N - F + 1) = N + change  BY <1>2
      <4>2. Len(h) = 4 + k /\ Len(r) = N - F + 1  BY <1>4, <3>3
      <4> QED  BY <4>1, <4>2, Zenon
    <3>6. ASSUME NEW i \in 1 .. Len(h)  PROVE b2[i] = h[i]
      <4>1. i \in 1 .. Len(h) + Len(r) /\ i <= Len(h)  BY <1>2, <1>4, <3>3
      <4> QED  BY <3>4, <4>1
    <3>7. ASSUME NEW i \in F .. N  PROVE b2[i + change] = pdu[i]
      <4>1. /\ i + change \in 1 .. (4 + k) + (N - F + 1) /\ ~ (i + change <= 4 + k)
            /\ (i + change) - (4 + k) \in 1 .. N - F + 1 /\ F + ((i + change) - (4 + k)) - 1 = i
        BY <1>2, IndexIs
      <4> DEFINE q == i + change  p == q - (4 + k)
      <4>0. /\ q \in 1 .. (4 + k) + (N - F + 1) /\ ~ (q <= 4 + k) /\ q - (4 + k) = p
            /\ p \in 1 .. N - F + 1 /\ F + p - 1 = i
        BY <4>1, Zenon
      <4> HIDE DEF q, p
      <4>2. /\ q \in 1 .. Len(h) + Len(r) /\ ~ (q <= Len(h)) /\ q - Len(h) = p
            /\ p \in 1 .. N - F + 1 /\ F + p - 1 = i
        <5>1. Len(h) = 4 + k /\ Len(r) = N - F + 1  BY <1>4, <3>3
        <5>2. q \in 1 .. Len(h) + Len(r)  BY <5>1, <4>0, Zenon
        <5>3. ~ (q <= Len(h))  BY <5>1, <4>0, Zenon
        <5>4. q - Len(h) = p  BY <5>1, <4>0, Zenon
        <5> QED  BY <4>0, <5>2, <5>3, <5>4, Zenon
      <4>3. b2[q] = r[p]  BY <3>4, <4>2
      <4>4. r[p] = pdu[i]  BY <3>3, <4>2
      <4> QED  BY <4>3, <4>4 DEF q
    <3> QED  BY <3>4, <3>5, <3>6, <3>7
  <2> QED  BY <2>1, <2>2
<1>8. b2[1] = first
  <2>1. 1 \in 1 .. Len(h)  BY <1>2, <1>4
  <2> QED  BY <1>4, <1>7, <2>1
<1>9. ASSUME NEW i \in 1 .. k  PROVE b2[4 + i] = t[i]
  <2>1. 4 + i \in 1 .. Len(h)  BY <1>2, <1>4
  <2> QED  BY <1>4, <1>7, <2>1
<1>10. change = Len(t) - length  BY <1>2 DEF k
<1> QED  BY <1>7, <1>8, <1>9, <1>10 DEF first, N, F, k

LEMMA OverwrittenBytes ==
  ASSUME NEW version, NEW length, NEW t, Ready(version, length, t), Len(t) = length,
         NEW b2, b2 = Overwrite(pdu, HeaderSize + 1, t)
  PROVE  /\ b2 \in Seq(Cell) /\ Len(b2) = Len(pdu)
         /\ b2[1] = 64 * version + length
         /\ \A i \in 1 .. Len(t) : b2[4 + i] = t[i]
         /\ \A i \in 5 + length .. Len(pdu) : b2[i] = pdu[i]
<1> DEFINE N == Len(pdu)  F == 5 + length  first == 64 * version + length
<1>0. /\ pdu \in Seq(Cell) /\ version \in {0, 1} /\ length \in 0 .. 8
      /\ pdu[1] = first /\ t \in Seq(Cell) /\ FirstOption(pdu) <= N + 1
  BY DEF Ready
<1>1. FirstOption(pdu) = F  BY <1>0, HeadedIs
<1> HIDE DEF first
<1>2. N \in Nat /\ F \in Nat /\ F >= 5 /\ F <= N + 1 /\ 5 + Len(t) = F /\ Len(t) \in Nat
  <2>1. N \in Nat /\ F \in Nat /\ F >= 5  BY <1>0
  <2>2. F <= N + 1 /\ 5 + Len(t) = F /\ Len(t) \in Nat  BY <1>0, <1>1
  <2> QED  BY <2>1, <2>2
<1> HIDE DEF F
<1>3. b2 = Overwrite(pdu, 5, t)
  <2>1. HeaderSize + 1 = 5  BY DEF HeaderSize
  <2> QED  BY <2>1
<1>4. /\ b2 \in Seq(Cell) /\ Len(b2) = N
      /\ \A i \in 1 .. N : i < 5 \/ i >= 5 + Len(t) => b2[i] = pdu[i]
      /\ HoldsAt(b2, 5, t)
  <2>1. 5 + Len(t) <= Len(pdu) + 1  BY <1>2
  <2> HIDE DEF N
  <2>2. 5 \in Nat /\ 5 # 0  OBVIOUS
  <2>3. /\ Overwrite(pdu, 5, t) \in Seq(Cell) /\ Len(Overwrite(pdu, 5, t)) = Len(pdu)
        /\ \A i \in 1 .. Len(pdu) :
             i < 5 \/ i >= 5 + Len(t) => Overwrite(pdu, 5, t)[i] = pdu[i]
        /\ HoldsAt(Overwrite(pdu, 5, t), 5, t)
    BY <1>0, <2>1, <2>2, OverwriteIs
  <2> QED  BY <1>3, <2>3 DEF N
<1> HIDE DEF N
<1>5. b2[1] = first
  <2>1. 1 \in 1 .. N /\ 1 < 5  BY <1>2
  <2> QED  BY <1>0, <1>4, <2>1
<1>6. ASSUME NEW i \in 1 .. Len(t)  PROVE b2[4 + i] = t[i]
  <2>1. 5 + i - 1 = 4 + i  OBVIOUS
  <2>2. b2[5 + i - 1] = t[i]  BY <1>4 DEF HoldsAt
  <2> QED  BY <2>1, <2>2
<1>7. ASSUME NEW i \in F .. N  PROVE b2[i] = pdu[i]
  <2>1. i \in 1 .. N /\ i >= 5 + Len(t)  BY <1>2
  <2> QED  BY <1>4, <2>1
<1> QED  BY <1>4, <1>5, <1>6, <1>7 DEF F, N, first

(* The bytes with the new token.                                           *)
Shifted(version, length, t, b2) ==
  /\ b2 \in Seq(Cell) /\ Len(b2) = Len(pdu) + (Len(t) - length)
  /\ b2[1] = 64 * version + Len(t)
  /\ \A i \in 1 .. Len(t) : b2[4 + i] = t[i]
  /\ \A i \in 5 + length .. Len(pdu) : b2[i + (Len(t) - length)] = pdu[i]

LEMMA TokenBytes ==
  ASSUME NEW version, NEW length, NEW t, Ready(version, length, t),
         NEW b2, b2 = IF Len(t) = TokenLength(pdu) THEN Overwrite(pdu, HeaderSize + 1, t)
                                                   ELSE Retokened(t)
  PROVE  Shifted(version, length, t, b2)
<1>0. version \in {0, 1} /\ length \in 0 .. 8 /\ pdu[1] = 64 * version + length
  BY DEF Ready
<1>1. TokenLength(pdu) = length  BY <1>0, HeadedIs
<1>2. CASE Len(t) = length
  <2>1. b2 = Overwrite(pdu, HeaderSize + 1, t)  BY <1>1, <1>2
  <2>2. /\ b2 \in Seq(Cell) /\ Len(b2) = Len(pdu)
        /\ b2[1] = 64 * version + length
        /\ \A i \in 1 .. Len(t) : b2[4 + i] = t[i]
        /\ \A i \in 5 + length .. Len(pdu) : b2[i] = pdu[i]
    BY <1>2, <2>1, OverwrittenBytes
  <2> DEFINE N == Len(pdu)
  <2>3. N \in Nat /\ length \in Nat  BY <1>0 DEF Ready
  <2>4. N + (Len(t) - length) = N
    <3> HIDE DEF N
    <3> QED  BY <1>2, <2>3
  <2>5. ASSUME NEW i \in 5 + length .. N  PROVE b2[i + (Len(t) - length)] = pdu[i]
    <3>1. i + (Len(t) - length) = i
      <4> HIDE DEF N
      <4> QED  BY <1>2, <2>3
    <3> QED  BY <2>2, <3>1
  <2> QED  BY <1>2, <2>2, <2>4, <2>5 DEF Shifted
<1>3. CASE Len(t) # length
  <2>1. b2 = Retokened(t)  BY <1>1, <1>3
  <2> DEFINE change == Change(t)
  <2>2. /\ change = Len(t) - length
        /\ b2 \in Seq(Cell) /\ Len(b2) = Len(pdu) + change
        /\ b2[1] = 64 * version + Len(t)
        /\ \A i \in 1 .. Len(t) : b2[4 + i] = t[i]
        /\ \A i \in 5 + length .. Len(pdu) : b2[i + change] = pdu[i]
    <3>1. change = Change(t)  OBVIOUS
    <3> HIDE DEF change
    <3> QED  BY <2>1, <3>1, RetokenedBytes
  <2> HIDE DEF change
  <2> QED  BY <2>2 DEF Shifted
<1> QED  BY <1>2, <1>3

LEMMA TokenTaken ==
  ASSUME NEW version, NEW length, NEW t, Ready(version, length, t),
         NEW at, NEW os, Filled(pdu, at, os), NEW b2, Shifted(version, length, t, b2)
  PROVE  /\ FirstOption(b2) <= Len(b2) + 1
         /\ SubSeq(b2, HeaderSize + 1, HeaderSize + TokenLength(b2)) = t
         /\ \E at2 : Filled(b2, at2, os)
<1> DEFINE N == Len(pdu)  F == 5 + length  k == Len(t)  change == k - length
<1>0. /\ pdu \in Seq(Cell) /\ version \in {0, 1} /\ length \in 0 .. 8
      /\ pdu[1] = 64 * version + length /\ t \in Seq(Cell) /\ FirstOption(pdu) <= N + 1
      /\ k <= 8
  BY DEF Ready
<1>1. /\ b2 \in Seq(Cell) /\ Len(b2) = N + change /\ b2[1] = 64 * version + k
      /\ \A i \in 1 .. k : b2[4 + i] = t[i]
      /\ \A i \in F .. N : b2[i + change] = pdu[i]
  BY DEF Shifted
<1>2. FirstOption(pdu) = F  BY <1>0, HeadedIs
<1>3. k \in 0 .. 8 /\ k \in Nat
  <2>1. k \in Nat  BY <1>0
  <2> HIDE DEF k
  <2> QED  BY <1>0, <2>1
<1>4. FirstOption(b2) = 5 + k /\ TokenLength(b2) = k  BY <1>0, <1>1, <1>3, HeadedIs, ZenonT(20)
<1>5. N \in Nat /\ F \in Nat /\ F >= 5 /\ F <= N + 1
  <2>1. F <= N + 1  BY <1>0, <1>2
  <2>2. N \in Nat  BY <1>0
  <2> HIDE DEF N
  <2> QED  BY <1>0, <2>1, <2>2
<1> HIDE DEF N, k
<1>6. change \in Int /\ 5 + k = F + change /\ N + change >= 4 + k /\ N + change \in Nat
  BY <1>0, <1>3, <1>5
<1>7. FirstOption(b2) <= Len(b2) + 1
  <2>1. 5 + k <= N + change + 1  BY <1>3, <1>5, <1>6
  <2> QED  BY <1>1, <1>4, <2>1
<1>8. SubSeq(b2, HeaderSize + 1, HeaderSize + TokenLength(b2)) = t
  <2>1. HoldsAt(b2, 5, t)
    <3>1. 5 + Len(t) <= Len(b2) + 1  BY <1>4, <1>7 DEF k
    <3>2. ASSUME NEW i \in 1 .. Len(t)  PROVE b2[5 + i - 1] = t[i]
      <4>1. 5 + i - 1 = 4 + i  OBVIOUS
      <4> QED  BY <1>1, <4>1 DEF k
    <3> QED  BY <3>1, <3>2 DEF HoldsAt
  <2>2. 5 \in Nat /\ 5 # 0  OBVIOUS
  <2>3. SubSeq(b2, 5, 5 + Len(t) - 1) = t  BY <1>0, <1>1, <2>1, <2>2, HeldIs
  <2>4. 5 + k - 1 = 4 + k  BY <1>3
  <2>5. SubSeq(b2, 5, 4 + k) = t  BY <2>3, <2>4 DEF k
  <2>6. HeaderSize + 1 = 5 /\ HeaderSize = 4  BY DEF HeaderSize
  <2> QED  BY <1>4, <2>5, <2>6
<1> HIDE DEF change, F
<1>9. at[Len(os)] = N + 1 /\ Laid(pdu, at, os) /\ Len(os) \in Nat  BY DEF Filled, Laid, N
<1>10. Laid(b2, [i \in 0 .. Len(os) |-> at[i] + change], os)
  <2>1. FirstOption(pdu) \in Nat /\ FirstOption(pdu) > 0  BY <1>2, <1>5
  <2>2. at[Len(os)] <= Len(pdu) + 1  BY <1>5, <1>9 DEF N
  <2>3. FirstOption(b2) = FirstOption(pdu) + change /\ FirstOption(b2) \in Nat
    BY <1>2, <1>3, <1>4, <1>6
  <2>4. \A i \in FirstOption(pdu) .. at[Len(os)] - 1 : b2[i + change] = pdu[i]
    <3>1. at[Len(os)] - 1 = N  BY <1>5, <1>9
    <3> QED  BY <1>1, <1>2, <3>1
  <2>5. at[Len(os)] + change <= Len(b2) + 1
    <3>1. N + 1 + change <= N + change + 1  BY <1>5, <1>6
    <3> QED  BY <1>1, <1>9, <3>1
  <2> QED  BY <1>0, <1>1, <1>6, <1>9, <2>1, <2>2, <2>3, <2>4, <2>5, LaidKept
<1>11. [i \in 0 .. Len(os) |-> at[i] + change][Len(os)] = Len(b2) + 1
  <2>1. Len(os) \in 0 .. Len(os)  BY <1>9
  <2>2. N + 1 + change = N + change + 1  BY <1>5, <1>6
  <2> QED  BY <1>1, <1>9, <2>1, <2>2
<1>12. Filled(b2, [i \in 0 .. Len(os) |-> at[i] + change], os)
  <2> DEFINE at2 == [i \in 0 .. Len(os) |-> at[i] + change]
  <2> HIDE DEF at2
  <2> SUFFICES Filled(b2, at2, os)  BY DEF at2
  <2> QED  BY <1>10, <1>11 DEF Filled, at2
<1> QED  BY <1>7, <1>8, <1>12

-----------------------------------------------------------------------------
(* addOption().                                                            *)

(* A PDU that options may be added to.                                     *)
Open(at, os) ==
  pdu \in Seq(Cell) /\ Len(pdu) >= 1 /\ Filled(pdu, at, os) /\ maxAdded = LastNumber(os)

(* Between which options a number belongs.                                 *)
Between(os, j, n) ==
  /\ j \in 0 .. Len(os)
  /\ NumberOf(os, j) <= n
  /\ j < Len(os) => n < NumberOf(os, j + 1)

LEMMA BelongsSomewhere ==
  ASSUME NEW os \in Seq(OptionSet), NEW n \in Nat, ~ (n >= LastNumber(os))
  PROVE  \E j \in 0 .. Len(os) - 1 : NumberOf(os, j) <= n /\ NumberOf(os, j + 1) > n
<1> DEFINE m == Len(os)  S == {k \in 0 .. m : NumberOf(os, k) <= n}
<1>1. m \in Nat  OBVIOUS
<1> SUFFICES ASSUME ~ \E j \in 0 .. m - 1 : NumberOf(os, j) <= n /\ NumberOf(os, j + 1) > n
             PROVE  FALSE
  OBVIOUS
<1>2. 0 \in S  BY <1>1 DEF NumberOf
<1>3. ASSUME NEW k \in 1 .. m, k - 1 \in S  PROVE k \in S
  <2>1. k \in 0 .. m /\ k - 1 \in 0 .. m - 1 /\ (k - 1) + 1 = k  BY <1>1
  <2>2. NumberOf(os, k) \in Nat  BY <2>1, NumberIs
  <2>3. ~ (NumberOf(os, (k - 1) + 1) > n)  BY <1>3, <2>1
  <2>4. NumberOf(os, k) <= n
    <3> DEFINE x == NumberOf(os, k)
    <3>1. ~ (x > n) /\ x \in Nat  BY <2>1, <2>2, <2>3
    <3> HIDE DEF x
    <3>2. x <= n  BY <3>1
    <3> QED  BY <3>2 DEF x
  <2> QED  BY <2>1, <2>4
<1>4. 0 .. m \subseteq S
  <2> HIDE DEF S, m
  <2> QED  BY <1>1, <1>2, <1>3, UpTo
<1>5. m \in 0 .. m  BY <1>1
<1>6. NumberOf(os, m) \in Nat /\ NumberOf(os, m) <= n  BY <1>4, <1>5, NumberIs
<1>7. LastNumber(os) \in Nat /\ LastNumber(os) <= n  BY <1>6 DEF LastNumber
<1> QED  BY <1>7

(* Where findInsertionPosition() puts it.                                  *)
Found(at, os, j, n, place) ==
  /\ Between(os, j, n)
  /\ place.number = NumberOf(os, j)
  /\ place.at = at[j]
  /\ place.at = Len(pdu) + 1 <=> j = Len(os)

LEMMA PlaceIs ==
  ASSUME NEW at, NEW os, Open(at, os), NEW n \in Nat,
         NEW place, place = InsertionPosition(n)
  PROVE  \E j \in 0 .. Len(os) : Found(at, os, j, n, place)
<1>1. /\ pdu \in Seq(Cell) /\ Len(pdu) >= 1 /\ Laid(pdu, at, os) /\ at[Len(os)] = Len(pdu) + 1
      /\ maxAdded = LastNumber(os) /\ os \in Seq(OptionSet) /\ Len(os) \in Nat
  BY DEF Open, Filled, Laid
<1>2. FirstOption(pdu) \in Nat /\ FirstOption(pdu) > 0  BY <1>1, FirstOptionIs
<1>3. CASE n >= maxAdded
  <2>1. place = [at |-> Len(pdu) + 1, number |-> maxAdded]  BY <1>3 DEF InsertionPosition
  <2>2. place.number = NumberOf(os, Len(os)) /\ place.at = Len(pdu) + 1
    BY <1>1, <2>1 DEF LastNumber
  <2>3. Len(os) \in 0 .. Len(os) /\ ~ (Len(os) < Len(os))  BY <1>1
  <2>4. NumberOf(os, Len(os)) <= n
    <3>1. NumberOf(os, Len(os)) \in Nat  BY <1>1, <2>3, NumberIs
    <3>2. n >= NumberOf(os, Len(os))  BY <1>1, <1>3 DEF LastNumber
    <3> QED  BY <3>1, <3>2
  <2>5. Between(os, Len(os), n)  BY <2>3, <2>4 DEF Between
  <2> QED  BY <1>1, <2>2, <2>3, <2>5 DEF Found
<1>4. CASE ~ (n >= maxAdded)
  <2>1. PICK j \in 0 .. Len(os) - 1 : NumberOf(os, j) <= n /\ NumberOf(os, j + 1) > n
    BY <1>1, <1>4, BelongsSomewhere
  <2>2. place = [at |-> at[j], number |-> NumberOf(os, j)]
    BY <1>1, <1>2, <1>4, <2>1, PositionIs
  <2>3. j \in 0 .. Len(os) /\ j # Len(os) /\ j \in Nat /\ j + 1 \in 0 .. Len(os)  BY <1>1
  <2>4. at[j] # Len(pdu) + 1
    <3>1. Len(os) \in 0 .. Len(os) /\ j \in 0 .. Len(os)  BY <1>1
    <3>2. at[j] \in Nat /\ at[Len(os)] \in Nat /\ at[j] + (Len(os) - j) <= at[Len(os)]
      BY <1>1, <3>1, LaidGrows
    <3>3. Len(os) - j > 0  BY <1>1
    <3>4. at[j] # at[Len(os)]  BY <1>1, <2>3, <3>2, <3>3
    <3> QED  BY <1>1, <3>4
  <2>5. NumberOf(os, j + 1) \in Nat  BY <1>1, <2>3, NumberIs
  <2>6. n < NumberOf(os, j + 1)  BY <2>1, <2>5
  <2>7. Between(os, j, n)  BY <2>1, <2>3, <2>6 DEF Between
  <2> QED  BY <2>2, <2>3, <2>4, <2>7 DEF Found
<1> QED  BY <1>3, <1>4

(* The bytes, and the option they hold more.                               *)
Added(at, os, j, n, v, b2, max2) ==
  /\ b2 \in Seq(Cell) /\ Len(b2) >= Len(pdu)
  /\ \A i \in 1 .. FirstOption(pdu) - 1 : b2[i] = pdu[i]
  /\ Between(os, j, n)
  /\ \E at2, w :
       /\ Kept(w, v)
       /\ Filled(b2, at2, InsertAt(os, j + 1, [number |-> n, value |-> w]))
       /\ max2 = LastNumber(InsertAt(os, j + 1, [number |-> n, value |-> w]))

LEMMA AddedIs ==
  ASSUME NEW at, NEW os, Open(at, os), FirstOption(pdu) <= Len(pdu) + 1,
         NEW n \in Sized, NEW v \in Seq(Cell), Len(v) <= MaxLength,
         NEW place, place = InsertionPosition(n),
         NEW b2, b2 = IF place.at = Len(pdu) + 1
                        THEN Appended(place.number, n, v)
                        ELSE InsertedBefore(place.at, place.number, n, v),
         NEW max2, max2 = IF place.at = Len(pdu) + 1 THEN n ELSE maxAdded
  PROVE  \E j \in 0 .. Len(os) : Added(at, os, j, n, v, b2, max2)
<1>0. n \in Nat  BY SizedIs
<1>10. PICK j \in 0 .. Len(os) : Found(at, os, j, n, place)  BY <1>0, PlaceIs
<1>1. /\ Between(os, j, n)
      /\ place.number = NumberOf(os, j)
      /\ place.at = at[j]
      /\ place.at = Len(pdu) + 1 <=> j = Len(os)
  BY <1>10 DEF Found
<1>2. /\ pdu \in Seq(Cell) /\ Len(pdu) >= 1 /\ Filled(pdu, at, os)
      /\ maxAdded = LastNumber(os) /\ os \in Seq(OptionSet) /\ Len(os) \in Nat
  BY DEF Open, Filled, Laid
<1>3. FirstOption(pdu) \in Nat  BY <1>2, FirstOptionIs
<1>4. NumberOf(os, j) \in Nat  BY <1>2, NumberIs
<1>5. NumberOf(os, j) <= n /\ (j < Len(os) => n < NumberOf(os, j + 1))  BY <1>1 DEF Between
<1>6. ASSUME NEW w, Kept(w, v)
      PROVE  max2 = LastNumber(InsertAt(os, j + 1, [number |-> n, value |-> w]))
  <2> DEFINE new == [number |-> n, value |-> w]  os2 == InsertAt(os, j + 1, new)
  <2>1. new \in OptionSet /\ new.number = n
    <3>1. n \in 0 .. MaxUint16  BY SizedRange
    <3> QED  BY <1>6, <3>1 DEF OptionSet, Kept
  <2>2. os2 = InsertAt(os, j + 1, new)  OBVIOUS
  <2> HIDE DEF new, os2
  <2>3. LastNumber(os2) = IF j = Len(os) THEN new.number ELSE LastNumber(os)
    BY <1>2, <2>1, <2>2, InsertedNumbers
  <2>4. max2 = LastNumber(os2)  BY <1>1, <1>2, <2>1, <2>3
  <2> QED  BY <2>4 DEF os2, new
<1>7. CASE j = Len(os)
  <2>1. b2 = Appended(LastNumber(os), n, v)  BY <1>1, <1>7 DEF LastNumber
  <2>2. LastNumber(os) <= n  BY <1>5, <1>7 DEF LastNumber
  <2>3. /\ b2 \in Seq(Cell) /\ Len(b2) >= Len(pdu)
        /\ \A i \in 1 .. Len(pdu) : b2[i] = pdu[i]
        /\ \E at2, w : /\ Kept(w, v)
                       /\ Filled(b2, at2, InsertAt(os, Len(os) + 1, [number |-> n, value |-> w]))
    BY <1>2, <2>1, <2>2, AppendedIs
  <2>4. \A i \in 1 .. FirstOption(pdu) - 1 : b2[i] = pdu[i]
    <3>1. \A i \in 1 .. FirstOption(pdu) - 1 : i \in 1 .. Len(pdu)  BY <1>2, <1>3
    <3> QED  BY <2>3, <3>1
  <2>5. Added(at, os, j, n, v, b2, max2)
    <3>1. PICK at2, w : /\ Kept(w, v)
                        /\ Filled(b2, at2, InsertAt(os, j + 1, [number |-> n, value |-> w]))
      BY <1>7, <2>3
    <3>2. max2 = LastNumber(InsertAt(os, j + 1, [number |-> n, value |-> w]))  BY <1>6, <3>1
    <3> QED  BY <1>1, <2>3, <2>4, <3>1, <3>2 DEF Added
  <2> QED  BY <2>5
<1>8. CASE j # Len(os)
  <2>0. j \in 0 .. Len(os) - 1 /\ j < Len(os)  BY <1>2, <1>8
  <2>1. b2 = InsertedBefore(at[j], NumberOf(os, j), n, v)  BY <1>1, <1>8
  <2>2. n <= NumberOf(os, j + 1)
    <3>1. j + 1 \in 0 .. Len(os)  BY <1>2, <2>0
    <3>2. NumberOf(os, j + 1) \in Nat  BY <1>2, <3>1, NumberIs
    <3> QED  BY <1>0, <1>5, <2>0, <3>2
  <2>3. /\ b2 \in Seq(Cell) /\ Len(b2) >= Len(pdu)
        /\ \A i \in 1 .. FirstOption(pdu) - 1 : b2[i] = pdu[i]
        /\ \E at2, w : /\ Kept(w, v)
                       /\ Filled(b2, at2, InsertAt(os, j + 1, [number |-> n, value |-> w]))
    BY <1>2, <1>5, <2>0, <2>1, <2>2, InsertedBeforeIs
  <2>5. Added(at, os, j, n, v, b2, max2)
    <3>1. PICK at2, w : /\ Kept(w, v)
                        /\ Filled(b2, at2, InsertAt(os, j + 1, [number |-> n, value |-> w]))
      BY <2>3
    <3>2. max2 = LastNumber(InsertAt(os, j + 1, [number |-> n, value |-> w]))  BY <1>6, <3>1
    <3> QED  BY <1>1, <2>3, <3>1, <3>2 DEF Added
  <2> QED  BY <2>5
<1> QED  BY <1>7, <1>8

-----------------------------------------------------------------------------
(* The payload, and what stays as it is.                                   *)

LEMMA SameToken ==
  ASSUME NEW b \in Seq(Cell), Len(b) >= 1, FirstOption(b) <= Len(b) + 1,
         NEW b2 \in Seq(Cell), Len(b2) >= Len(b),
         \A i \in 1 .. FirstOption(b) - 1 : b2[i] = b[i]
  PROVE  /\ b2[1] = b[1] /\ TokenLength(b2) = TokenLength(b) /\ FirstOption(b2) = FirstOption(b)
         /\ SubSeq(b2, HeaderSize + 1, HeaderSize + TokenLength(b2))
              = SubSeq(b, HeaderSize + 1, HeaderSize + TokenLength(b))
<1> DEFINE k == TokenLength(b)  t == SubSeq(b, 5, 4 + k)
<1>1. FirstOption(b) \in Nat /\ FirstOption(b) >= 5 /\ k \in 0 .. 15 /\ FirstOption(b) = 5 + k
  <2>1. FirstOption(b) \in Nat /\ FirstOption(b) >= 5 /\ k \in 0 .. 15  BY FirstOptionIs
  <2>2. FirstOption(b) = 4 + k + 1  BY DEF FirstOption, HeaderSize
  <2> HIDE DEF k
  <2>3. 4 + k + 1 = 5 + k  BY <2>1
  <2> QED  BY <2>1, <2>2, <2>3
<1>2. b2[1] = b[1]
  <2>1. 1 \in 1 .. FirstOption(b) - 1  BY <1>1
  <2> QED  BY <2>1
<1>3. TokenLength(b2) = k /\ FirstOption(b2) = FirstOption(b)
  BY <1>2 DEF TokenLength, FirstOption
<1> HIDE DEF k
<1>4. Len(b) \in Nat /\ Len(b2) \in Nat /\ 4 + k <= Len(b) /\ k \in Nat
  <2>1. Len(b) \in Nat /\ Len(b2) \in Nat  OBVIOUS
  <2>2. 5 + k <= Len(b) + 1  BY <1>1
  <2> QED  BY <1>1, <2>1, <2>2
<1>5. t \in Seq(Cell) /\ Len(t) = k /\ \A i \in 1 .. k : t[i] = b[4 + i]
  <2> DEFINE N == Len(b)
  <2>1. 5 \in Nat /\ 4 + k \in Nat /\ 4 + k <= N /\ N \in Nat  BY <1>1, <1>4
  <2>2. /\ t \in Seq(Cell)
        /\ Len(t) = IF 5 <= 4 + k THEN (4 + k) - 5 + 1 ELSE 0
    <3> DEFINE e == 4 + k
    <3>1. e \in Nat  BY <2>1
    <3> HIDE DEF e
    <3>2. \A i \in 5 .. e : b[i] \in Cell
      <4>1. \A i \in 5 .. e : i \in 1 .. N  BY <2>1, <3>1 DEF e
      <4> QED  BY <4>1
    <3>3. 5 \in Int /\ e \in Int  BY <3>1
    <3>4. /\ SubSeq(b, 5, e) \in Seq(Cell)
          /\ Len(SubSeq(b, 5, e)) = IF 5 <= e THEN e - 5 + 1 ELSE 0
      BY <3>2, <3>3, SubSeqProperties
    <3> QED  BY <3>4 DEF e
  <2>3. Len(t) = k
    <3>1. k = 0 \/ k >= 1  BY <1>4
    <3>2. k >= 1 => 5 <= 4 + k /\ (4 + k) - 5 + 1 = k  BY <1>4
    <3>3. k = 0 => ~ (5 <= 4 + k)  OBVIOUS
    <3>4. CASE k = 0
      <4>1. Len(t) = 0  BY <2>2, <3>3, <3>4, Zenon
      <4> QED  BY <3>4, <4>1, Zenon
    <3>5. CASE k >= 1
      <4>1. Len(t) = (4 + k) - 5 + 1  BY <2>2, <3>2, <3>5, Zenon
      <4> QED  BY <3>2, <3>5, <4>1, Zenon
    <3> QED  BY <3>1, <3>4, <3>5, Zenon
  <2>4. ASSUME NEW i \in 1 .. k  PROVE t[i] = b[4 + i]
    <3>1. t[i] = b[5 + i - 1]  BY <1>4, <2>1, <2>4
    <3>2. 5 + i - 1 = 4 + i  OBVIOUS
    <3> QED  BY <3>1, <3>2
  <2> QED  BY <2>2, <2>3, <2>4
<1> HIDE DEF t
<1>6. HoldsAt(b2, 5, t)
  <2>1. 5 + k <= Len(b2) + 1  BY <1>4
  <2>2. ASSUME NEW i \in 1 .. Len(t)  PROVE b2[5 + i - 1] = t[i]
    <3>0. i \in 1 .. k  BY <1>5
    <3>1. 5 + i - 1 = 4 + i /\ 4 + i \in 1 .. FirstOption(b) - 1  BY <1>1, <1>4, <3>0
    <3>2. b2[4 + i] = b[4 + i]  BY <3>1
    <3> QED  BY <1>5, <3>0, <3>1, <3>2
  <2> QED  BY <1>5, <2>1, <2>2 DEF HoldsAt
<1>7. SubSeq(b2, 5, 4 + k) = t
  <2>1. 5 \in Nat /\ 5 # 0  OBVIOUS
  <2>2. SubSeq(b2, 5, 5 + Len(t) - 1) = t  BY <1>5, <1>6, <2>1, HeldIs
  <2>3. 5 + Len(t) - 1 = 4 + k  BY <1>4, <1>5
  <2> QED  BY <2>2, <2>3
<1>8. HeaderSize + 1 = 5 /\ HeaderSize = 4  BY DEF HeaderSize
<1> QED  BY <1>2, <1>3, <1>7, <1>8 DEF t, k

(* The bytes with a payload.                                               *)
Ended(b, p, b2) ==
  /\ b2 \in Seq(Cell) /\ Len(b2) = Len(b) + 1 + Len(p)
  /\ \A i \in 1 .. Len(b) : b2[i] = b[i]
  /\ b2[Len(b) + 1] = Marker
  /\ SubSeq(b2, Len(b) + 2, Len(b) + 2 + Len(p) - 1) = p

LEMMA PayloadBytes ==
  ASSUME NEW b \in Seq(Cell), NEW p \in Seq(Cell), NEW b2, b2 = b \o <<Marker>> \o p
  PROVE  Ended(b, p, b2)
<1> DEFINE N == Len(b)  k == Len(p)  m == <<Marker>>  c == b \o m
<1>1. m \in Seq(Cell) /\ Len(m) = 1 /\ m[1] = Marker
  <2>1. Marker \in Cell  BY DEF Marker, Cell, Junk
  <2> QED  BY <2>1
<1> HIDE DEF m
<1>2. /\ c \in Seq(Cell) /\ Len(c) = N + Len(m)
      /\ \A i \in 1 .. N + Len(m) : c[i] = IF i <= N THEN b[i] ELSE m[i - N]
  BY <1>1, ConcatProperties
<1>3. b2 = c \o p  BY DEF m, c
<1> HIDE DEF c
<1>4. /\ b2 \in Seq(Cell) /\ Len(b2) = Len(c) + k
      /\ \A i \in 1 .. Len(c) + k : b2[i] = IF i <= Len(c) THEN c[i] ELSE p[i - Len(c)]
  <2>1. c \in Seq(Cell)  BY <1>2
  <2>2. /\ c \o p \in Seq(Cell) /\ Len(c \o p) = Len(c) + k
        /\ \A i \in 1 .. Len(c) + k : (c \o p)[i] = IF i <= Len(c) THEN c[i] ELSE p[i - Len(c)]
    BY <2>1, ConcatProperties
  <2> QED  BY <1>3, <2>2, Zenon
<1>5. N \in Nat /\ k \in Nat /\ Len(c) = N + 1  BY <1>1, <1>2
<1> HIDE DEF N, k
<1>6. ASSUME NEW i \in 1 .. N  PROVE b2[i] = b[i]
  <2>1. i \in 1 .. N + Len(m) /\ i <= N /\ i \in 1 .. Len(c) + k /\ i <= Len(c)  BY <1>1, <1>5
  <2> QED  BY <1>2, <1>4, <2>1
<1>7. b2[N + 1] = Marker
  <2> DEFINE i == N + 1
  <2>1. /\ i \in 1 .. N + Len(m) /\ ~ (i <= N) /\ i - N = 1
        /\ i \in 1 .. Len(c) + k /\ i <= Len(c)
    BY <1>1, <1>5
  <2> HIDE DEF i
  <2>2. b2[i] = c[i]  BY <1>4, <2>1
  <2>3. c[i] = m[1]  BY <1>2, <2>1
  <2> QED  BY <1>1, <2>2, <2>3 DEF i
<1>8. Len(b2) = N + 1 + k  BY <1>4, <1>5
<1>9. HoldsAt(b2, N + 2, p)
  <2>1. N + 2 + k <= Len(b2) + 1  BY <1>5, <1>8
  <2>2. ASSUME NEW i \in 1 .. k  PROVE b2[N + 2 + i - 1] = p[i]
    <3> DEFINE q == N + 2 + i - 1
    <3>1. q \in 1 .. Len(c) + k /\ ~ (q <= Len(c)) /\ q - Len(c) = i  BY <1>5
    <3> HIDE DEF q
    <3>2. b2[q] = p[i]  BY <1>4, <3>1
    <3> QED  BY <3>2 DEF q
  <2> QED  BY <2>1, <2>2 DEF HoldsAt, k
<1>10. SubSeq(b2, N + 2, N + 2 + k - 1) = p
  <2>1. N + 2 \in Nat /\ N + 2 # 0  BY <1>5
  <2> QED  BY <1>4, <1>9, <2>1, HeldIs DEF k
<1> QED  BY <1>4, <1>6, <1>7, <1>8, <1>10 DEF Ended, N, k

LEMMA LaidStill ==
  ASSUME NEW b \in Seq(Cell), Len(b) >= 1, NEW at, NEW os, Filled(b, at, os),
         NEW b2 \in Seq(Cell), Len(b2) >= Len(b), \A i \in 1 .. Len(b) : b2[i] = b[i]
  PROVE  Laid(b2, at, os)
<1>1. /\ Laid(b, at, os) /\ at[Len(os)] = Len(b) + 1 /\ at \in [0 .. Len(os) -> Nat]
      /\ Len(b) \in Nat /\ Len(b2) \in Nat
  BY DEF Filled, Laid
<1>2. FirstOption(b) \in Nat /\ FirstOption(b) >= 5  BY FirstOptionIs
<1>3. FirstOption(b2) = FirstOption(b)
  <2>1. 1 \in 1 .. Len(b)  BY <1>1
  <2> QED  BY <2>1, SameFirstOption
<1> DEFINE shift == 0
<1>0. shift = 0 /\ shift \in Int  OBVIOUS
<1> HIDE DEF shift
<1>4. \A i \in FirstOption(b) .. at[Len(os)] - 1 : b2[i + shift] = b[i]
  <2> SUFFICES ASSUME NEW i \in FirstOption(b) .. at[Len(os)] - 1  PROVE b2[i + shift] = b[i]
    OBVIOUS
  <2>1. i \in 1 .. Len(b) /\ i + shift = i  BY <1>0, <1>1, <1>2
  <2> QED  BY <2>1
<1> DEFINE at2 == [k \in 0 .. Len(os) |-> at[k] + shift]
<1>5. Laid(b2, at2, os)
  <2>1. FirstOption(b) > 0 /\ FirstOption(b2) = FirstOption(b) + shift /\ FirstOption(b2) \in Nat
    BY <1>0, <1>2, <1>3
  <2>2. at[Len(os)] <= Len(b) + 1 /\ at[Len(os)] + shift <= Len(b2) + 1  BY <1>0, <1>1
  <2> QED  BY <1>0, <1>1, <1>2, <1>4, <2>1, <2>2, LaidKept
<1>6. at2 = at
  <2>1. \A k \in 0 .. Len(os) : at[k] \in Nat  BY <1>1
  <2>2. \A k \in 0 .. Len(os) : at[k] + shift = at[k]  BY <1>0, <2>1
  <2> QED  BY <1>1, <2>2
<1> HIDE DEF at2
<1> QED  BY <1>5, <1>6

-----------------------------------------------------------------------------
(* The invariant, with the places and the options it speaks of.            *)

Sits(at, os) ==
  /\ TypeOK
  /\ \E version \in {0, 1}, length \in 0 .. 8 : pdu[1] = 64 * version + length
  /\ FirstOption(pdu) <= Len(pdu) + 1
  /\ Laid(pdu, at, os) /\ Len(os) = numOptions
  /\ payloadAt = 0 => at[numOptions] = Len(pdu) + 1 /\ payloadLength = 0
  /\ payloadAt # 0 => /\ pdu[at[numOptions]] = Marker /\ payloadAt = at[numOptions] + 1
                      /\ payloadLength = Len(pdu) - at[numOptions] /\ payloadLength > 0
  /\ ~failed => maxAdded = LastNumber(os)

Payload == IF payloadAt = 0 THEN <<>> ELSE SubSeq(pdu, payloadAt, payloadAt + payloadLength - 1)

LEMMA HeadIs ==
  ASSUME NEW b \in Seq(Cell), NEW version \in {0, 1}, NEW length \in 0 .. 8,
         b[1] = 64 * version + length, FirstOption(b) <= Len(b) + 1
  PROVE  /\ FirstOption(b) = 5 + length /\ FirstOption(b) \in Nat /\ FirstOption(b) > 0
         /\ TokenLength(b) = length /\ Version(b) = version
         /\ Len(b) >= 4 + length /\ Len(b) >= 1 /\ Len(b) \in Nat
<1> DEFINE N == Len(b)  F == FirstOption(b)
<1>1. F = 5 + length /\ TokenLength(b) = length /\ Version(b) = version  BY HeadedIs
<1>2. N \in Nat /\ F <= N + 1  OBVIOUS
<1> HIDE DEF N, F
<1>3. F \in Nat /\ F > 0 /\ N >= 4 + length /\ N >= 1  BY <1>1, <1>2
<1> QED  BY <1>1, <1>2, <1>3 DEF N, F

LEMMA InvOpens ==
  ASSUME PduInv
  PROVE  Sits(Places(pdu, numOptions), Options(pdu, numOptions))
<1> DEFINE os == Options(pdu, numOptions)  at == Places(pdu, numOptions)
<1>1. /\ TypeOK
      /\ \E version \in {0, 1}, length \in 0 .. 8 : pdu[1] = 64 * version + length
      /\ FirstOption(pdu) <= Len(pdu) + 1
      /\ Laid(pdu, at, os)
      /\ payloadAt = 0 => at[numOptions] = Len(pdu) + 1 /\ payloadLength = 0
      /\ payloadAt # 0 => /\ pdu[at[numOptions]] = Marker /\ payloadAt = at[numOptions] + 1
                          /\ payloadLength = Len(pdu) - at[numOptions] /\ payloadLength > 0
      /\ ~failed => maxAdded = LastNumber(os)
  BY DEF PduInv
<1>2. Len(os) = numOptions
  <2>1. DOMAIN at = 0 .. numOptions  BY DEF Places
  <2> HIDE DEF os, at
  <2>2. DOMAIN at = 0 .. Len(os) /\ Len(os) \in Nat  BY <1>1 DEF Laid
  <2>3. numOptions \in Nat  BY <1>1, PduAssumption DEF TypeOK
  <2> DEFINE l == Len(os)
  <2>4. 0 .. l = 0 .. numOptions /\ l \in Nat  BY <2>1, <2>2
  <2> HIDE DEF l
  <2>5. l \in 0 .. l /\ numOptions \in 0 .. numOptions  BY <2>3, <2>4
  <2>6. l \in 0 .. numOptions /\ numOptions \in 0 .. l  BY <2>4, <2>5
  <2>7. l = numOptions  BY <2>3, <2>4, <2>6
  <2> QED  BY <2>7 DEF l
<1> HIDE DEF os, at
<1>3. Sits(at, os)  BY <1>1, <1>2 DEF Sits
<1> QED  BY <1>3 DEF at, os

LEMMA SitsHead ==
  ASSUME NEW at, NEW os, Sits(at, os)
  PROVE  /\ pdu \in Seq(Cell) /\ Len(pdu) >= 4 /\ Len(pdu) >= 1 /\ Len(pdu) \in Nat
         /\ FirstOption(pdu) \in Nat /\ FirstOption(pdu) > 0 /\ FirstOption(pdu) <= Len(pdu) + 1
         /\ Laid(pdu, at, os) /\ Len(os) = numOptions
         /\ payloadAt = 0 => Filled(pdu, at, os)
<1>1. /\ pdu \in Seq(Cell) /\ FirstOption(pdu) <= Len(pdu) + 1
      /\ Laid(pdu, at, os) /\ Len(os) = numOptions
      /\ payloadAt = 0 => at[numOptions] = Len(pdu) + 1
  BY DEF Sits, TypeOK
<1>2. PICK version \in {0, 1}, length \in 0 .. 8 : pdu[1] = 64 * version + length
  BY DEF Sits
<1>3. /\ FirstOption(pdu) = 5 + length /\ FirstOption(pdu) \in Nat /\ FirstOption(pdu) > 0
      /\ Len(pdu) >= 4 + length /\ Len(pdu) >= 1 /\ Len(pdu) \in Nat
  BY <1>1, <1>2, HeadIs
<1>4. Len(pdu) >= 4
  <2> DEFINE N == Len(pdu)
  <2>1. N \in Nat /\ N >= 4 + length  BY <1>3
  <2> HIDE DEF N
  <2>2. N >= 4  BY <2>1
  <2> QED  BY <2>2 DEF N
<1> QED  BY <1>1, <1>3, <1>4 DEF Filled

LEMMA InvCloses ==
  ASSUME NEW at, NEW os, Sits(at, os)
  PROVE  PduInv /\ Options(pdu, numOptions) = os
<1>1. Options(pdu, numOptions) = os /\ Places(pdu, numOptions) = at
  BY SitsHead, OptionsAre
<1> QED  BY <1>1 DEF Sits, PduInv

LEMMA InvClosesNext ==
  ASSUME NEW at, NEW os, Sits(at, os)'
  PROVE  PduInv' /\ Options(pdu', numOptions') = os
<1>0. /\ pdu' \in Seq(Cell) /\ FirstOption(pdu') <= Len(pdu') + 1
      /\ Laid(pdu', at, os) /\ Len(os) = numOptions'
  BY DEF Sits, TypeOK
<1>2. PICK version \in {0, 1}, length \in 0 .. 8 : pdu'[1] = 64 * version + length
  BY DEF Sits
<1>3. FirstOption(pdu') \in Nat /\ FirstOption(pdu') > 0
  BY <1>0, <1>2, HeadIs
<1>1. Options(pdu', numOptions') = os /\ Places(pdu', numOptions') = at
  BY <1>0, <1>3, OptionsAre
<1> QED  BY <1>1 DEF Sits, PduInv

-----------------------------------------------------------------------------
(* The steps.                                                              *)

LEMMA NumbersAre ==
  ASSUME NEW n \in Numbers
  PROVE  n \in Sized
BY PduAssumption, SizedRange

LEMMA ValuesAre ==
  ASSUME NEW v \in Values
  PROVE  v \in Seq(Cell) /\ Len(v) <= MaxLength
<1>1. v \in Seq(Byte) /\ Len(v) <= MaxLength  BY PduAssumption
<1> QED  BY <1>1, BytesAreCells

LEMMA TokensAre ==
  ASSUME NEW t \in Tokens
  PROVE  t \in Seq(Cell) /\ Len(t) <= 8
<1>1. t \in Seq(Byte) /\ Len(t) <= 8  BY PduAssumption
<1> QED  BY <1>1, BytesAreCells

LEMMA PayloadsAre ==
  ASSUME NEW p \in Payloads
  PROVE  p \in Seq(Cell)
<1>1. p \in Seq(Byte)  BY PduAssumption
<1> QED  BY <1>1, BytesAreCells

(* One option more, at its place.                                          *)
OneMore(os, os2, n, v) ==
  \E j \in 0 .. Len(os), w \in Seq(Cell) :
    Between(os, j, n) /\ Kept(w, v) /\ os2 = InsertAt(os, j + 1, [number |-> n, value |-> w])

LEMMA AddStep ==
  ASSUME CallerStops, NEW at, NEW os, Sits(at, os),
         NEW n \in Numbers, NEW v \in Values, AddOption(n, v)
  PROVE  \E at2, os2 : /\ Sits(at2, os2)'
                       /\ Token' = Token /\ Payload' = Payload
                       /\ os2 = os \/ OneMore(os, os2, n, v)
<1> DEFINE place == InsertionPosition(n)
<1>1. /\ numOptions < MaxOptions /\ payloadAt = 0 /\ ~failed
      /\ maxAdded' = IF place.at = Len(pdu) + 1 THEN n ELSE maxAdded
      /\ payloadAt' = payloadAt /\ payloadLength' = payloadLength
  BY DEF AddOption
<1>2. \/ /\ pdu' = IF place.at = Len(pdu) + 1
                     THEN Appended(place.number, n, v)
                     ELSE InsertedBefore(place.at, place.number, n, v)
         /\ numOptions' = numOptions + 1 /\ failed' = failed
      \/ failed' = TRUE /\ pdu' = pdu /\ numOptions' = numOptions
  BY DEF AddOption
<1>3. place = InsertionPosition(n)  OBVIOUS
<1> HIDE DEF place
<1>4. /\ pdu \in Seq(Cell) /\ Len(pdu) >= 1 /\ Len(pdu) \in Nat
      /\ FirstOption(pdu) \in Nat /\ FirstOption(pdu) <= Len(pdu) + 1
      /\ Filled(pdu, at, os) /\ Len(os) = numOptions /\ Laid(pdu, at, os)
  BY <1>1, SitsHead
<1>5. /\ TypeOK /\ maxAdded = LastNumber(os) /\ payloadLength = 0
      /\ at[numOptions] = Len(pdu) + 1
  BY <1>1 DEF Sits
<1>6. PICK version \in {0, 1}, length \in 0 .. 8 : pdu[1] = 64 * version + length
  BY DEF Sits
<1>7. n \in Sized /\ v \in Seq(Cell) /\ Len(v) <= MaxLength  BY NumbersAre, ValuesAre
<1>8. maxAdded' \in Numbers \cup {0}  BY <1>1, <1>5 DEF TypeOK
<1>9. CASE failed' = TRUE /\ pdu' = pdu /\ numOptions' = numOptions
  <2>1. TypeOK'  BY <1>1, <1>5, <1>8, <1>9 DEF TypeOK
  <2>2. Sits(at, os)'  BY <1>1, <1>4, <1>5, <1>6, <1>9, <2>1 DEF Sits
  <2>3. Token' = Token /\ Payload' = Payload  BY <1>1, <1>9 DEF Token, Payload
  <2> QED  BY <2>2, <2>3
<1>10. CASE /\ pdu' = IF place.at = Len(pdu) + 1
                        THEN Appended(place.number, n, v)
                        ELSE InsertedBefore(place.at, place.number, n, v)
            /\ numOptions' = numOptions + 1 /\ failed' = failed
  <2>1. Open(at, os)  BY <1>4, <1>5 DEF Open
  <2>2. PICK j \in 0 .. Len(os) : Added(at, os, j, n, v, pdu', maxAdded')
    BY <1>1, <1>3, <1>4, <1>7, <1>10, <2>1, AddedIs
  <2>3. /\ pdu' \in Seq(Cell) /\ Len(pdu') >= Len(pdu)
        /\ \A i \in 1 .. FirstOption(pdu) - 1 : pdu'[i] = pdu[i]
        /\ Between(os, j, n)
    BY <2>2 DEF Added
  <2>4. PICK at2, w :
          /\ Kept(w, v)
          /\ Filled(pdu', at2, InsertAt(os, j + 1, [number |-> n, value |-> w]))
          /\ maxAdded' = LastNumber(InsertAt(os, j + 1, [number |-> n, value |-> w]))
    BY <2>2 DEF Added
  <2> DEFINE new == [number |-> n, value |-> w]  os2 == InsertAt(os, j + 1, new)
  <2>5. new \in OptionSet
    <3>1. n \in 0 .. MaxUint16  BY <1>7, SizedRange
    <3> QED  BY <2>4, <3>1 DEF OptionSet, Kept
  <2>6. os2 = InsertAt(os, j + 1, new)  OBVIOUS
  <2>7. Filled(pdu', at2, os2) /\ maxAdded' = LastNumber(os2)  BY <2>4
  <2>8. OneMore(os, os2, n, v)  BY <2>3, <2>4 DEF OneMore, Kept
  <2> HIDE DEF new, os2
  <2>9. Len(os2) = numOptions'
    <3>1. os \in Seq(OptionSet)  BY <1>4 DEF Laid
    <3>2. Len(InsertAt(os, j + 1, new)) = Len(os) + 1  BY <2>5, <3>1, InsertAtIs
    <3> QED  BY <1>4, <1>10, <2>6, <3>2
  <2>10. /\ pdu'[1] = pdu[1] /\ FirstOption(pdu') = FirstOption(pdu)
         /\ SubSeq(pdu', HeaderSize + 1, HeaderSize + TokenLength(pdu'))
              = SubSeq(pdu, HeaderSize + 1, HeaderSize + TokenLength(pdu))
    BY <1>4, <2>3, SameToken
  <2>11. Len(pdu') \in Nat  BY <2>3
  <2>12. FirstOption(pdu') <= Len(pdu') + 1  BY <1>4, <2>3, <2>10, <2>11
  <2>13. TypeOK'
    <3>1. numOptions' \in 0 .. MaxOptions  BY <1>1, <1>5, <1>10, PduAssumption DEF TypeOK
    <3>2. payloadAt' \in 0 .. Len(pdu') /\ payloadLength' \in 0 .. Len(pdu')
      BY <1>1, <1>5, <2>11
    <3> QED  BY <1>5, <1>8, <1>10, <2>3, <3>1, <3>2 DEF TypeOK
  <2>14. Laid(pdu', at2, os2) /\ at2[numOptions'] = Len(pdu') + 1  BY <2>7, <2>9 DEF Filled
  <2>15. Sits(at2, os2)'
    <3>1. \E ver \in {0, 1}, len \in 0 .. 8 : pdu'[1] = 64 * ver + len  BY <1>6, <2>10
    <3> QED  BY <1>1, <1>5, <2>7, <2>9, <2>12, <2>13, <2>14, <3>1 DEF Sits
  <2>16. Token' = Token /\ Payload' = Payload  BY <1>1, <2>10 DEF Token, Payload
  <2> QED  BY <2>8, <2>15, <2>16
<1> QED  BY <1>2, <1>9, <1>10

LEMMA TokenStep ==
  ASSUME NEW at, NEW os, Sits(at, os), NEW t \in Tokens, SetToken(t), pdu' # pdu => Len(pdu) < 256
  PROVE  \E at2 : /\ Sits(at2, os)' /\ Payload' = Payload
                  /\ Token' = Token \/ Token' = t
                  /\ pdu' # pdu => Token' = t
<1>1. /\ payloadAt = 0 /\ payloadAt' = payloadAt /\ payloadLength' = payloadLength
      /\ numOptions' = numOptions /\ maxAdded' = maxAdded
  BY DEF SetToken
<1>2. /\ pdu \in Seq(Cell) /\ Len(pdu) >= 1 /\ Len(pdu) \in Nat
      /\ FirstOption(pdu) \in Nat /\ FirstOption(pdu) <= Len(pdu) + 1
      /\ Filled(pdu, at, os) /\ Len(os) = numOptions /\ Laid(pdu, at, os)
  BY <1>1, SitsHead
<1>3. \/ pdu' = pdu /\ failed' \in {failed, TRUE}
      \/ /\ pdu' # pdu /\ failed' = failed
         /\ pdu' = IF Len(t) = TokenLength(pdu) THEN Overwrite(pdu, HeaderSize + 1, t)
                                                ELSE Retokened(t)
  <2>1. CASE /\ failed' = failed
             /\ pdu' = IF Len(t) = TokenLength(pdu) THEN Overwrite(pdu, HeaderSize + 1, t)
                                                    ELSE Retokened(t)
    BY <2>1
  <2>2. CASE failed' = TRUE /\ pdu' = pdu
    BY <2>2
  <2>3. CASE failed' = TRUE /\ pdu' = SubSeq(pdu, 1, OldLength)
    <3>1. CASE Len(pdu) < 256
      <4>1. OldLength = Len(pdu)  BY <1>2, <3>1 DEF OldLength
      <4>2. SubSeq(pdu, 1, Len(pdu)) = pdu  BY <1>2, SubSeqFull
      <4> QED  BY <2>3, <4>1, <4>2
    <3>2. CASE ~(Len(pdu) < 256)
      BY <2>3, <3>2
    <3> QED  BY <3>1, <3>2
  <2> QED  BY <2>1, <2>2, <2>3 DEF SetToken
<1>4. TypeOK /\ payloadLength = 0 /\ (~failed => maxAdded = LastNumber(os))
  BY <1>1 DEF Sits
<1>5. PICK version \in {0, 1}, length \in 0 .. 8 : pdu[1] = 64 * version + length
  BY DEF Sits
<1>6. CASE pdu' = pdu /\ failed' \in {failed, TRUE}
  <2>1. TypeOK'  BY <1>1, <1>4, <1>6 DEF TypeOK
  <2>2. at[numOptions] = Len(pdu) + 1  BY <1>2 DEF Filled
  <2>3. ~failed' => maxAdded' = LastNumber(os)  BY <1>1, <1>4, <1>6
  <2>4. Sits(at, os)'  BY <1>1, <1>2, <1>4, <1>5, <1>6, <2>1, <2>2, <2>3 DEF Sits
  <2>5. Token' = Token /\ Payload' = Payload  BY <1>1, <1>6 DEF Token, Payload
  <2> QED  BY <1>6, <2>4, <2>5
<1>7. CASE /\ pdu' # pdu /\ failed' = failed
           /\ pdu' = IF Len(t) = TokenLength(pdu) THEN Overwrite(pdu, HeaderSize + 1, t)
                                                  ELSE Retokened(t)
  <2>1. t \in Seq(Cell) /\ Len(t) <= 8  BY TokensAre
  <2>2. Ready(version, length, t)  BY <1>2, <1>5, <1>7, <2>1 DEF Ready
  <2>3. Shifted(version, length, t, pdu')  BY <1>7, <2>2, TokenBytes
  <2>4. /\ FirstOption(pdu') <= Len(pdu') + 1
        /\ SubSeq(pdu', HeaderSize + 1, HeaderSize + TokenLength(pdu')) = t
        /\ \E at2 : Filled(pdu', at2, os)
    BY <1>2, <2>2, <2>3, TokenTaken
  <2>5. PICK at2 : Filled(pdu', at2, os)  BY <2>4
  <2>6. pdu' \in Seq(Cell) /\ pdu'[1] = 64 * version + Len(t)  BY <2>3 DEF Shifted
  <2>7. \E ver \in {0, 1}, len \in 0 .. 8 : pdu'[1] = 64 * ver + len
    <3> DEFINE k == Len(t)
    <3>1. k \in Nat /\ k <= 8  BY <2>1
    <3> HIDE DEF k
    <3>2. k \in 0 .. 8  BY <3>1
    <3>3. Len(t) \in 0 .. 8  BY <3>2 DEF k
    <3> QED  BY <2>6, <3>3
  <2>8. TypeOK'
    <3>1. Len(pdu') \in Nat  BY <2>6
    <3>2. payloadAt' \in 0 .. Len(pdu') /\ payloadLength' \in 0 .. Len(pdu')  BY <1>1, <1>4, <3>1
    <3> QED  BY <1>1, <1>4, <1>7, <2>6, <3>2 DEF TypeOK
  <2>9. Laid(pdu', at2, os) /\ at2[numOptions'] = Len(pdu') + 1  BY <1>1, <1>2, <2>5 DEF Filled
  <2>10. Sits(at2, os)'  BY <1>1, <1>2, <1>4, <1>7, <2>4, <2>7, <2>8, <2>9 DEF Sits
  <2>11. Token' = t /\ Payload' = Payload  BY <1>1, <2>4 DEF Token, Payload
  <2> QED  BY <2>10, <2>11
<1> QED  BY <1>3, <1>6, <1>7

LEMMA PayloadStep ==
  ASSUME NEW at, NEW os, Sits(at, os), NEW p \in Payloads, SetPayload(p)
  PROVE  /\ Sits(at, os)' /\ Token' = Token
         /\ Payload' = Payload \/ Payload' = p
         /\ pdu' # pdu => Payload' = p
<1>1. payloadAt = 0 /\ numOptions' = numOptions /\ maxAdded' = maxAdded  BY DEF SetPayload
<1>2. \/ /\ p # <<>> /\ pdu' = pdu \o <<Marker>> \o p
         /\ payloadAt' = Len(pdu) + 2 /\ payloadLength' = Len(p) /\ failed' = failed
      \/ /\ failed' = TRUE
         /\ pdu' = pdu /\ payloadAt' = payloadAt /\ payloadLength' = payloadLength
  BY DEF SetPayload
<1>3. /\ pdu \in Seq(Cell) /\ Len(pdu) >= 1 /\ Len(pdu) \in Nat
      /\ FirstOption(pdu) \in Nat /\ FirstOption(pdu) <= Len(pdu) + 1
      /\ Filled(pdu, at, os) /\ Len(os) = numOptions /\ Laid(pdu, at, os)
      /\ at[numOptions] = Len(pdu) + 1
  BY <1>1, SitsHead DEF Filled
<1>4. TypeOK /\ payloadLength = 0 /\ (~failed => maxAdded = LastNumber(os))
  BY <1>1 DEF Sits
<1>5. PICK version \in {0, 1}, length \in 0 .. 8 : pdu[1] = 64 * version + length
  BY DEF Sits
<1>6. CASE /\ failed' = TRUE
           /\ pdu' = pdu /\ payloadAt' = payloadAt /\ payloadLength' = payloadLength
  <2>1. TypeOK'  BY <1>1, <1>4, <1>6 DEF TypeOK
  <2>2. Sits(at, os)'  BY <1>1, <1>3, <1>4, <1>5, <1>6, <2>1 DEF Sits
  <2>3. Token' = Token /\ Payload' = Payload  BY <1>1, <1>6 DEF Token, Payload
  <2> QED  BY <1>6, <2>2, <2>3
<1>7. CASE /\ p # <<>> /\ pdu' = pdu \o <<Marker>> \o p
           /\ payloadAt' = Len(pdu) + 2 /\ payloadLength' = Len(p) /\ failed' = failed
  <2>1. p \in Seq(Cell)  BY PayloadsAre
  <2>2. /\ pdu' \in Seq(Cell) /\ Len(pdu') = Len(pdu) + 1 + Len(p)
        /\ \A i \in 1 .. Len(pdu) : pdu'[i] = pdu[i]
        /\ pdu'[Len(pdu) + 1] = Marker
        /\ SubSeq(pdu', Len(pdu) + 2, Len(pdu) + 2 + Len(p) - 1) = p
    <3>1. Ended(pdu, p, pdu')  BY <1>3, <1>7, <2>1, PayloadBytes
    <3> QED  BY <3>1 DEF Ended
  <2>3. Len(p) \in Nat /\ Len(p) > 0
    <3>1. Len(p) \in Nat /\ Len(p) # 0  BY <1>7, <2>1, EmptySeq
    <3> QED  BY <3>1
  <2> DEFINE N == Len(pdu)  M == Len(pdu')  k == Len(p)
  <2>4. /\ M \in Nat /\ M >= N /\ N + 2 \in 0 .. M /\ k \in 0 .. M /\ N + 2 # 0
        /\ N + 2 = (N + 1) + 1 /\ k = M - (N + 1)
    <3>1. N \in Nat /\ k \in Nat /\ k > 0 /\ M = N + 1 + k  BY <1>3, <2>2, <2>3
    <3> HIDE DEF N, M, k
    <3> QED  BY <3>1
  <2>5. Laid(pdu', at, os)
    <3>1. Len(pdu') >= Len(pdu)  BY <2>4
    <3> QED  BY <1>3, <2>2, <3>1, LaidStill
  <2>6. /\ pdu'[1] = pdu[1] /\ FirstOption(pdu') = FirstOption(pdu)
        /\ SubSeq(pdu', HeaderSize + 1, HeaderSize + TokenLength(pdu'))
             = SubSeq(pdu, HeaderSize + 1, HeaderSize + TokenLength(pdu))
    <3>1. Len(pdu') >= Len(pdu)  BY <2>4
    <3>2. \A i \in 1 .. FirstOption(pdu) - 1 : pdu'[i] = pdu[i]
      <4>1. \A i \in 1 .. FirstOption(pdu) - 1 : i \in 1 .. Len(pdu)  BY <1>3
      <4> QED  BY <2>2, <4>1
    <3> QED  BY <1>3, <2>2, <3>1, <3>2, SameToken
  <2>7. FirstOption(pdu') <= Len(pdu') + 1
    <3> DEFINE F == FirstOption(pdu)
    <3>1. F \in Nat /\ F <= N + 1 /\ FirstOption(pdu') = F /\ N \in Nat  BY <1>3, <2>6
    <3> HIDE DEF F, N, M
    <3>2. F <= M + 1  BY <2>4, <3>1
    <3> QED  BY <3>1, <3>2 DEF M
  <2>8. TypeOK'
    <3>1. payloadAt' \in 0 .. M /\ payloadLength' \in 0 .. M  BY <1>7, <2>4
    <3> QED  BY <1>1, <1>4, <1>7, <2>2, <3>1 DEF TypeOK
  <2>9. /\ payloadAt' # 0
        /\ pdu'[at[numOptions']] = Marker /\ payloadAt' = at[numOptions'] + 1
        /\ payloadLength' = Len(pdu') - at[numOptions'] /\ payloadLength' > 0
    <3>1. at[numOptions'] = N + 1  BY <1>1, <1>3
    <3> QED  BY <1>7, <2>2, <2>3, <2>4, <3>1
  <2>10. \E ver \in {0, 1}, len \in 0 .. 8 : pdu'[1] = 64 * ver + len  BY <1>5, <2>6
  <2>11. ~failed' => maxAdded' = LastNumber(os)  BY <1>1, <1>4, <1>7
  <2>12. Len(os) = numOptions'  BY <1>1, <1>3
  <2> HIDE DEF N, M, k
  <2>13. Sits(at, os)'  BY <2>5, <2>7, <2>8, <2>9, <2>10, <2>11, <2>12 DEF Sits
  <2>14. Token' = Token  BY <2>6 DEF Token
  <2>15. Payload' = p  BY <1>7, <2>2, <2>9 DEF Payload
  <2> QED  BY <2>13, <2>14, <2>15
<1> QED  BY <1>2, <1>6, <1>7

LEMMA EmptyIs ==
  ASSUME NEW x \in {0, 64}, NEW b, b = <<x, 0, 0, 0>>
  PROVE  /\ b \in Seq(Cell) /\ Len(b) = 4 /\ FirstOption(b) = 5 /\ TokenLength(b) = 0
         /\ \E version \in {0, 1}, length \in 0 .. 8 : b[1] = 64 * version + length
         /\ Laid(b, [k \in {0} |-> 5], <<>>)
         /\ SubSeq(b, HeaderSize + 1, HeaderSize + TokenLength(b)) = <<>>
<1>1. b \in Seq(Cell) /\ Len(b) = 4 /\ b[1] = x
  <2>1. x \in Cell /\ 0 \in Cell  BY DEF Cell, Junk
  <2> QED  BY <2>1
<1>2. PICK version \in {0, 1} : x = 64 * version + 0  OBVIOUS
<1>3. 0 \in 0 .. 8  OBVIOUS
<1>4. FirstOption(b) = 5 /\ TokenLength(b) = 0
  <2>1. b[1] = 64 * version + 0  BY <1>1, <1>2
  <2>2. TokenLength(b) = 0 /\ FirstOption(b) = 5 + 0  BY <1>3, <2>1, HeadedIs
  <2> QED  BY <2>2
<1>5. Laid(b, [k \in {0} |-> 5], <<>>)
  <2> DEFINE at == [k \in {0} |-> 5]  os == <<>>
  <2>1. os \in Seq(OptionSet) /\ Len(os) = 0 /\ 1 .. Len(os) = {}  OBVIOUS
  <2>2. at \in [0 .. 0 -> Nat] /\ at[0] = 5  OBVIOUS
  <2> HIDE DEF at, os
  <2>3. \A k \in 1 .. Len(os) :
          LET delta == NumberOf(os, k) - NumberOf(os, k - 1)
              value == os[k].value
          IN /\ delta >= 0 /\ Len(value) <= MaxLength
             /\ at[k] = at[k - 1] + EncodedSize(delta, value)
             /\ HoldsAt(b, at[k - 1], Header(delta, Len(value)) \o value)
    BY <2>1
  <2>4. at \in [0 .. Len(os) -> Nat] /\ at[0] = FirstOption(b)  BY <1>4, <2>1, <2>2
  <2>5. Laid(b, at, os)  BY <2>1, <2>3, <2>4 DEF Laid
  <2> QED  BY <2>5 DEF at, os
<1>6. SubSeq(b, HeaderSize + 1, HeaderSize + TokenLength(b)) = <<>>
  <2>1. HeaderSize + 1 = 5 /\ HeaderSize + TokenLength(b) = 4  BY <1>4 DEF HeaderSize
  <2>2. SubSeq(b, 5, 4) = <<>>
    <3>1. 5 \in Int /\ 4 \in Int /\ 4 < 5  OBVIOUS
    <3> QED  BY <3>1, SubSeqEmpty
  <2> QED  BY <2>1, <2>2
<1>7. \E ver \in {0, 1}, len \in 0 .. 8 : b[1] = 64 * ver + len  BY <1>1, <1>2, <1>3
<1> QED  BY <1>1, <1>4, <1>5, <1>6, <1>7

LEMMA NothingAdded == LastNumber(<<>>) = 0 /\ Len(<<>>) = 0
BY DEF LastNumber, NumberOf

LEMMA InitSits ==
  ASSUME Init
  PROVE  Sits([k \in {0} |-> 5], <<>>) /\ Token = <<>> /\ Payload = <<>>
<1> DEFINE at == [k \in {0} |-> 5]  os == <<>>
<1>1. /\ pdu = <<64, 0, 0, 0>> /\ numOptions = 0 /\ maxAdded = 0
      /\ payloadAt = 0 /\ payloadLength = 0 /\ failed = FALSE
  BY DEF Init
<1>2. /\ pdu \in Seq(Cell) /\ Len(pdu) = 4 /\ FirstOption(pdu) = 5
      /\ \E version \in {0, 1}, length \in 0 .. 8 : pdu[1] = 64 * version + length
      /\ Laid(pdu, at, os)
      /\ SubSeq(pdu, HeaderSize + 1, HeaderSize + TokenLength(pdu)) = <<>>
  <2>1. 64 \in {0, 64}  OBVIOUS
  <2> QED  BY <1>1, <2>1, EmptyIs
<1>3. at[0] = 5 /\ LastNumber(os) = 0 /\ Len(os) = 0  BY NothingAdded
<1> HIDE DEF at, os
<1>4. TypeOK
  <2>1. 0 \in 0 .. Len(pdu)  BY <1>2
  <2>2. 0 \in 0 .. MaxOptions  BY PduAssumption
  <2> QED  BY <1>1, <1>2, <2>1, <2>2 DEF TypeOK
<1>5. at[numOptions] = Len(pdu) + 1 /\ FirstOption(pdu) <= Len(pdu) + 1  BY <1>1, <1>2, <1>3
<1>6. Sits(at, os)  BY <1>1, <1>2, <1>3, <1>4, <1>5 DEF Sits
<1> QED  BY <1>1, <1>2, <1>6 DEF Token, Payload, at, os

LEMMA ResetStep ==
  ASSUME Reset
  PROVE  Sits([k \in {0} |-> 5], <<>>)' /\ Token' = <<>> /\ Payload' = <<>>
<1> DEFINE at == [k \in {0} |-> 5]  os == <<>>
<1>1. /\ pdu' = <<0, 0, 0, 0>> /\ numOptions' = 0 /\ maxAdded' = 0
      /\ payloadAt' = 0 /\ payloadLength' = 0 /\ failed' = FALSE
  BY DEF Reset
<1>2. /\ pdu' \in Seq(Cell) /\ Len(pdu') = 4 /\ FirstOption(pdu') = 5
      /\ \E version \in {0, 1}, length \in 0 .. 8 : pdu'[1] = 64 * version + length
      /\ Laid(pdu', at, os)
      /\ SubSeq(pdu', HeaderSize + 1, HeaderSize + TokenLength(pdu')) = <<>>
  <2>1. 0 \in {0, 64}  OBVIOUS
  <2> QED  BY <1>1, <2>1, EmptyIs
<1>3. at[0] = 5 /\ LastNumber(os) = 0 /\ Len(os) = 0  BY NothingAdded
<1>7. at' = at /\ os' = os  OBVIOUS
<1> HIDE DEF at, os
<1>4. TypeOK'
  <2>1. 0 \in 0 .. Len(pdu')  BY <1>2
  <2>2. 0 \in 0 .. MaxOptions  BY PduAssumption
  <2> QED  BY <1>1, <1>2, <2>1, <2>2 DEF TypeOK
<1>5. at[numOptions'] = Len(pdu') + 1 /\ FirstOption(pdu') <= Len(pdu') + 1
  BY <1>1, <1>2, <1>3
<1>6. Sits(at, os)'  BY <1>1, <1>2, <1>3, <1>4, <1>5, <1>7 DEF Sits
<1> QED  BY <1>1, <1>2, <1>6 DEF Token, Payload, at, os

(* A call leaves the options or takes one more, or drops them all.         *)
LEMMA StepSits ==
  ASSUME CallerStops, NEW at, NEW os, Sits(at, os), [Next]_vars, [TokenInTime]_vars
  PROVE  \E at2, os2 : Sits(at2, os2)'
<1>1. CASE Next
  <2>1. ASSUME NEW n \in Numbers, NEW v \in Values, AddOption(n, v)
        PROVE  \E at2, os2 : Sits(at2, os2)'
    BY <2>1, AddStep
  <2>2. ASSUME NEW t \in Tokens, SetToken(t)
        PROVE  \E at2, os2 : Sits(at2, os2)'
    <3>1. pdu' # pdu => Len(pdu) < 256  BY <2>2 DEF TokenInTime, vars
    <3> QED  BY <2>2, <3>1, TokenStep
  <2>3. ASSUME NEW p \in Payloads, SetPayload(p)
        PROVE  \E at2, os2 : Sits(at2, os2)'
    BY <2>3, PayloadStep
  <2>4. CASE Reset
    BY <2>4, ResetStep
  <2> QED  BY <1>1, <2>1, <2>2, <2>3, <2>4 DEF Next
<1>2. CASE UNCHANGED vars
  <2>1. Sits(at, os)'
    BY <1>2 DEF vars, Sits, TypeOK
  <2> QED  BY <2>1
<1> QED  BY <1>1, <1>2

-----------------------------------------------------------------------------
(* The theorems.                                                           *)

(* For every set of numbers, values, tokens and payloads: as long as no    *)
(* option is added after a call that failed, and no call of setToken()     *)
(* changes a PDU of 256 bytes or more, the options lie behind the token in *)
(* the order of their numbers, each with the delta to the one before it,   *)
(* up to the end of the PDU or to the payload.                             *)
THEOREM OptionsLieInOrder ==
  ASSUME CallerStops
  PROVE  Spec /\ [][TokenInTime]_vars => []PduInv
<1>1. Init => PduInv
  BY InitSits, InvCloses
<1>2. PduInv /\ [Next]_vars /\ [TokenInTime]_vars => PduInv'
  <2> SUFFICES ASSUME PduInv, [Next]_vars, [TokenInTime]_vars  PROVE PduInv'
    OBVIOUS
  <2>1. \E at, os : Sits(at, os)  BY InvOpens
  <2>2. \E at2, os2 : Sits(at2, os2)'  BY <2>1, StepSits
  <2> QED  BY <2>2, InvClosesNext
<1> QED  BY <1>1, <1>2, PTL DEF Spec

LEMMA ReadsBack ==
  ASSUME NEW at, NEW os, Sits(at, os)
  PROVE  ReadBack
<1> SUFFICES ASSUME Version(pdu) = 1
             PROVE  Validate(pdu) = [valid |-> TRUE, options |-> numOptions, payloadAt |-> payloadAt]
  BY DEF ReadBack
<1>1. /\ pdu \in Seq(Cell) /\ FirstOption(pdu) \in Nat /\ FirstOption(pdu) > 0
      /\ FirstOption(pdu) <= Len(pdu) + 1 /\ Len(pdu) >= 4 /\ Len(pdu) \in Nat
      /\ Laid(pdu, at, os) /\ Len(os) = numOptions
  BY SitsHead
<1>2. PICK version \in {0, 1}, length \in 0 .. 8 : pdu[1] = 64 * version + length
  BY DEF Sits
<1>3. TokenLength(pdu) = length /\ Len(pdu) >= 4 + length  BY <1>1, <1>2, HeadIs
<1> DEFINE end == at[numOptions]
<1>4. /\ payloadAt = 0 => end = Len(pdu) + 1
      /\ payloadAt # 0 => /\ pdu[end] = Marker /\ payloadAt = end + 1
                          /\ payloadLength = Len(pdu) - end /\ payloadLength > 0
  BY DEF Sits
<1>5. end \in Nat /\ end = at[Len(os)]
  <2>1. Len(os) \in 0 .. Len(os)  BY <1>1 DEF Laid
  <2> QED  BY <1>1, <2>1, LaidRange
<1> HIDE DEF end
<1>6. end = Len(pdu) + 1 \/ (end < Len(pdu) /\ pdu[end] = Marker)
  <2>1. CASE payloadAt = 0  BY <1>4, <2>1
  <2>2. CASE payloadAt # 0
    <3>1. Len(pdu) - end > 0 /\ pdu[end] = Marker  BY <1>4, <2>2
    <3>2. end < Len(pdu)  BY <1>1, <1>5, <3>1
    <3> QED  BY <3>1, <3>2
  <2> QED  BY <2>1, <2>2
<1>7. payloadAt = IF end = Len(pdu) + 1 THEN 0 ELSE end + 1
  <2>1. CASE payloadAt = 0  BY <1>4, <2>1
  <2>2. CASE payloadAt # 0
    <3>1. Len(pdu) - end > 0 /\ payloadAt = end + 1  BY <1>4, <2>2
    <3>2. end # Len(pdu) + 1  BY <1>1, <1>5, <3>1
    <3> QED  BY <3>1, <3>2
  <2> QED  BY <2>1, <2>2
<1>8. Len(pdu) >= HeaderSize /\ HeaderSize + TokenLength(pdu) <= Len(pdu)
      /\ TokenLength(pdu) \in 0 .. 8
  BY <1>1, <1>3 DEF HeaderSize
<1>9. Validate(pdu) = [valid |-> TRUE, options |-> Len(os),
                       payloadAt |-> IF end = Len(pdu) + 1 THEN 0 ELSE end + 1]
  BY <1>1, <1>5, <1>6, <1>8, ValidateIs
<1> QED  BY <1>1, <1>7, <1>9

(* What one CoapPDU has built under these conditions another validates: it *)
(* finds as many options and the same payload.                             *)
THEOREM BuiltIsReadBack ==
  ASSUME CallerStops
  PROVE  Spec /\ [][TokenInTime]_vars => []ReadBack
<1>1. PduInv => ReadBack
  BY InvOpens, ReadsBack
<1> QED  BY <1>1, OptionsLieInOrder, PTL

(* And the counters stay what they are: no option is counted that is not   *)
(* there, and no payload is longer than the PDU.                           *)
THEOREM PduTypes ==
  ASSUME CallerStops
  PROVE  Spec /\ [][TokenInTime]_vars => []TypeOK
<1>1. PduInv => TypeOK
  BY DEF PduInv
<1> QED  BY <1>1, OptionsLieInOrder, PTL

-----------------------------------------------------------------------------
(* The abstract message.                                                   *)

LEMMA BeforeIs ==
  ASSUME NEW b \in Seq(Cell), NEW at, NEW os, Laid(b, at, os), NEW n \in Nat,
         NEW j, Between(os, j, n)
  PROVE  Cardinality({i \in DOMAIN os : os[i].number <= n}) = j
<1> DEFINE m == Len(os)  S == {i \in DOMAIN os : os[i].number <= n}
<1>1. os \in Seq(OptionSet) /\ m \in Nat /\ DOMAIN os = 1 .. m  BY DEF Laid
<1>2. /\ j \in 0 .. m /\ NumberOf(os, j) <= n
      /\ j < m => n < NumberOf(os, j + 1)
  BY DEF Between
<1>3. j \in Nat  BY <1>1, <1>2
<1>4. \A i \in 1 .. m : NumberOf(os, i) = os[i].number /\ NumberOf(os, i) \in Nat
  BY LaidNumbers
<1> HIDE DEF m
<1>5. \A k \in 0 .. m : \A i \in 0 .. k : NumberOf(os, i) <= NumberOf(os, k)
  BY LaidGrows DEF m
<1>6. ASSUME NEW i \in 1 .. m  PROVE os[i].number <= n <=> i \in 1 .. j
  <2> DEFINE x == NumberOf(os, i)
  <2>1. x = os[i].number /\ x \in Nat  BY <1>4
  <2>2. CASE i <= j
    <3>1. i \in 0 .. j /\ i \in 1 .. j  BY <1>3, <2>2
    <3> DEFINE y == NumberOf(os, j)
    <3>2. x <= y  BY <1>2, <1>5, <3>1
    <3>3. y \in Nat
      <4>1. j \in 0 .. Len(os)  BY <1>2 DEF m
      <4> QED  BY <1>1, <4>1, NumberIs
    <3>4. y <= n  BY <1>2
    <3> HIDE DEF x, y
    <3>5. x <= n  BY <2>1, <3>2, <3>3, <3>4
    <3> QED  BY <2>1, <3>1, <3>5
  <2>3. CASE ~ (i <= j)
    <3>1. j < m /\ j + 1 \in 0 .. i /\ i \in 0 .. m /\ j + 1 \in 1 .. m /\ ~ (i \in 1 .. j)
      BY <1>1, <1>3, <2>3
    <3> DEFINE y == NumberOf(os, j + 1)
    <3>2. y <= x  BY <1>5, <3>1
    <3>3. y \in Nat  BY <1>4, <3>1
    <3>4. n < y  BY <1>2, <3>1
    <3> HIDE DEF x, y
    <3>5. ~ (x <= n)  BY <2>1, <3>2, <3>3, <3>4
    <3> QED  BY <2>1, <3>1, <3>5
  <2> QED  BY <2>2, <2>3
<1>7. S = 1 .. j
  <2>1. 1 .. j \subseteq 1 .. m  BY <1>1, <1>2
  <2> QED  BY <1>1, <1>6, <2>1
<1>8. Cardinality(1 .. j) = j
  <2>1. 1 \in Int /\ j \in Int  BY <1>3
  <2>2. Cardinality(1 .. j) = IF 1 > j THEN 0 ELSE j - 1 + 1  BY <2>1, FS_Interval
  <2>3. j = 0 \/ j >= 1  BY <1>3
  <2> QED  BY <1>3, <2>2, <2>3
<1> QED  BY <1>7, <1>8

LEMMA MessageOptions ==
  ASSUME NEW os, NEW os2, NEW n, NEW v, os2 = os \/ OneMore(os, os2, n, v), Len(v) < 269,
         NEW b \in Seq(Cell), NEW at, Laid(b, at, os), n \in Nat
  PROVE  os2 = os \/ os2 = InsertAt(os, Cardinality({i \in DOMAIN os : os[i].number <= n}) + 1,
                                    [number |-> n, value |-> v])
<1> SUFFICES ASSUME OneMore(os, os2, n, v)
             PROVE  os2 = InsertAt(os, Cardinality({i \in DOMAIN os : os[i].number <= n}) + 1,
                                   [number |-> n, value |-> v])
  OBVIOUS
<1>1. PICK j \in 0 .. Len(os), w \in Seq(Cell) :
             /\ Between(os, j, n) /\ Kept(w, v)
             /\ os2 = InsertAt(os, j + 1, [number |-> n, value |-> w])
  BY DEF OneMore
<1>2. w = v  BY <1>1 DEF Kept
<1>3. Cardinality({i \in DOMAIN os : os[i].number <= n}) = j  BY <1>1, BeforeIs
<1> QED  BY <1>1, <1>2, <1>3

(* The steps of CoapMessage, on the token, the options and the payload.    *)
Messages(os, os2) ==
  \/ \E n \in Numbers, v \in Values :
       /\ os2 = InsertAt(os, Cardinality({i \in DOMAIN os : os[i].number <= n}) + 1,
                         [number |-> n, value |-> v])
       /\ Token' = Token /\ Payload' = Payload
  \/ \E t \in Tokens : Token' = t /\ os2 = os /\ Payload' = Payload
  \/ \E p \in Payloads : Payload' = p /\ Token' = Token /\ os2 = os
  \/ Token' = <<>> /\ os2 = <<>> /\ Payload' = <<>>
  \/ Token' = Token /\ os2 = os /\ Payload' = Payload

LEMMA StepMessages ==
  ASSUME CallerStops, \A v \in Values : Len(v) < 269,
         NEW at, NEW os, Sits(at, os), [Next]_vars, [TokenInTime]_vars
  PROVE  \E at2, os2 : Sits(at2, os2)' /\ Messages(os, os2)
<1>1. CASE Next
  <2>1. ASSUME NEW n \in Numbers, NEW v \in Values, AddOption(n, v)
        PROVE  \E at2, os2 : Sits(at2, os2)' /\ Messages(os, os2)
    <3>1. PICK at2, os2 : /\ Sits(at2, os2)'
                          /\ Token' = Token /\ Payload' = Payload
                          /\ os2 = os \/ OneMore(os, os2, n, v)
      BY <2>1, AddStep
    <3>2. pdu \in Seq(Cell) /\ Laid(pdu, at, os) /\ Len(v) < 269 /\ n \in Nat
      BY SitsHead, NumbersAre, SizedIs
    <3>3. os2 = os \/ os2 = InsertAt(os, Cardinality({i \in DOMAIN os : os[i].number <= n}) + 1,
                                     [number |-> n, value |-> v])
      BY <3>1, <3>2, MessageOptions
    <3>4. Messages(os, os2)  BY <3>1, <3>3 DEF Messages
    <3> QED  BY <3>1, <3>4
  <2>2. ASSUME NEW t \in Tokens, SetToken(t)
        PROVE  \E at2, os2 : Sits(at2, os2)' /\ Messages(os, os2)
    <3>1. pdu' # pdu => Len(pdu) < 256  BY <2>2 DEF TokenInTime, vars
    <3>2. PICK at2 : Sits(at2, os)' /\ Payload' = Payload /\ (Token' = Token \/ Token' = t)
      BY <2>2, <3>1, TokenStep
    <3>3. Messages(os, os)  BY <3>2 DEF Messages
    <3> QED  BY <3>2, <3>3
  <2>3. ASSUME NEW p \in Payloads, SetPayload(p)
        PROVE  \E at2, os2 : Sits(at2, os2)' /\ Messages(os, os2)
    <3>1. Sits(at, os)' /\ Token' = Token /\ (Payload' = Payload \/ Payload' = p)
      BY <2>3, PayloadStep
    <3>2. Messages(os, os)  BY <3>1 DEF Messages
    <3> QED  BY <3>1, <3>2
  <2>4. CASE Reset
    <3>1. Sits([k \in {0} |-> 5], <<>>)' /\ Messages(os, <<>>)  BY <2>4, ResetStep DEF Messages
    <3> QED  BY <3>1
  <2> QED  BY <1>1, <2>1, <2>2, <2>3, <2>4 DEF Next
<1>2. CASE UNCHANGED vars
  <2>1. Sits(at, os)'
    BY <1>2 DEF vars, Sits, TypeOK
  <2>2. Messages(os, os)  BY <1>2 DEF vars, Messages, Token, Payload
  <2> QED  BY <2>1, <2>2
<1> QED  BY <1>1, <1>2

(* The operators of the instance are those of the library.                 *)
LEMMA SameInsertAt ==
  ASSUME NEW s, NEW i, NEW e
  PROVE  Message!InsertAt(s, i, e) = InsertAt(s, i, e)
BY DEF InsertAt, Message!InsertAt

LEMMA SameCardinality ==
  ASSUME NEW S
  PROVE  Message!Cardinality(S) = Cardinality(S)
BY DEF Cardinality, Message!Cardinality, IsFiniteSet, Message!IsFiniteSet

(* Every call that succeeds is the step of CoapMessage with its arguments. *)
LEMMA CallsAreKept ==
  ASSUME CallerStops, \A v \in Values : Len(v) < 269,
         PduInv, [TokenInTime]_vars
  PROVE  CallsKept
<1> DEFINE opts == Options(pdu, numOptions)
<1>1. PICK at, os : Sits(at, os) /\ os = opts  BY InvOpens
<1>2. \A at2, os2 : Sits(at2, os2)' => opts' = os2  BY InvClosesNext
<1>3. \A at2, os2 : Sits(at2, os2)' => Len(os2) = numOptions'  BY DEF Sits
<1>4. pdu \in Seq(Cell) /\ Laid(pdu, at, os) /\ Len(os) = numOptions
  BY <1>1, SitsHead
<1> HIDE DEF opts
<1>5. ASSUME NEW n \in Numbers, NEW v \in Values, AddOption(n, v), numOptions' # numOptions
      PROVE  Message!AddOption(n, v)
  <2>1. PICK at2, os2 : /\ Sits(at2, os2)'
                        /\ Token' = Token /\ Payload' = Payload
                        /\ os2 = os \/ OneMore(os, os2, n, v)
    BY <1>1, <1>5, AddStep
  <2>2. opts' = os2 /\ os2 # os
    <3>1. opts' = os2  BY <1>2, <2>1
    <3>2. Len(os2) = numOptions'  BY <1>3, <2>1
    <3> QED  BY <1>4, <1>5, <3>1, <3>2
  <2>3. Len(v) < 269 /\ n \in Nat  BY NumbersAre, SizedIs
  <2> DEFINE before == {i \in DOMAIN os : os[i].number <= n}
  <2>4. opts' = InsertAt(os, Cardinality(before) + 1, [number |-> n, value |-> v])
    BY <1>4, <2>1, <2>2, <2>3, MessageOptions
  <2>5. opts' = Message!InsertAt(os, Message!Cardinality(before) + 1, [number |-> n, value |-> v])
    BY <2>4, SameInsertAt, SameCardinality
  <2> QED  BY <1>1, <2>1, <2>5 DEF Message!AddOption, Payload, opts
<1>6. ASSUME NEW t \in Tokens, SetToken(t), pdu' # pdu
      PROVE  Message!SetToken(t)
  <2>1. Len(pdu) < 256  BY <1>6 DEF TokenInTime, vars
  <2>2. PICK at2 : Sits(at2, os)' /\ Payload' = Payload /\ Token' = t
    BY <1>1, <1>6, <2>1, TokenStep
  <2>3. opts' = opts  BY <1>1, <1>2, <2>2
  <2> QED  BY <2>2, <2>3 DEF Message!SetToken, Payload, opts
<1>7. ASSUME NEW p \in Payloads, SetPayload(p), pdu' # pdu
      PROVE  Message!SetPayload(p)
  <2>1. PICK at2 : Sits(at2, os)' /\ Token' = Token /\ Payload' = p
    BY <1>1, <1>7, PayloadStep
  <2>2. opts' = opts  BY <1>1, <1>2, <2>1
  <2> QED  BY <2>1, <2>2 DEF Message!SetPayload, Payload, opts
<1>8. ASSUME Reset  PROVE Message!Reset
  <2>1. Sits([k \in {0} |-> 5], <<>>)' /\ Token' = <<>> /\ Payload' = <<>>
    BY <1>8, ResetStep
  <2>2. opts' = <<>>  BY <1>2, <2>1
  <2> QED  BY <2>1, <2>2 DEF Message!Reset, Payload, opts
<1> QED  BY <1>5, <1>6, <1>7, <1>8 DEF CallsKept

(* When no value has 269 bytes or more, the class keeps the promises of    *)
(* CoapMessage, each call that succeeds the one with its own arguments:    *)
(* each option is found behind all those whose number is not greater, with *)
(* its own number and value, and token and payload are those that were set *)
(* last.                                                                   *)
THEOREM PduHoldsMessage ==
  ASSUME CallerStops, \A v \in Values : Len(v) < 269
  PROVE  Spec /\ [][TokenInTime]_vars => HoldsMessage
<1> DEFINE opts == Options(pdu, numOptions)
<1>1. Init => Message!Init
  <2> SUFFICES ASSUME Init  PROVE Message!Init
    OBVIOUS
  <2>1. Sits([k \in {0} |-> 5], <<>>) /\ Token = <<>> /\ Payload = <<>>  BY InitSits
  <2>2. opts = <<>>  BY <2>1, InvCloses
  <2> QED  BY <2>1, <2>2 DEF Message!Init, Payload
<1>2. PduInv /\ [Next]_vars /\ [TokenInTime]_vars => [Message!Next]_(Message!vars)
  <2> SUFFICES ASSUME PduInv, [Next]_vars, [TokenInTime]_vars
               PROVE  [Message!Next]_(Message!vars)
    OBVIOUS
  <2>1. Sits(Places(pdu, numOptions), opts)  BY InvOpens
  <2>2. PICK at2, os2 : Sits(at2, os2)' /\ Messages(opts, os2)  BY <2>1, StepMessages
  <2>3. opts' = os2  BY <2>2, InvClosesNext
  <2>4. Messages(opts, opts')  BY <2>2, <2>3
  <2>5. CASE \E n \in Numbers, v \in Values :
               /\ opts' = InsertAt(opts, Cardinality({i \in DOMAIN opts : opts[i].number <= n}) + 1,
                                   [number |-> n, value |-> v])
               /\ Token' = Token /\ Payload' = Payload
    <3>1. PICK n \in Numbers, v \in Values :
               /\ opts' = InsertAt(opts, Cardinality({i \in DOMAIN opts : opts[i].number <= n}) + 1,
                                   [number |-> n, value |-> v])
               /\ Token' = Token /\ Payload' = Payload
      BY <2>5
    <3> DEFINE before == {i \in DOMAIN opts : opts[i].number <= n}
    <3>2. opts' = Message!InsertAt(opts, Message!Cardinality(before) + 1,
                                   [number |-> n, value |-> v])
      BY <3>1, SameInsertAt, SameCardinality
    <3>3. Message!AddOption(n, v)  BY <3>1, <3>2 DEF Message!AddOption, Payload
    <3> QED  BY <3>3 DEF Message!Next
  <2>6. CASE \E t \in Tokens : Token' = t /\ opts' = opts /\ Payload' = Payload
    BY <2>6 DEF Message!Next, Message!SetToken, Payload
  <2>7. CASE \E p \in Payloads : Payload' = p /\ Token' = Token /\ opts' = opts
    BY <2>7 DEF Message!Next, Message!SetPayload, Payload
  <2>8. CASE Token' = <<>> /\ opts' = <<>> /\ Payload' = <<>>
    BY <2>8 DEF Message!Next, Message!Reset, Payload
  <2>9. CASE Token' = Token /\ opts' = opts /\ Payload' = Payload
    BY <2>9 DEF Message!vars, Payload
  <2> QED  BY <2>4, <2>5, <2>6, <2>7, <2>8, <2>9 DEF Messages
<1>3. PduInv /\ [Next]_vars /\ [TokenInTime]_vars => [CallsKept]_vars
  BY CallsAreKept
<1> QED  BY <1>1, <1>2, <1>3, OptionsLieInOrder, PTL DEF Spec, HoldsMessage, Message!Spec

-----------------------------------------------------------------------------
(* URIs: setURI() and getURI().                                             *)

(* A set of numbers has a least one.                                       *)
LEMMA MinIs ==
  ASSUME NEW S \in SUBSET Nat, S # {}
  PROVE  Min(S) \in S /\ \A y \in S : Min(S) <= y
<1>1. PICK x \in S : \A y \in S : <<y, x>> \notin OpToRel(<, Nat)
  BY WFMin, NatLessThanWellFounded, Zenon
<1>2. \A y \in S : x <= y
  <2> SUFFICES ASSUME NEW y \in S  PROVE x <= y
    OBVIOUS
  <2>1. x \in Nat /\ y \in Nat  OBVIOUS
  <2>2. ~ (y < x)  BY <1>1, <2>1 DEF OpToRel
  <2> QED  BY <2>1, <2>2
<1> QED  BY <1>2, Zenon DEF Min

-----------------------------------------------------------------------------
(* A loop of n rounds, of which step[<<k, x>>] makes x what the k-th round *)
(* leaves, has a state before and after each.                              *)
Rounds(at, n, first, step) ==
  at[0] = first /\ \A k \in 1 .. n : at[k] = step[<<k, at[k - 1]>>]

LEMMA RoundsExist ==
  ASSUME NEW S, NEW n \in Nat, NEW first \in S, NEW step \in [(1 .. n) \X S -> S]
  PROVE  \E at \in [0 .. n -> S] : Rounds(at, n, first, step)
<1> DEFINE E(m) == \E at \in [0 .. m -> S] : Rounds(at, m, first, step)
<1>1. E(0)
  <2> DEFINE a == [k \in 0 .. 0 |-> first]
  <2>1. a \in [0 .. 0 -> S] /\ Rounds(a, 0, first, step)  BY DEF Rounds
  <2> QED  BY <2>1
<1>2. ASSUME NEW m \in Nat, m + 1 <= n, E(m)  PROVE E(m + 1)
  <2>1. PICK at \in [0 .. m -> S] : Rounds(at, m, first, step)  BY <1>2
  <2> DEFINE b == [k \in 0 .. m + 1 |-> IF k = m + 1 THEN step[<<k, at[m]>>] ELSE at[k]]
  <2>2. at[m] \in S /\ m + 1 \in 1 .. n  BY <1>2
  <2>3. step[<<m + 1, at[m]>>] \in S  BY <2>2
  <2>4. b \in [0 .. m + 1 -> S]  BY <2>3
  <2>5. b[m + 1] = step[<<m + 1, at[m]>>] /\ \A k \in 0 .. m : b[k] = at[k]  OBVIOUS
  <2> HIDE DEF b
  <2>6. b[0] = first  BY <2>1, <2>5 DEF Rounds
  <2>7. \A k \in 1 .. m + 1 : b[k] = step[<<k, b[k - 1]>>]
    <3> SUFFICES ASSUME NEW k \in 1 .. m + 1  PROVE b[k] = step[<<k, b[k - 1]>>]
      OBVIOUS
    <3>1. CASE k = m + 1
      <4>1. k - 1 = m /\ m \in 0 .. m  BY <3>1
      <4> QED  BY <2>5, <3>1, <4>1
    <3>2. CASE k # m + 1
      <4>1. k \in 1 .. m /\ k \in 0 .. m /\ k - 1 \in 0 .. m  BY <3>2
      <4> QED  BY <2>1, <2>5, <4>1 DEF Rounds
    <3> QED  BY <3>1, <3>2
  <2> QED  BY <2>4, <2>6, <2>7 DEF Rounds
<1> HIDE DEF E
<1>3. E(n)
  <2> DEFINE T == {m \in Nat : m <= n => E(m)}
  <2>1. 0 \in T  BY <1>1
  <2>2. \A m \in Nat : m \in T => m + 1 \in T  BY <1>2
  <2>3. n \in T
    <3> HIDE DEF T
    <3> QED  BY <2>1, <2>2, SetInduction
  <2> QED  BY <2>3
<1> QED  BY <1>3 DEF E

-----------------------------------------------------------------------------
Types == {"Path", "Query"}

UriOptionSet == [type : Types, value : Seq(Char)]

LEMMA Buffer == DstLen \in Nat /\ DstLen >= 2
BY UriAssumption

LEMMA SeparatorIs ==
  ASSUME NEW type \in Types
  PROVE  Separator(type) \in Char
BY UriAssumption DEF Separator, Types

-----------------------------------------------------------------------------
(* setURI().                                                               *)

(* What its loop keeps between two rounds.                                 *)
Walks == [at : Nat \ {0}, type : Types, options : Seq(UriOptionSet)]

FirstWalk == [at |-> 1, type |-> "Path", options |-> <<>>]

UriStart(text, s) == IF text[s.at] = Separator(s.type) THEN s.at + 1 ELSE s.at

(* Where the option that begins at `start` ends.                           *)
End(text, type, start) ==
  IF Splits(text, Separator(type), start) # {} THEN Min(Splits(text, Separator(type), start))
  ELSE IF Splits(text, "?", start) # {} THEN Min(Splits(text, "?", start)) ELSE Len(text) + 1

Triggered(text, type, start) ==
  Splits(text, Separator(type), start) = {} /\ Splits(text, "?", start) # {}

LEMMA SegmentIs ==
  ASSUME NEW text, NEW s
  PROVE  LET start == UriStart(text, s)
             end   == End(text, s.type, start)
             query == Triggered(text, s.type, start)
         IN /\ Segment(text, s).at = IF query THEN end + 1 ELSE end
            /\ Segment(text, s).type = IF query THEN "Query" ELSE s.type
            /\ Segment(text, s).options
                 = Append(s.options, Option(s.type, SubSeq(text, start, end - 1)))
            /\ Segment(text, s) = [at |-> Segment(text, s).at, type |-> Segment(text, s).type,
                                   options |-> Segment(text, s).options]
BY DEF Segment, UriStart, End, Triggered, NextType

(* An option ends behind its beginning, at a character that is looked for, *)
(* or behind the last one.                                                 *)
LEMMA EndIs ==
  ASSUME NEW text \in Seq(Char), NEW type \in Types, NEW start \in Nat \ {0},
         start <= Len(text)
  PROVE  LET end == End(text, type, start)
         IN /\ end \in start .. Len(text) + 1
            /\ end <= Len(text) => text[end] \in {Separator(type), "?"}
            /\ Triggered(text, type, start) => end <= Len(text) /\ text[end] = "?"
            /\ ~Triggered(text, type, start) /\ end <= Len(text) => text[end] = Separator(type)
            /\ end > Len(text) => \A i \in start .. Len(text) : text[i] # "?"
<1> DEFINE splits == Splits(text, Separator(type), start)
           marks  == Splits(text, "?", start)
<1>1. Len(text) \in Nat /\ splits \subseteq start .. Len(text) /\ marks \subseteq start .. Len(text)
      /\ (\A i \in splits : text[i] = Separator(type)) /\ (\A i \in marks : text[i] = "?")
      /\ \A i \in start .. Len(text) : text[i] = "?" => i \in marks
  BY DEF Splits
<1>2. End(text, type, start) = IF splits # {} THEN Min(splits)
                               ELSE IF marks # {} THEN Min(marks) ELSE Len(text) + 1
  BY DEF End
<1>3. Triggered(text, type, start) <=> splits = {} /\ marks # {}  BY DEF Triggered
<1> HIDE DEF splits, marks
<1>4. splits # {} => Min(splits) \in splits
  <2>1. splits \in SUBSET Nat  BY <1>1
  <2> QED  BY <2>1, MinIs
<1>5. marks # {} => Min(marks) \in marks
  <2>1. marks \in SUBSET Nat  BY <1>1
  <2> QED  BY <2>1, MinIs
<1> DEFINE end == End(text, type, start)
           query == Triggered(text, type, start)
<1>6. /\ end \in start .. Len(text) + 1
      /\ end <= Len(text) => text[end] \in {Separator(type), "?"}
      /\ query => end <= Len(text) /\ text[end] = "?"
      /\ ~query /\ end <= Len(text) => text[end] = Separator(type)
      /\ end > Len(text) => \A i \in start .. Len(text) : text[i] # "?"
  <2>1. CASE splits # {}
    <3>1. end \in splits /\ ~query  BY <1>2, <1>3, <1>4, <2>1
    <3>2. end \in start .. Len(text) /\ text[end] = Separator(type)  BY <1>1, <3>1
    <3> HIDE DEF end, query
    <3> QED  BY <1>1, <3>1, <3>2
  <2>2. CASE splits = {} /\ marks # {}
    <3>1. end \in marks /\ query  BY <1>2, <1>3, <1>5, <2>2
    <3>2. end \in start .. Len(text) /\ text[end] = "?"  BY <1>1, <3>1
    <3> HIDE DEF end, query
    <3> QED  BY <1>1, <3>1, <3>2
  <2>3. CASE splits = {} /\ marks = {}
    <3>1. end = Len(text) + 1 /\ ~query  BY <1>2, <1>3, <2>3
    <3>2. \A i \in start .. Len(text) : text[i] # "?"  BY <1>1, <2>3
    <3> HIDE DEF end, query
    <3> QED  BY <1>1, <3>1, <3>2
  <2> QED  BY <2>1, <2>2, <2>3
<1> QED  BY <1>6

LEMMA StartIs ==
  ASSUME NEW text \in Seq(Char), NEW s \in Walks, s.at < Len(text)
  PROVE  /\ UriStart(text, s) \in Nat \ {0} /\ UriStart(text, s) <= Len(text)
         /\ UriStart(text, s) \in {s.at, s.at + 1}
         /\ UriStart(text, s) = s.at => text[s.at] # Separator(s.type)
<1>1. s.at \in Nat \ {0} /\ Len(text) \in Nat  BY DEF Walks
<1> QED  BY <1>1 DEF UriStart

(* A round goes ahead, and adds an option.                                 *)
LEMMA SegmentAdvances ==
  ASSUME NEW text \in Seq(Char), NEW s \in Walks, s.at < Len(text)
  PROVE  /\ Segment(text, s) \in Walks
         /\ Segment(text, s).at > s.at
         /\ Segment(text, s).options # <<>>
<1> DEFINE start == UriStart(text, s)
           end   == End(text, s.type, start)
           query == Triggered(text, s.type, start)
           value == SubSeq(text, start, end - 1)
<1>1. s.at \in Nat \ {0} /\ s.type \in Types /\ s.options \in Seq(UriOptionSet) /\ Len(text) \in Nat
  BY DEF Walks
<1>2. start \in Nat \ {0} /\ start <= Len(text) /\ start \in {s.at, s.at + 1}
      /\ (start = s.at => text[s.at] # Separator(s.type))
  BY StartIs
<1>3. /\ end \in start .. Len(text) + 1
      /\ query => end <= Len(text) /\ text[end] = "?"
      /\ ~query /\ end <= Len(text) => text[end] = Separator(s.type)
  BY <1>1, <1>2, EndIs
<1>4. /\ Segment(text, s).at = IF query THEN end + 1 ELSE end
      /\ Segment(text, s).type = IF query THEN "Query" ELSE s.type
      /\ Segment(text, s).options = Append(s.options, Option(s.type, value))
      /\ Segment(text, s) = [at |-> Segment(text, s).at, type |-> Segment(text, s).type,
                             options |-> Segment(text, s).options]
  BY SegmentIs
<1>5. Option(s.type, value) \in UriOptionSet
  <2>1. \A i \in start .. end - 1 : text[i] \in Char  BY <1>1, <1>2, <1>3
  <2>2. start \in Int /\ end - 1 \in Int  BY <1>2, <1>3
  <2>3. value \in Seq(Char)  BY <2>1, <2>2, SubSeqProperties
  <2> QED  BY <1>1, <2>3 DEF Option, UriOptionSet
<1> HIDE DEF start, end, query, value
<1>6. /\ Append(s.options, Option(s.type, value)) \in Seq(UriOptionSet)
      /\ Append(s.options, Option(s.type, value)) # <<>>
  BY <1>1, <1>5, AppendProperties
<1>7. Segment(text, s).at \in Nat \ {0}  BY <1>2, <1>3, <1>4
<1>8. Segment(text, s).type \in Types  BY <1>1, <1>4 DEF Types
<1>9. Segment(text, s).at > s.at
  <2>1. CASE query  BY <1>1, <1>2, <1>3, <1>4, <2>1
  <2>2. CASE ~query
    <3>1. end # s.at  BY <1>1, <1>2, <1>3, <2>2
    <3> QED  BY <1>1, <1>2, <1>3, <1>4, <2>2, <3>1
  <2> QED  BY <2>1, <2>2
<1>10. Segment(text, s) \in Walks  BY <1>4, <1>6, <1>7, <1>8 DEF Walks
<1> QED  BY <1>4, <1>6, <1>9, <1>10

(* The loop: before and after each of its rounds.                          *)
SplitWalk(walk, text) ==
  /\ walk \in [0 .. Len(text) -> Walks]
  /\ walk[0] = FirstWalk
  /\ \A k \in 1 .. Len(text) :
       walk[k] = IF walk[k - 1].at >= Len(text) THEN walk[k - 1] ELSE Segment(text, walk[k - 1])

LEMMA FirstWalkIs == FirstWalk \in Walks
<1>1. <<>> \in Seq(UriOptionSet)  OBVIOUS
<1> QED  BY <1>1 DEF FirstWalk, Walks, Types

LEMMA SplitIs ==
  ASSUME NEW text \in Seq(Char)
  PROVE  \E walk : SplitWalk(walk, text) /\ Split(text) = walk[Len(text)].options
<1> DEFINE n == Len(text)
           step == [kx \in (1 .. n) \X Walks |->
                      IF kx[2].at >= n THEN kx[2] ELSE Segment(text, kx[2])]
           Rec(g) == g = [k \in 0 .. n |->
                            IF k = 0 THEN [at |-> 1, type |-> "Path", options |-> <<>>]
                            ELSE IF g[k - 1].at >= n THEN g[k - 1] ELSE Segment(text, g[k - 1])]
           walk == CHOOSE g : Rec(g)
<1>1. n \in Nat  OBVIOUS
<1>2. Split(text) = walk[n].options  BY Zenon DEF Split
<1>3. step \in [(1 .. n) \X Walks -> Walks]
  <2>1. ASSUME NEW x \in Walks  PROVE (IF x.at >= n THEN x ELSE Segment(text, x)) \in Walks
    <3>1. x.at \in Nat  BY DEF Walks
    <3>2. CASE x.at >= n  BY <3>2
    <3>3. CASE ~(x.at >= n)
      <4>1. x.at < Len(text)  BY <1>1, <3>1, <3>3
      <4> QED  BY <3>3, <4>1, SegmentAdvances
    <3> QED  BY <3>2, <3>3
  <2> QED  BY <2>1
<1>4. \A k \in 1 .. n, x \in Walks : step[<<k, x>>] = IF x.at >= n THEN x ELSE Segment(text, x)
  OBVIOUS
<1> HIDE DEF step
<1>5. PICK at \in [0 .. n -> Walks] : Rounds(at, n, FirstWalk, step)
  BY <1>1, <1>3, FirstWalkIs, RoundsExist
<1>6. at[0] = FirstWalk  BY <1>5 DEF Rounds
<1>7. \A k \in 1 .. n : at[k] = IF at[k - 1].at >= n THEN at[k - 1] ELSE Segment(text, at[k - 1])
  <2> SUFFICES ASSUME NEW k \in 1 .. n
               PROVE  at[k] = IF at[k - 1].at >= n THEN at[k - 1] ELSE Segment(text, at[k - 1])
    OBVIOUS
  <2>1. at[k - 1] \in Walks  BY <1>1
  <2> QED  BY <1>4, <1>5, <2>1 DEF Rounds
<1>8. Rec(at)
  <2>1. ASSUME NEW k \in 0 .. n
        PROVE  at[k] = IF k = 0 THEN [at |-> 1, type |-> "Path", options |-> <<>>]
                       ELSE IF at[k - 1].at >= n THEN at[k - 1] ELSE Segment(text, at[k - 1])
    <3>1. CASE k = 0  BY <1>6, <3>1 DEF FirstWalk
    <3>2. CASE k # 0
      <4>1. k \in 1 .. n  BY <1>1, <3>2
      <4> QED  BY <1>7, <3>2, <4>1
    <3> QED  BY <3>1, <3>2
  <2>2. at = [k \in 0 .. n |-> at[k]]  OBVIOUS
  <2> QED  BY <2>1, <2>2
<1>9. Rec(walk)  BY <1>8
<1> HIDE DEF walk
<1>10. walk[0] = FirstWalk  BY <1>1, <1>9 DEF FirstWalk
<1>11. \A k \in 1 .. n : walk[k] = IF walk[k - 1].at >= n THEN walk[k - 1] ELSE Segment(text, walk[k - 1])
  <2> SUFFICES ASSUME NEW k \in 1 .. n
               PROVE  walk[k] = IF walk[k - 1].at >= n THEN walk[k - 1] ELSE Segment(text, walk[k - 1])
    OBVIOUS
  <2>1. k \in 0 .. n /\ k # 0  BY <1>1
  <2> QED  BY <1>9, <2>1, Zenon
<1>12. walk \in [0 .. n -> Walks]
  <2> DEFINE S == {k \in 0 .. n : walk[k] \in Walks}
  <2>1. 0 \in S  BY <1>1, <1>10, FirstWalkIs
  <2>2. ASSUME NEW k \in 1 .. n, k - 1 \in S  PROVE k \in S
    <3>1. k \in 0 .. n /\ walk[k - 1] \in Walks  BY <1>1, <2>2
    <3>2. step[<<k, walk[k - 1]>>] \in Walks  BY <1>3, <3>1
    <3>3. walk[k] = step[<<k, walk[k - 1]>>]  BY <1>4, <1>11, <3>1
    <3> QED  BY <3>1, <3>2, <3>3
  <2>3. 0 .. n \subseteq S
    <3> HIDE DEF S
    <3> QED  BY <1>1, <2>1, <2>2, UpTo
  <2>4. DOMAIN walk = 0 .. n /\ walk = [k \in 0 .. n |-> walk[k]]
    <3>1. \E h : walk = [k \in 0 .. n |-> h[k]]
      <4> DEFINE h == [k \in 0 .. n |->
                         IF k = 0 THEN [at |-> 1, type |-> "Path", options |-> <<>>]
                         ELSE IF walk[k - 1].at >= n THEN walk[k - 1] ELSE Segment(text, walk[k - 1])]
      <4>1. walk = h  BY <1>9, Zenon
      <4>2. h = [k \in 0 .. n |-> h[k]]  OBVIOUS
      <4> HIDE DEF h
      <4> QED  BY <4>1, <4>2
    <3> QED  BY <3>1
  <2> QED  BY <2>3, <2>4
<1>13. SplitWalk(walk, text)  BY <1>10, <1>11, <1>12 DEF SplitWalk
<1> QED  BY <1>2, <1>13

(* After as many rounds as there are characters the loop has stopped.      *)
LEMMA SplitEnds ==
  ASSUME NEW text \in Seq(Char), NEW walk, SplitWalk(walk, text)
  PROVE  walk[Len(text)].at >= Len(text)
<1> DEFINE n == Len(text)
           S == {k \in 0 .. n : walk[k].at >= n \/ walk[k].at > k}
<1>1. n \in Nat  OBVIOUS
<1>2. 0 \in S  BY <1>1 DEF SplitWalk, FirstWalk
<1>3. ASSUME NEW k \in 1 .. n, k - 1 \in S  PROVE k \in S
  <2>1. k \in 0 .. n /\ k - 1 \in 0 .. n  BY <1>1
  <2>2. walk[k - 1] \in Walks /\ walk[k - 1].at \in Nat  BY <2>1 DEF SplitWalk, Walks
  <2>3. walk[k] = IF walk[k - 1].at >= n THEN walk[k - 1] ELSE Segment(text, walk[k - 1])
    BY DEF SplitWalk
  <2>4. CASE walk[k - 1].at >= n  BY <2>1, <2>3, <2>4
  <2>5. CASE ~(walk[k - 1].at >= n)
    <3>1. walk[k - 1].at < Len(text) /\ walk[k - 1].at > k - 1  BY <1>1, <1>3, <2>2, <2>5
    <3>2. walk[k] = Segment(text, walk[k - 1])  BY <2>3, <2>5
    <3>3. walk[k].at > walk[k - 1].at /\ walk[k] \in Walks
      BY <2>2, <3>1, <3>2, SegmentAdvances
    <3>4. walk[k].at \in Nat  BY <3>3 DEF Walks
    <3>5. walk[k].at > k  BY <2>1, <2>2, <3>1, <3>3, <3>4
    <3> QED  BY <2>1, <3>5
  <2> QED  BY <2>4, <2>5
<1>4. n \in S
  <2> HIDE DEF S
  <2>1. 0 .. n \subseteq S  BY <1>1, <1>2, <1>3, UpTo
  <2> QED  BY <1>1, <2>1
<1>5. walk[n].at \in Nat
  <2>1. n \in 0 .. n  BY <1>1
  <2> QED  BY <2>1 DEF SplitWalk, Walks
<1> QED  BY <1>1, <1>4, <1>5

LEMMA UriOptionsAre ==
  ASSUME NEW text \in Seq(Char), text # <<>>
  PROVE  OptionsOf(text) \in Seq(UriOptionSet)
<1>1. CASE Len(text) = 1
  <2>1. Option("Path", text) \in UriOptionSet  BY DEF Option, UriOptionSet, Types
  <2> QED  BY <1>1, <2>1 DEF OptionsOf
<1>2. CASE Len(text) # 1
  <2>1. PICK walk : SplitWalk(walk, text) /\ Split(text) = walk[Len(text)].options
    BY SplitIs
  <2>2. Len(text) \in 0 .. Len(text)  OBVIOUS
  <2>3. walk[Len(text)].options \in Seq(UriOptionSet)  BY <2>1, <2>2 DEF SplitWalk, Walks
  <2> QED  BY <1>2, <2>1, <2>3 DEF OptionsOf
<1> QED  BY <1>1, <1>2

-----------------------------------------------------------------------------
(* getURI().                                                               *)

(* What its loop keeps: it has written the first "/", and fits.            *)
Written == {t \in Seq(Char) : 1 <= Len(t) /\ Len(t) < DstLen}

Joins == [step : {"Next", "Done", "Failed"}, text : Written]

FirstJoin == [step |-> "Next", text |-> <<"/">>]

(* The first query option puts a "?" in the place of the separator.        *)
Base(text, i) ==
  IF options[i].type = "Query" /\ \A j \in 1 .. i - 1 : options[j].type # "Query"
  THEN ReplaceAt(text, Len(text), "?") ELSE text

LEMMA JoinIs ==
  ASSUME NEW text, NEW i
  PROVE  LET base  == Base(text, i)
             value == options[i].value
         IN Join(text, i) =
              IF Len(value) > Room(base) THEN [step |-> "Failed", text |-> base]
              ELSE IF value = <<"/">> THEN [step |-> "Done", text |-> base]
              ELSE IF Room(base \o value) < 1 THEN [step |-> "Failed", text |-> base \o value]
              ELSE [step |-> "Next", text |-> base \o value \o <<Separator(options[i].type)>>]
BY DEF Join, Base

LEMMA BaseIs ==
  ASSUME NEW text \in Seq(Char), text # <<>>, NEW i
  PROVE  Base(text, i) \in Seq(Char) /\ Len(Base(text, i)) = Len(text)
<1>1. Len(text) \in 1 .. Len(text)
  <2>1. Len(text) \in Nat \ {0}  BY EmptySeq
  <2> QED  BY <2>1
<1>2. "?" \in Char  BY UriAssumption
<1>3. [text EXCEPT ![Len(text)] = "?"] \in Seq(Char)
      /\ Len([text EXCEPT ![Len(text)] = "?"]) = Len(text)
  BY <1>1, <1>2, ExceptSeq
<1> QED  BY <1>3 DEF Base, ReplaceAt

LEMMA JoinFits ==
  ASSUME options \in Seq(UriOptionSet), NEW text \in Written, NEW i \in 1 .. Len(options)
  PROVE  Join(text, i) \in Joins
<1> DEFINE base  == Base(text, i)
           value == options[i].value
           sep   == Separator(options[i].type)
<1>1. text \in Seq(Char) /\ Len(text) \in Nat /\ 1 <= Len(text) /\ Len(text) < DstLen /\ text # <<>>
  BY DEF Written
<1>2. base \in Seq(Char) /\ Len(base) = Len(text)  BY <1>1, BaseIs
<1>3. value \in Seq(Char) /\ options[i].type \in Types
  <2>1. options[i] \in UriOptionSet  BY ElementOfSeq
  <2> QED  BY <2>1 DEF UriOptionSet
<1>4. sep \in Char  BY <1>3, SeparatorIs
<1>5. Join(text, i) =
              IF Len(value) > Room(base) THEN [step |-> "Failed", text |-> base]
              ELSE IF value = <<"/">> THEN [step |-> "Done", text |-> base]
              ELSE IF Room(base \o value) < 1 THEN [step |-> "Failed", text |-> base \o value]
              ELSE [step |-> "Next", text |-> base \o value \o <<sep>>]
  BY JoinIs
<1> HIDE DEF base, value, sep
<1>6. base \o value \in Seq(Char) /\ Len(base \o value) = Len(base) + Len(value)
  BY <1>2, <1>3, ConcatProperties
<1>7. <<sep>> \in Seq(Char) /\ Len(<<sep>>) = 1  BY <1>4
<1>8. base \o value \o <<sep>> \in Seq(Char)
      /\ Len(base \o value \o <<sep>>) = Len(base) + Len(value) + 1
  <2>1. \A a, b \in Seq(Char) : a \o b \in Seq(Char) /\ Len(a \o b) = Len(a) + Len(b)
    BY ConcatProperties
  <2> QED  BY <1>6, <1>7, <2>1
<1>9. Len(base) \in Nat /\ Len(value) \in Nat /\ DstLen \in Nat  BY <1>2, <1>3, Buffer
<1>10. CASE Len(value) > Room(base)
  <2>1. base \in Written  BY <1>1, <1>2 DEF Written
  <2> QED  BY <1>5, <1>10, <2>1 DEF Joins
<1>11. CASE ~(Len(value) > Room(base)) /\ value = <<"/">>
  <2>1. base \in Written  BY <1>1, <1>2 DEF Written
  <2> QED  BY <1>5, <1>11, <2>1 DEF Joins
<1>12. CASE ~(Len(value) > Room(base)) /\ value # <<"/">> /\ Room(base \o value) < 1
  <2>1. base \o value \in Written  BY <1>1, <1>2, <1>6, <1>9, <1>12 DEF Written, Room
  <2> QED  BY <1>5, <1>12, <2>1 DEF Joins
<1>13. CASE ~(Len(value) > Room(base)) /\ value # <<"/">> /\ ~(Room(base \o value) < 1)
  <2>1. base \o value \o <<sep>> \in Written
    BY <1>1, <1>2, <1>6, <1>8, <1>9, <1>13 DEF Written, Room
  <2> QED  BY <1>5, <1>13, <2>1 DEF Joins
<1> QED  BY <1>10, <1>11, <1>12, <1>13

(* The loop: before and after each of its rounds.                          *)
JoinWalk(walk) ==
  /\ walk \in [0 .. Len(options) -> Joins]
  /\ walk[0] = FirstJoin
  /\ \A i \in 1 .. Len(options) :
       walk[i] = IF walk[i - 1].step = "Next" THEN Join(walk[i - 1].text, i) ELSE walk[i - 1]

LEMMA FirstJoinIs == FirstJoin \in Joins
<1>1. <<"/">> \in Seq(Char) /\ Len(<<"/">>) = 1  BY UriAssumption
<1>2. <<"/">> \in Written  BY <1>1, Buffer DEF Written
<1> QED  BY <1>2 DEF FirstJoin, Joins

LEMMA JoinedIs ==
  ASSUME options \in Seq(UriOptionSet)
  PROVE  \E walk : JoinWalk(walk) /\ Joined = walk[Len(options)]
<1> DEFINE n == Len(options)
           step == [kx \in (1 .. n) \X Joins |->
                      IF kx[2].step = "Next" THEN Join(kx[2].text, kx[1]) ELSE kx[2]]
           Rec(g) == g = [i \in 0 .. n |->
                            IF i = 0 THEN [step |-> "Next", text |-> <<"/">>]
                            ELSE IF g[i - 1].step = "Next" THEN Join(g[i - 1].text, i) ELSE g[i - 1]]
           walk == CHOOSE g : Rec(g)
<1>1. n \in Nat  OBVIOUS
<1>2. Joined = walk[n]  BY Zenon DEF Joined
<1>3. step \in [(1 .. n) \X Joins -> Joins]
  <2>1. ASSUME NEW x \in Joins, NEW i \in 1 .. n
        PROVE  (IF x.step = "Next" THEN Join(x.text, i) ELSE x) \in Joins
    <3>1. x.text \in Written  BY DEF Joins
    <3>2. Join(x.text, i) \in Joins  BY <3>1, JoinFits
    <3> QED  BY <3>2
  <2> QED  BY <2>1
<1>4. \A i \in 1 .. n, x \in Joins :
        step[<<i, x>>] = IF x.step = "Next" THEN Join(x.text, i) ELSE x
  OBVIOUS
<1> HIDE DEF step
<1>5. PICK at \in [0 .. n -> Joins] : Rounds(at, n, FirstJoin, step)
  BY <1>1, <1>3, FirstJoinIs, RoundsExist
<1>6. at[0] = FirstJoin  BY <1>5 DEF Rounds
<1>7. \A i \in 1 .. n : at[i] = IF at[i - 1].step = "Next" THEN Join(at[i - 1].text, i) ELSE at[i - 1]
  <2> SUFFICES ASSUME NEW i \in 1 .. n
               PROVE  at[i] = IF at[i - 1].step = "Next" THEN Join(at[i - 1].text, i) ELSE at[i - 1]
    OBVIOUS
  <2>1. at[i - 1] \in Joins  BY <1>1
  <2> QED  BY <1>4, <1>5, <2>1 DEF Rounds
<1>8. Rec(at)
  <2>1. ASSUME NEW i \in 0 .. n
        PROVE  at[i] = IF i = 0 THEN [step |-> "Next", text |-> <<"/">>]
                       ELSE IF at[i - 1].step = "Next" THEN Join(at[i - 1].text, i) ELSE at[i - 1]
    <3>1. CASE i = 0  BY <1>6, <3>1 DEF FirstJoin
    <3>2. CASE i # 0
      <4>1. i \in 1 .. n  BY <1>1, <3>2
      <4> QED  BY <1>7, <3>2, <4>1
    <3> QED  BY <3>1, <3>2
  <2>2. at = [i \in 0 .. n |-> at[i]]  OBVIOUS
  <2> QED  BY <2>1, <2>2
<1>9. Rec(walk)  BY <1>8
<1> HIDE DEF walk
<1>10. walk[0] = FirstJoin  BY <1>1, <1>9 DEF FirstJoin
<1>11. \A i \in 1 .. n : walk[i] = IF walk[i - 1].step = "Next" THEN Join(walk[i - 1].text, i) ELSE walk[i - 1]
  <2> SUFFICES ASSUME NEW i \in 1 .. n
               PROVE  walk[i] = IF walk[i - 1].step = "Next" THEN Join(walk[i - 1].text, i) ELSE walk[i - 1]
    OBVIOUS
  <2>1. i \in 0 .. n /\ i # 0  BY <1>1
  <2> QED  BY <1>9, <2>1, Zenon
<1>12. walk \in [0 .. n -> Joins]
  <2> DEFINE S == {i \in 0 .. n : walk[i] \in Joins}
  <2>1. 0 \in S  BY <1>1, <1>10, FirstJoinIs
  <2>2. ASSUME NEW i \in 1 .. n, i - 1 \in S  PROVE i \in S
    <3>1. i \in 0 .. n /\ walk[i - 1] \in Joins  BY <1>1, <2>2
    <3>2. step[<<i, walk[i - 1]>>] \in Joins  BY <1>3, <3>1
    <3>3. walk[i] = step[<<i, walk[i - 1]>>]  BY <1>4, <1>11, <3>1
    <3> QED  BY <3>1, <3>2, <3>3
  <2>3. 0 .. n \subseteq S
    <3> HIDE DEF S
    <3> QED  BY <1>1, <2>1, <2>2, UpTo
  <2>4. walk = [i \in 0 .. n |-> walk[i]]
    <3> DEFINE h == [i \in 0 .. n |->
                       IF i = 0 THEN [step |-> "Next", text |-> <<"/">>]
                       ELSE IF walk[i - 1].step = "Next" THEN Join(walk[i - 1].text, i) ELSE walk[i - 1]]
    <3>1. walk = h  BY <1>9, Zenon
    <3>2. h = [i \in 0 .. n |-> h[i]]  OBVIOUS
    <3> HIDE DEF h
    <3> QED  BY <3>1, <3>2
  <2> QED  BY <2>3, <2>4
<1>13. JoinWalk(walk)  BY <1>10, <1>11, <1>12 DEF JoinWalk
<1> QED  BY <1>2, <1>13

LEMMA ReadUriFits ==
  ASSUME options \in Seq(UriOptionSet)
  PROVE  ReadUri.text \in Seq(Char) /\ Len(ReadUri.text) < DstLen
<1>1. PICK walk : JoinWalk(walk) /\ Joined = walk[Len(options)]  BY JoinedIs
<1>2. Len(options) \in 0 .. Len(options)  OBVIOUS
<1>3. Joined \in Joins  BY <1>1, <1>2 DEF JoinWalk
<1>4. /\ Joined.text \in Seq(Char) /\ Len(Joined.text) \in Nat
      /\ 1 <= Len(Joined.text) /\ Len(Joined.text) < DstLen
  BY <1>3 DEF Joins, Written
<1>5. Front(Joined.text) \in Seq(Char) /\ Len(Front(Joined.text)) = Len(Joined.text) - 1
  <2> DEFINE t == Joined.text
  <2>1. \A k \in 1 .. Len(t) - 1 : t[k] \in Char  BY <1>4
  <2> HIDE DEF t
  <2>2. Len(t) \in Nat /\ 1 <= Len(t) /\ Len(t) - 1 \in Int  BY <1>4 DEF t
  <2>3. SubSeq(t, 1, Len(t) - 1) \in Seq(Char)
        /\ Len(SubSeq(t, 1, Len(t) - 1)) = IF 1 <= Len(t) - 1 THEN (Len(t) - 1) - 1 + 1 ELSE 0
    BY <2>1, <2>2, SubSeqProperties
  <2> QED  BY <2>2, <2>3 DEF Front, t
<1>6. DstLen \in Nat  BY Buffer
<1>7. ReadUri.text = IF Joined.step = "Next" THEN Front(Joined.text) ELSE Joined.text
  BY DEF ReadUri
<1> QED  BY <1>4, <1>5, <1>6, <1>7

UriInv ==
  /\ uri \in Uris
  /\ options = <<>> \/ (uri # <<>> /\ options = OptionsOf(uri))
  /\ options = <<>> => read = Unread

THEOREM UriInvHolds == UriSpec => []UriInv
<1>1. UriInit => UriInv  BY DEF UriInit, UriInv
<1>2. UriInv /\ [UriNext]_uriVars => UriInv'
  <2> SUFFICES ASSUME UriInv, [UriNext]_uriVars  PROVE UriInv'
    OBVIOUS
  <2>1. CASE SetURI
    <3>1. uri' = uri /\ read' = read /\ uri # <<>> /\ options = <<>> /\ options' = OptionsOf(uri)
      BY <2>1 DEF SetURI
    <3> QED  BY <3>1 DEF UriInv
  <2>2. CASE GetURI
    <3>1. uri' = uri /\ options' = options /\ options # <<>>  BY <2>2 DEF GetURI
    <3> QED  BY <3>1 DEF UriInv
  <2>3. CASE UNCHANGED uriVars  BY <2>3 DEF UriInv, uriVars
  <2> QED  BY <2>1, <2>2, <2>3 DEF UriNext
<1> QED  BY <1>1, <1>2, PTL DEF UriSpec

(* The options are those of the URI, and may be read.                      *)
LEMMA OptionsFit ==
  ASSUME UriInv
  PROVE  uri \in Seq(Char) /\ options \in Seq(UriOptionSet)
<1>1. uri \in Seq(Char)  BY UriAssumption DEF UriInv
<1>2. CASE options = <<>>  BY <1>1, <1>2
<1>3. CASE options # <<>>  BY <1>1, <1>3, UriOptionsAre DEF UriInv
<1> QED  BY <1>1, <1>2, <1>3

(* Whatever the URI and the length of the buffer, getURI() leaves room for *)
(* the terminating zero (cantcoap.cpp:606-679).                            *)
THEOREM NeverOverruns == UriSpec => []StaysInBuffer
<1>1. UriInit => StaysInBuffer
  <2>1. Len(<<>>) = 0  OBVIOUS
  <2> QED  BY <2>1, Buffer DEF UriInit, Unread, StaysInBuffer
<1>2. UriInv /\ StaysInBuffer /\ [UriNext]_uriVars => StaysInBuffer'
  <2> SUFFICES ASSUME UriInv, StaysInBuffer, [UriNext]_uriVars  PROVE StaysInBuffer'
    OBVIOUS
  <2>1. CASE SetURI  BY <2>1 DEF SetURI, StaysInBuffer
  <2>2. CASE GetURI  BY <2>2, OptionsFit, ReadUriFits DEF GetURI, StaysInBuffer
  <2>3. CASE UNCHANGED uriVars  BY <2>3 DEF StaysInBuffer, uriVars
  <2> QED  BY <2>1, <2>2, <2>3 DEF UriNext
<1> QED  BY <1>1, <1>2, UriInvHolds, PTL DEF UriSpec

-----------------------------------------------------------------------------
(* Well-formed URIs: setURI() cuts them at their separators.               *)

(* Where the query begins, or behind the end.                              *)
QueryAt(text) ==
  IF Splits(text, "?", 1) = {} THEN Len(text) + 1 ELSE Min(Splits(text, "?", 1))

Formed(text, q) ==
  /\ text \in Seq(Char) /\ Len(text) >= 2 /\ q \in 2 .. Len(text) + 1
  /\ text[1] = "/" /\ text[Len(text)] \notin Separators
  /\ \A i \in 2 .. Len(text) : text[i - 1] \notin Separators \/ text[i] \notin Separators
  /\ q <= Len(text) => text[q] = "?" /\ q + 1 < Len(text)
  /\ \A i \in 1 .. Len(text) : (text[i] = "?" => i = q) /\ (text[i] = "/" => i < q)

LEMMA WellFormedIs ==
  ASSUME NEW text \in Seq(Char), WellFormed(text)
  PROVE  Formed(text, QueryAt(text))
<1> DEFINE marks == Splits(text, "?", 1)
           q == QueryAt(text)
<1>1. /\ Len(text) > 1 /\ text[1] = "/" /\ text[Len(text)] \notin Separators
      /\ \A i \in 2 .. Len(text) : text[i - 1] \notin Separators \/ text[i] \notin Separators
      /\ \A i \in q + 1 .. Len(text) : text[i] \notin {"/", "?"}
      /\ q # Len(text) - 1
  BY DEF WellFormed, QueryAt
<1>2. Len(text) \in Nat /\ Len(text) >= 2  BY <1>1
<1>3. marks \subseteq 1 .. Len(text) /\ (\A i \in 1 .. Len(text) : i \in marks <=> text[i] = "?")
  BY DEF Splits
<1>4. q = IF marks = {} THEN Len(text) + 1 ELSE Min(marks)  BY DEF QueryAt
<1> HIDE DEF marks, q
<1>5. marks # {} => q \in marks /\ \A i \in marks : q <= i
  <2>1. marks \in SUBSET Nat  BY <1>3
  <2> QED  BY <1>4, <2>1, MinIs
<1>6. q \in 1 .. Len(text) + 1 /\ (q <= Len(text) => text[q] = "?")
  <2>1. CASE marks = {}  BY <1>2, <1>4, <2>1
  <2>2. CASE marks # {}
    <3>1. q \in 1 .. Len(text)  BY <1>3, <1>5, <2>2
    <3>2. text[q] = "?"  BY <1>3, <1>5, <2>2, <3>1
    <3> QED  BY <1>2, <3>1, <3>2
  <2> QED  BY <2>1, <2>2
<1>7. q # 1 /\ q # Len(text)
  <2>1. q # 1  BY <1>1, <1>2, <1>6
  <2>2. "?" \in Separators  BY DEF Separators
  <2>3. q # Len(text)  BY <1>1, <1>2, <1>6, <2>2
  <2> QED  BY <2>1, <2>3
<1>8. \A i \in 1 .. Len(text) : (text[i] = "?" => i = q) /\ (text[i] = "/" => i < q)
  <2> SUFFICES ASSUME NEW i \in 1 .. Len(text)
               PROVE  (text[i] = "?" => i = q) /\ (text[i] = "/" => i < q)
    OBVIOUS
  <2>1. CASE i > q
    <3>1. i \in q + 1 .. Len(text)  BY <1>2, <1>6, <2>1
    <3> QED  BY <1>1, <3>1
  <2>2. CASE i = q  BY <1>2, <1>6, <2>2
  <2>3. CASE i < q
    <3>1. text[i] # "?"  BY <1>2, <1>3, <1>4, <1>5, <1>6, <2>3
    <3> QED  BY <2>3, <3>1
  <2> QED  BY <1>2, <1>6, <2>1, <2>2, <2>3
<1>9. q \in 2 .. Len(text) + 1 /\ (q <= Len(text) => q + 1 < Len(text))
  BY <1>1, <1>2, <1>6, <1>7
<1>10. Formed(text, q)  BY <1>1, <1>2, <1>6, <1>8, <1>9 DEF Formed
<1> QED  BY <1>10 DEF q

(* The separator that belongs at i.                                        *)
SepAt(i, q) == IF i < q THEN "/" ELSE IF i = q THEN "?" ELSE "&"

(* The options os are what is between the cuts b[0], b[1] ...              *)
Cuts(b, os, text, q) ==
  /\ b \in [0 .. Len(os) -> 1 .. Len(text) + 1]
  /\ b[0] = 1
  /\ \A j \in 0 .. Len(os) : b[j] <= Len(text) => text[b[j]] = SepAt(b[j], q)
  /\ \A i, j \in 0 .. Len(os) : i < j => b[i] + 1 < b[j]
  /\ \A j \in 1 .. Len(os) : b[j] > q => b[j - 1] >= q
  /\ \A j \in 1 .. Len(os) :
       os[j] = Option(IF b[j] <= q THEN "Path" ELSE "Query", SubSeq(text, b[j - 1] + 1, b[j] - 1))

(* The loop goes on behind the last cut e.                                 *)
GoesOn(s, e, text, q) ==
  /\ s.at = IF e = q /\ q <= Len(text) THEN q + 1 ELSE e
  /\ s.at <= Len(text) => s.type = IF e < q THEN "Path" ELSE "Query"

LEMMA NextCut ==
  ASSUME NEW text, NEW q, Formed(text, q), NEW s \in Walks, s.at < Len(text),
         NEW e \in 1 .. Len(text) + 1, e <= Len(text) => text[e] = SepAt(e, q),
         GoesOn(s, e, text, q)
  PROVE  LET start == UriStart(text, s)
             end   == End(text, s.type, start)
             query == Triggered(text, s.type, start)
         IN /\ e <= Len(text) /\ start = e + 1 /\ end \in e + 2 .. Len(text) + 1
            /\ end <= Len(text) => text[end] = SepAt(end, q)
            /\ end > q => e >= q
            /\ query <=> (end = q /\ q <= Len(text))
            /\ s.type = IF end <= q THEN "Path" ELSE "Query"
<1> DEFINE n     == Len(text)
           start == UriStart(text, s)
           end   == End(text, s.type, start)
           query == Triggered(text, s.type, start)
<1>1. /\ text \in Seq(Char) /\ n \in Nat /\ n >= 2 /\ q \in 2 .. n + 1
      /\ text[1] = "/" /\ text[n] \notin Separators
      /\ \A i \in 2 .. n : text[i - 1] \notin Separators \/ text[i] \notin Separators
      /\ q <= n => text[q] = "?" /\ q + 1 < n
      /\ \A i \in 1 .. n : (text[i] = "?" => i = q) /\ (text[i] = "/" => i < q)
  BY DEF Formed
<1>2. s.at \in Nat \ {0} /\ s.at < n /\ s.type \in Types  BY DEF Walks
<1>3. e <= n /\ text[e] = SepAt(e, q)  BY <1>1, <1>2 DEF GoesOn
<1>4. s.at = (IF e = q THEN q + 1 ELSE e) /\ s.type = (IF e < q THEN "Path" ELSE "Query")
  BY <1>1, <1>2, <1>3 DEF GoesOn
<1>5. start \in Nat \ {0} /\ start <= n  BY <1>1, StartIs
<1>6. /\ end \in start .. n + 1
      /\ end <= n => text[end] \in {Separator(s.type), "?"}
      /\ query => end <= n /\ text[end] = "?"
      /\ ~query /\ end <= n => text[end] = Separator(s.type)
      /\ end > n => \A i \in start .. n : text[i] # "?"
  BY <1>1, <1>2, <1>5, EndIs
<1>7. start = IF text[s.at] = Separator(s.type) THEN s.at + 1 ELSE s.at  BY DEF UriStart
<1> HIDE DEF end, start, query, n
<1>8. SepAt(e, q) \in Separators /\ Separator(s.type) \in Separators
  BY <1>2 DEF SepAt, Separator, Separators, Types
<1>9. e + 1 \in 2 .. n /\ (e + 1) - 1 = e /\ text[e + 1] \notin Separators
  <2>1. e + 1 <= n  BY <1>1, <1>2, <1>3, <1>4
  <2>2. e + 1 \in 2 .. n /\ (e + 1) - 1 = e  BY <1>1, <2>1
  <2> QED  BY <1>1, <1>3, <1>8, <2>2
<1>10. start = e + 1
  <2>1. CASE e = q
    <3>1. s.at = e + 1  BY <1>4, <2>1
    <3>2. text[s.at] # Separator(s.type)  BY <1>8, <1>9, <3>1
    <3> QED  BY <1>7, <3>1, <3>2
  <2>2. CASE e # q
    <3>1. s.at = e  BY <1>4, <2>2
    <3>2. SepAt(e, q) = Separator(s.type)
      BY <1>1, <1>4, <2>2 DEF SepAt, Separator
    <3> QED  BY <1>3, <1>7, <3>1, <3>2
  <2> QED  BY <2>1, <2>2
<1>11. end # start
  <2>1. CASE end <= n
    <3>1. text[end] \in Separators  BY <1>6, <1>8, <2>1 DEF Separators
    <3> QED  BY <1>9, <1>10, <3>1
  <2>2. CASE ~(end <= n)  BY <1>1, <1>5, <2>2
  <2> QED  BY <2>1, <2>2
<1>12. end \in e + 2 .. n + 1  BY <1>1, <1>6, <1>10, <1>11
<1>13. CASE e < q
  <2>1. s.type = "Path" /\ Separator(s.type) = "/"  BY <1>4, <1>13 DEF Separator
  <2>2. CASE end <= n /\ query
    <3>1. end = q  BY <1>1, <1>6, <1>12, <2>2
    <3> QED  BY <1>1, <1>3, <1>6, <1>10, <1>12, <1>13, <2>1, <2>2, <3>1 DEF SepAt, n, start, end, query
  <2>3. CASE end <= n /\ ~query
    <3>1. end < q /\ text[end] = "/"  BY <1>1, <1>6, <1>12, <2>1, <2>3
    <3>2. SepAt(end, q) = "/" /\ end # q /\ ~(end > q) /\ end <= q  BY <1>1, <1>12, <3>1 DEF SepAt
    <3> QED  BY <1>3, <1>10, <1>12, <2>1, <2>3, <3>1, <3>2 DEF n, start, end, query
  <2>4. CASE end > n
    <3>1. ~query /\ end = n + 1  BY <1>1, <1>6, <1>12, <2>4
    <3>2. q > n
      <4>1. CASE q <= n
        <5>1. q \in start .. n  BY <1>1, <1>10, <1>13, <4>1
        <5> QED  BY <1>1, <1>6, <2>4, <4>1, <5>1
      <4> QED  BY <1>1, <4>1
    <3>3. q = n + 1  BY <1>1, <3>2
    <3> QED  BY <1>1, <1>3, <1>10, <1>12, <2>1, <2>4, <3>1, <3>3 DEF n, start, end, query
  <2> QED  BY <1>1, <1>12, <2>2, <2>3, <2>4
<1>14. CASE ~(e < q)
  <2>1. s.type = "Query" /\ Separator(s.type) = "&"  BY <1>4, <1>14 DEF Separator
  <2>2. e >= q /\ end > q /\ ~(end <= q) /\ end # q  BY <1>1, <1>12, <1>14
  <2>3. ~query
    <3>1. CASE query  BY <1>1, <1>6, <1>12, <2>2, <3>1
    <3> QED  BY <3>1
  <2>4. end <= n => text[end] = SepAt(end, q)
    BY <1>1, <1>6, <1>12, <2>1, <2>2, <2>3 DEF SepAt
  <2> QED  BY <1>3, <1>10, <1>12, <2>1, <2>2, <2>3, <2>4 DEF n, start, end, query
<1> QED  BY <1>13, <1>14

(* What a round of the loop adds is a cut.                                 *)
CutSoFar(s, text, q) ==
  \E b : Cuts(b, s.options, text, q) /\ GoesOn(s, b[Len(s.options)], text, q)

LEMMA SegmentCuts ==
  ASSUME NEW text, NEW q, Formed(text, q), NEW s \in Walks, s.at < Len(text),
         CutSoFar(s, text, q)
  PROVE  CutSoFar(Segment(text, s), text, q)
<1> DEFINE n     == Len(text)
           os    == s.options
           m     == Len(os)
           start == UriStart(text, s)
           end   == End(text, s.type, start)
           query == Triggered(text, s.type, start)
           added == Option(s.type, SubSeq(text, start, end - 1))
           t     == Segment(text, s)
<1>1. n \in Nat /\ os \in Seq(UriOptionSet) /\ m \in Nat /\ q \in 2 .. n + 1 /\ text \in Seq(Char)
  BY DEF Formed, Walks
<1>2. PICK b : Cuts(b, os, text, q) /\ GoesOn(s, b[m], text, q)  BY DEF CutSoFar
<1> DEFINE e == b[m]
<1>3. /\ b \in [0 .. m -> 1 .. n + 1] /\ b[0] = 1
      /\ \A j \in 0 .. m : b[j] <= n => text[b[j]] = SepAt(b[j], q)
      /\ \A i, j \in 0 .. m : i < j => b[i] + 1 < b[j]
      /\ \A j \in 1 .. m : b[j] > q => b[j - 1] >= q
      /\ \A j \in 1 .. m :
           os[j] = Option(IF b[j] <= q THEN "Path" ELSE "Query", SubSeq(text, b[j - 1] + 1, b[j] - 1))
  BY <1>2 DEF Cuts
<1>4. e \in 1 .. n + 1 /\ (e <= n => text[e] = SepAt(e, q))
  <2>1. m \in 0 .. m  BY <1>1
  <2> QED  BY <1>3, <2>1
<1>5. /\ e <= n /\ start = e + 1 /\ end \in e + 2 .. n + 1
      /\ end <= n => text[end] = SepAt(end, q)
      /\ end > q => e >= q
      /\ query <=> (end = q /\ q <= n)
      /\ s.type = IF end <= q THEN "Path" ELSE "Query"
  BY <1>2, <1>4, NextCut
<1>6. /\ t.at = IF query THEN end + 1 ELSE end
      /\ t.type = IF query THEN "Query" ELSE s.type
      /\ t.options = Append(os, added)
  BY SegmentIs
<1>7. added = Option(IF end <= q THEN "Path" ELSE "Query", SubSeq(text, e + 1, end - 1))
  BY <1>5
<1>8. t.options \in Seq(UriOptionSet)
  <2>1. t \in Walks  BY <1>1, SegmentAdvances
  <2> QED  BY <2>1 DEF Walks
<1> HIDE DEF start, end, query, added, t, os, m, n
<1>9. /\ Len(t.options) = m + 1 /\ t.options[m + 1] = added
      /\ \A j \in 1 .. m : t.options[j] = os[j]
  BY <1>1, <1>6 DEF m
<1> DEFINE c == [j \in 0 .. m + 1 |-> IF j = m + 1 THEN end ELSE b[j]]
<1>10. c[m + 1] = end /\ (\A j \in 0 .. m : c[j] = b[j]) /\ c[m] = e  BY <1>1
<1>11. c \in [0 .. m + 1 -> 1 .. n + 1]
  <2>1. end \in 1 .. n + 1  BY <1>1, <1>4, <1>5
  <2>2. \A j \in 0 .. m + 1 : j # m + 1 => b[j] \in 1 .. n + 1  BY <1>1, <1>3
  <2> HIDE DEF e
  <2> QED  BY <2>1, <2>2
<1> HIDE DEF c
<1>12. \A j \in 0 .. m + 1 : j = m + 1 \/ j \in 0 .. m  BY <1>1
<1>13. c[0] = 1  BY <1>1, <1>3, <1>10
<1>14. \A j \in 0 .. m + 1 : c[j] <= n => text[c[j]] = SepAt(c[j], q)
  BY <1>3, <1>5, <1>10, <1>12
<1>15. \A i, j \in 0 .. m + 1 : i < j => c[i] + 1 < c[j]
  <2> SUFFICES ASSUME NEW i \in 0 .. m + 1, NEW j \in 0 .. m + 1, i < j  PROVE c[i] + 1 < c[j]
    OBVIOUS
  <2>1. i \in 0 .. m /\ c[i] = b[i]  BY <1>1, <1>10
  <2>2. CASE j \in 0 .. m  BY <1>3, <1>10, <2>1, <2>2
  <2>3. CASE j = m + 1
    <3>1. b[i] <= e
      <4>1. CASE i = m  BY <1>4, <4>1
      <4>2. CASE i # m
        <5>1. i < m /\ m \in 0 .. m  BY <1>1, <2>1, <4>2
        <5>2. b[i] + 1 < e  BY <1>3, <2>1, <5>1
        <5>3. b[i] \in Nat /\ e \in Nat  BY <1>3, <1>4, <2>1
        <5> QED  BY <5>2, <5>3
      <4> QED  BY <4>1, <4>2
    <3>2. b[i] \in Nat  BY <1>3, <2>1
    <3>3. end \in e + 2 .. n + 1 /\ e \in Nat  BY <1>4, <1>5
    <3> HIDE DEF e
    <3>4. b[i] + 1 < end  BY <1>1, <3>1, <3>2, <3>3
    <3> QED  BY <1>10, <2>1, <2>3, <3>4
  <2> QED  BY <1>12, <2>2, <2>3
<1>16. \A j \in 1 .. m + 1 : c[j] > q => c[j - 1] >= q
  <2> SUFFICES ASSUME NEW j \in 1 .. m + 1, c[j] > q  PROVE c[j - 1] >= q
    OBVIOUS
  <2>1. CASE j = m + 1
    <3>1. j - 1 = m  BY <1>1, <2>1
    <3> QED  BY <1>5, <1>10, <2>1, <3>1
  <2>2. CASE j # m + 1
    <3>1. j \in 1 .. m /\ j \in 0 .. m /\ j - 1 \in 0 .. m  BY <1>1, <2>2
    <3> QED  BY <1>3, <1>10, <3>1
  <2> QED  BY <2>1, <2>2
<1>17. \A j \in 1 .. m + 1 :
         t.options[j] = Option(IF c[j] <= q THEN "Path" ELSE "Query",
                               SubSeq(text, c[j - 1] + 1, c[j] - 1))
  <2> SUFFICES ASSUME NEW j \in 1 .. m + 1
               PROVE  t.options[j] = Option(IF c[j] <= q THEN "Path" ELSE "Query",
                                            SubSeq(text, c[j - 1] + 1, c[j] - 1))
    OBVIOUS
  <2>1. CASE j = m + 1
    <3>1. j - 1 = m  BY <1>1, <2>1
    <3> QED  BY <1>7, <1>9, <1>10, <2>1, <3>1
  <2>2. CASE j # m + 1
    <3>1. j \in 1 .. m /\ j \in 0 .. m /\ j - 1 \in 0 .. m  BY <1>1, <2>2
    <3> QED  BY <1>3, <1>9, <1>10, <3>1
  <2> QED  BY <2>1, <2>2
<1>18. Cuts(c, t.options, text, q)
  BY <1>9, <1>11, <1>13, <1>14, <1>15, <1>16, <1>17 DEF Cuts, n
<1>19. GoesOn(t, c[Len(t.options)], text, q)
  <2>1. t.at = IF end = q /\ q <= n THEN q + 1 ELSE end  BY <1>5, <1>6
  <2>2. t.at <= n => t.type = IF end < q THEN "Path" ELSE "Query"
    <3>1. end \in Nat /\ q \in Nat /\ n \in Nat /\ end <= n + 1  BY <1>1, <1>4, <1>5
    <3>2. CASE query  BY <1>5, <1>6, <3>1, <3>2
    <3>3. CASE ~query
      <4>1. t.type = s.type /\ t.at = end  BY <1>6, <3>3
      <4>2. t.at <= n => end # q  BY <1>5, <3>1, <3>3, <4>1
      <4>3. t.at <= n => (end <= q <=> end < q)  BY <3>1, <4>2
      <4> QED  BY <1>5, <4>1, <4>3
    <3> QED  BY <3>2, <3>3
  <2> QED  BY <1>9, <1>10, <2>1, <2>2 DEF GoesOn, n
<1>20. CutSoFar(t, text, q)  BY <1>18, <1>19 DEF CutSoFar
<1> QED  BY <1>20 DEF t

(* The options of a well-formed URI are what is between its separators.    *)
LEMMA SplitCuts ==
  ASSUME NEW text, NEW q, Formed(text, q)
  PROVE  \E b : /\ Cuts(b, OptionsOf(text), text, q)
                /\ b[Len(OptionsOf(text))] = Len(text) + 1
<1> DEFINE n == Len(text)
<1>1. text \in Seq(Char) /\ n \in Nat /\ n >= 2 /\ q \in 2 .. n + 1  BY DEF Formed
<1>2. PICK walk : SplitWalk(walk, text) /\ Split(text) = walk[n].options  BY <1>1, SplitIs
<1>3. OptionsOf(text) = walk[n].options
  <2>1. n # 1
    <3> HIDE DEF n
    <3> QED  BY <1>1
  <2> QED  BY <1>2, <2>1, Zenon DEF OptionsOf
<1>4. walk[n].at >= n  BY <1>1, <1>2, SplitEnds
<1>5. n \in 0 .. n /\ \A k \in 0 .. n : walk[k] \in Walks  BY <1>1, <1>2 DEF SplitWalk
<1> DEFINE S == {k \in 0 .. n : CutSoFar(walk[k], text, q)}
<1>6. 0 \in S
  <2> DEFINE b == [j \in 0 .. 0 |-> 1]
  <2>1. walk[0] = FirstWalk  BY <1>2 DEF SplitWalk
  <2>2. FirstWalk.options = <<>> /\ FirstWalk.at = 1 /\ FirstWalk.type = "Path" /\ Len(<<>>) = 0
    BY DEF FirstWalk
  <2>3. b[0] = 1 /\ b \in [0 .. 0 -> 1 .. n + 1] /\ \A j \in 0 .. 0 : j = 0  BY <1>1
  <2>4. text[1] = SepAt(1, q)  BY <1>1 DEF Formed, SepAt
  <2> HIDE DEF b
  <2>5. Cuts(b, <<>>, text, q)
    <3>1. 1 .. 0 = {}  OBVIOUS
    <3> QED  BY <2>2, <2>3, <2>4, <3>1 DEF Cuts
  <2>6. GoesOn(FirstWalk, b[0], text, q)  BY <1>1, <2>2, <2>3 DEF GoesOn
  <2>7. CutSoFar(FirstWalk, text, q)  BY <2>2, <2>5, <2>6 DEF CutSoFar
  <2> QED  BY <1>1, <2>1, <2>7
<1>7. ASSUME NEW k \in 1 .. n, k - 1 \in S  PROVE k \in S
  <2>1. k \in 0 .. n /\ k - 1 \in 0 .. n /\ CutSoFar(walk[k - 1], text, q)  BY <1>1, <1>7
  <2>2. walk[k] = IF walk[k - 1].at >= n THEN walk[k - 1] ELSE Segment(text, walk[k - 1])
    BY <1>2 DEF SplitWalk
  <2>3. walk[k - 1] \in Walks /\ walk[k - 1].at \in Nat  BY <1>5, <2>1 DEF Walks
  <2>4. CASE walk[k - 1].at >= n  BY <2>1, <2>2, <2>4
  <2>5. CASE ~(walk[k - 1].at >= n)
    <3>1. walk[k - 1].at < Len(text)  BY <1>1, <2>3, <2>5
    <3>2. CutSoFar(Segment(text, walk[k - 1]), text, q)  BY <2>1, <2>3, <3>1, SegmentCuts
    <3> QED  BY <2>1, <2>2, <2>5, <3>2
  <2> QED  BY <2>4, <2>5
<1>8. CutSoFar(walk[n], text, q)
  <2> HIDE DEF S
  <2>1. 0 .. n \subseteq S  BY <1>1, <1>6, <1>7, UpTo
  <2> QED  BY <1>5, <2>1 DEF S
<1>9. PICK b : Cuts(b, walk[n].options, text, q)
               /\ GoesOn(walk[n], b[Len(walk[n].options)], text, q)
  BY <1>8 DEF CutSoFar
<1> DEFINE e == b[Len(walk[n].options)]
<1>10. e \in 1 .. n + 1 /\ (e <= n => text[e] = SepAt(e, q))
  <2>1. walk[n].options \in Seq(UriOptionSet)  BY <1>5 DEF Walks
  <2>2. Len(walk[n].options) \in 0 .. Len(walk[n].options)  BY <2>1
  <2> QED  BY <1>9, <2>2 DEF Cuts
<1>11. walk[n].at = IF e = q /\ q <= n THEN q + 1 ELSE e  BY <1>9 DEF GoesOn
<1> HIDE DEF e
<1>12. e = n + 1
  <2>1. ~(e = q /\ q <= n)
    <3>1. q <= n => q + 1 < n  BY DEF Formed
    <3> QED  BY <1>1, <1>4, <1>11, <3>1
  <2>2. e >= n  BY <1>4, <1>11, <2>1
  <2>3. e # n
    <3>1. SepAt(e, q) \in Separators  BY DEF SepAt, Separators
    <3>2. text[n] \notin Separators  BY DEF Formed
    <3> QED  BY <1>10, <3>1, <3>2
  <2> QED  BY <1>1, <1>10, <2>2, <2>3
<1> QED  BY <1>3, <1>9, <1>12 DEF e

-----------------------------------------------------------------------------
(* Well-formed URIs: getURI() puts them together again.                    *)

LEMMA ReplaceLast ==
  ASSUME NEW a \in Seq(Char), NEW x \in Char, NEW y \in Char
  PROVE  ReplaceAt(a \o <<x>>, Len(a \o <<x>>), y) = a \o <<y>>
<1> DEFINE u == a \o <<x>>
           v == a \o <<y>>
           w == [u EXCEPT ![Len(u)] = y]
<1>1. <<x>> \in Seq(Char) /\ Len(<<x>>) = 1 /\ <<y>> \in Seq(Char) /\ Len(<<y>>) = 1
      /\ Len(a) \in Nat
  OBVIOUS
<1>2. /\ u \in Seq(Char) /\ Len(u) = Len(a) + 1
      /\ \A i \in 1 .. Len(a) + 1 : u[i] = IF i <= Len(a) THEN a[i] ELSE <<x>>[i - Len(a)]
  BY <1>1, ConcatProperties
<1>3. /\ v \in Seq(Char) /\ Len(v) = Len(a) + 1
      /\ \A i \in 1 .. Len(a) + 1 : v[i] = IF i <= Len(a) THEN a[i] ELSE <<y>>[i - Len(a)]
  BY <1>1, ConcatProperties
<1> HIDE DEF u, v
<1>4. /\ w \in Seq(Char) /\ Len(w) = Len(a) + 1
      /\ \A j \in 1 .. Len(a) + 1 : w[j] = IF j = Len(a) + 1 THEN y ELSE u[j]
  <2>1. Len(u) \in 1 .. Len(u)  BY <1>1, <1>2
  <2> QED  BY <1>2, <2>1, ExceptSeq
<1> HIDE DEF w
<1>5. \A i \in 1 .. Len(w) : w[i] = v[i]
  <2> SUFFICES ASSUME NEW i \in 1 .. Len(a) + 1  PROVE w[i] = v[i]
    BY <1>4
  <2>1. CASE i = Len(a) + 1
    <3>1. ~(i <= Len(a)) /\ i - Len(a) = 1  BY <1>1, <2>1
    <3> QED  BY <1>3, <1>4, <2>1, <3>1
  <2>2. CASE i # Len(a) + 1
    <3>1. i <= Len(a)  BY <1>1, <2>2
    <3> QED  BY <1>2, <1>3, <1>4, <2>2, <3>1
  <2> QED  BY <2>1, <2>2
<1>6. w = v  BY <1>3, <1>4, <1>5, SeqEqual
<1> QED  BY <1>6 DEF u, v, w, ReplaceAt

(* What is written when the options up to the cut e are, and a separator.  *)
Upto(text, e) == SubSeq(text, 1, e - 1)

LEMMA UptoIs ==
  ASSUME NEW text \in Seq(Char), NEW e \in 1 .. Len(text) + 1
  PROVE  /\ Upto(text, e) \in Seq(Char) /\ Len(Upto(text, e)) = e - 1
         /\ IsPrefix(Upto(text, e), text)
         /\ e <= Len(text) => Upto(text, e + 1) = Upto(text, e) \o <<text[e]>>
         /\ \A f \in e + 1 .. Len(text) + 1 :
               Upto(text, f) = Upto(text, e + 1) \o SubSeq(text, e + 1, f - 1)
<1>1. Len(text) \in Nat /\ e \in Nat /\ 1 <= e /\ e <= Len(text) + 1  OBVIOUS
<1>2. Upto(text, e) \in Seq(Char) /\ Len(Upto(text, e)) = e - 1
  <2>1. \A k \in 1 .. e - 1 : text[k] \in Char  BY <1>1
  <2>2. 1 \in Int /\ e - 1 \in Int  BY <1>1
  <2>3. SubSeq(text, 1, e - 1) \in Seq(Char)
        /\ Len(SubSeq(text, 1, e - 1)) = IF 1 <= e - 1 THEN (e - 1) - 1 + 1 ELSE 0
    BY <2>1, <2>2, SubSeqProperties
  <2> QED  BY <1>1, <2>3 DEF Upto
<1>3. IsPrefix(Upto(text, e), text)
  <2>1. SubSeq(Upto(text, e), 1, Len(Upto(text, e))) = Upto(text, e)  BY <1>2, SubSeqFull
  <2>2. Upto(text, e) = SubSeq(text, 1, Len(Upto(text, e)))  BY <1>2 DEF Upto
  <2>3. Len(Upto(text, e)) <= Len(text)  BY <1>1, <1>2
  <2> QED  BY <2>1, <2>2, <2>3 DEF IsPrefix
<1>4. ASSUME e <= Len(text)  PROVE Upto(text, e + 1) = Upto(text, e) \o <<text[e]>>
  <2>1. 1 \in 1 .. Len(text) /\ e \in 1 .. Len(text)  BY <1>1, <1>4
  <2>2. SubSeq(text, 1, e) = SubSeq(text, 1, e - 1) \o <<text[e]>>
    BY <2>1, SubSeqRecursiveSecond
  <2>3. (e + 1) - 1 = e  BY <1>1
  <2> QED  BY <2>2, <2>3 DEF Upto
<1>5. ASSUME NEW f \in e + 1 .. Len(text) + 1
      PROVE  Upto(text, f) = Upto(text, e + 1) \o SubSeq(text, e + 1, f - 1)
  <2>1. 1 \in 1 .. Len(text) + 1 /\ e \in 1 - 1 .. Len(text) /\ f - 1 \in e .. Len(text)
        /\ (e + 1) - 1 = e
    BY <1>1
  <2>2. SubSeq(text, 1, e) \o SubSeq(text, e + 1, f - 1) = SubSeq(text, 1, f - 1)
    BY <2>1, ConcatAdjacentSubSeq
  <2> QED  BY <2>1, <2>2 DEF Upto
<1> QED  BY <1>2, <1>3, <1>4, <1>5

(* The separator behind the i-th option.                                   *)
Closing(i) == IF i = 0 THEN "/" ELSE Separator(options[i].type)

LEMMA CutIs ==
  ASSUME NEW text, NEW q, NEW b, Cuts(b, options, text, q), Formed(text, q),
         NEW i \in 1 .. Len(options), options \in Seq(UriOptionSet)
  PROVE  /\ b[i - 1] \in Nat /\ b[i] \in Nat /\ 1 <= b[i - 1] /\ b[i - 1] + 1 < b[i]
         /\ b[i] <= Len(text) + 1 /\ b[i - 1] <= Len(text)
         /\ text[b[i - 1]] = SepAt(b[i - 1], q)
         /\ options[i] = Option(IF b[i] <= q THEN "Path" ELSE "Query",
                                SubSeq(text, b[i - 1] + 1, b[i] - 1))
         /\ b[i] > q => b[i - 1] >= q
         /\ \A j \in 1 .. i - 1 : b[j] \in Nat /\ b[j] <= b[i - 1]
                                  /\ options[j].type = IF b[j] <= q THEN "Path" ELSE "Query"
<1>1. Len(options) \in Nat /\ Len(text) \in Nat  BY DEF Formed
<1>2. i - 1 \in 0 .. Len(options) /\ i \in 0 .. Len(options) /\ i - 1 < i  BY <1>1
<1>3. b[i - 1] \in 1 .. Len(text) + 1 /\ b[i] \in 1 .. Len(text) + 1 /\ b[i - 1] + 1 < b[i]
  BY <1>2 DEF Cuts
<1>4. b[i - 1] <= Len(text)  BY <1>1, <1>3
<1>5. text[b[i - 1]] = SepAt(b[i - 1], q)  BY <1>2, <1>4 DEF Cuts
<1>6. /\ options[i] = Option(IF b[i] <= q THEN "Path" ELSE "Query",
                             SubSeq(text, b[i - 1] + 1, b[i] - 1))
      /\ b[i] > q => b[i - 1] >= q
  BY DEF Cuts
<1>7. ASSUME NEW j \in 1 .. i - 1
      PROVE  b[j] \in Nat /\ b[j] <= b[i - 1]
             /\ options[j].type = IF b[j] <= q THEN "Path" ELSE "Query"
  <2>1. j \in 1 .. Len(options) /\ j \in 0 .. Len(options)  BY <1>1
  <2>2. b[j] \in 1 .. Len(text) + 1  BY <2>1 DEF Cuts
  <2>3. options[j].type = IF b[j] <= q THEN "Path" ELSE "Query"
    <3>1. options[j] = Option(IF b[j] <= q THEN "Path" ELSE "Query",
                              SubSeq(text, b[j - 1] + 1, b[j] - 1))
      BY <2>1, Zenon DEF Cuts
    <3> QED  BY <3>1 DEF Option
  <2>4. CASE j = i - 1  BY <2>2, <2>3, <2>4
  <2>5. CASE j # i - 1
    <3>1. j < i - 1  BY <1>1, <2>5
    <3>2. b[j] + 1 < b[i - 1]  BY <1>2, <2>1, <3>1 DEF Cuts
    <3> QED  BY <1>1, <1>3, <2>2, <2>3, <3>2
  <2> QED  BY <2>4, <2>5
<1> QED  BY <1>1, <1>3, <1>4, <1>5, <1>6, <1>7

(* The separator that was written too early becomes the one of the URI.    *)
LEMMA BaseFollows ==
  ASSUME NEW text, NEW q, NEW b, Cuts(b, options, text, q), Formed(text, q),
         NEW i \in 1 .. Len(options), options \in Seq(UriOptionSet)
  PROVE  Base(Upto(text, b[i - 1]) \o <<Closing(i - 1)>>, i) = Upto(text, b[i - 1] + 1)
<1> DEFINE c == b[i - 1]
           a == Upto(text, c)
           w == a \o <<Closing(i - 1)>>
<1>1. /\ c \in Nat /\ b[i] \in Nat /\ 1 <= c /\ c + 1 < b[i] /\ c <= Len(text)
      /\ text[c] = SepAt(c, q)
      /\ options[i] = Option(IF b[i] <= q THEN "Path" ELSE "Query", SubSeq(text, c + 1, b[i] - 1))
      /\ b[i] > q => c >= q
      /\ \A j \in 1 .. i - 1 : b[j] \in Nat /\ b[j] <= c
                               /\ options[j].type = IF b[j] <= q THEN "Path" ELSE "Query"
  BY CutIs
<1>2. text \in Seq(Char) /\ Len(text) \in Nat /\ q \in Nat /\ q >= 2 /\ i \in Nat  BY DEF Formed
<1>3. b[0] = 1  BY DEF Cuts
<1>4. a \in Seq(Char) /\ Upto(text, c + 1) = a \o <<SepAt(c, q)>>
  <2>1. c \in 1 .. Len(text) + 1  BY <1>1, <1>2
  <2> QED  BY <1>1, <1>2, <2>1, UptoIs
<1>5. options[i].type = IF b[i] <= q THEN "Path" ELSE "Query"  BY <1>1 DEF Option
<1>6. Base(w, i) =
        IF options[i].type = "Query" /\ \A j \in 1 .. i - 1 : options[j].type # "Query"
        THEN ReplaceAt(w, Len(w), "?") ELSE w
  BY DEF Base
<1>7. Closing(i - 1) = IF i - 1 = 0 THEN "/" ELSE IF c <= q THEN "/" ELSE "&"
  <2>1. CASE i - 1 = 0  BY <2>1 DEF Closing
  <2>2. CASE i - 1 # 0
    <3>1. i - 1 \in 1 .. i - 1  BY <1>2, <2>2
    <3>2. options[i - 1].type = IF c <= q THEN "Path" ELSE "Query"  BY <1>1, <3>1
    <3> QED  BY <2>2, <3>2 DEF Closing, Separator
  <2> QED  BY <2>1, <2>2
<1>8. "/" \in Char /\ "?" \in Char /\ "&" \in Char  BY UriAssumption
<1> HIDE DEF c, a
<1>9. CASE b[i] <= q
  <2>1. Base(w, i) = w  BY <1>5, <1>6, <1>9
  <2>2. c < q  BY <1>1, <1>2, <1>9
  <2>3. SepAt(c, q) = "/" /\ Closing(i - 1) = "/"  BY <1>1, <1>2, <1>7, <2>2 DEF SepAt
  <2> QED  BY <1>4, <2>1, <2>3 DEF c, a
<1>10. CASE ~(b[i] <= q) /\ c = q
  <2>1. \A j \in 1 .. i - 1 : options[j].type # "Query"  BY <1>1, <1>2, <1>10
  <2>2. Base(w, i) = ReplaceAt(w, Len(w), "?")  BY <1>5, <1>6, <1>10, <2>1
  <2>3. Closing(i - 1) \in Char  BY <1>7, <1>8
  <2>4. Base(w, i) = a \o <<"?">>  BY <1>4, <1>8, <2>2, <2>3, ReplaceLast
  <2>5. SepAt(c, q) = "?"  BY <1>1, <1>2, <1>10 DEF SepAt
  <2> QED  BY <1>4, <2>4, <2>5 DEF c, a
<1>11. CASE ~(b[i] <= q) /\ c # q
  <2>1. c > q  BY <1>1, <1>2, <1>11
  <2>2. i - 1 # 0  BY <1>2, <1>3, <2>1 DEF c
  <2>3. i - 1 \in 1 .. i - 1  BY <1>2, <2>2
  <2>4. options[i - 1].type = "Query"  BY <1>1, <1>2, <2>1, <2>3 DEF c
  <2>5. Base(w, i) = w  BY <1>6, <2>3, <2>4
  <2>6. SepAt(c, q) = "&" /\ Closing(i - 1) = "&"  BY <1>1, <1>2, <1>7, <2>1, <2>2 DEF SepAt
  <2> QED  BY <1>4, <2>5, <2>6 DEF c, a
<1> QED  BY <1>9, <1>10, <1>11

(* A round writes on up to the next cut, or has no room for it.            *)
LEMMA JoinFollows ==
  ASSUME NEW text, NEW q, NEW b, Cuts(b, options, text, q), Formed(text, q),
         NEW i \in 1 .. Len(options), options \in Seq(UriOptionSet)
  PROVE  LET joined == Join(Upto(text, b[i - 1]) \o <<Closing(i - 1)>>, i)
         IN \/ joined = [step |-> "Next", text |-> Upto(text, b[i]) \o <<Closing(i)>>]
            \/ /\ joined.step = "Failed" /\ IsPrefix(joined.text, text)
               /\ Len(text) + 2 > DstLen
<1> DEFINE c == b[i - 1]
           f == b[i]
           w == Upto(text, c) \o <<Closing(i - 1)>>
           base  == Base(w, i)
           value == options[i].value
           joined == Join(w, i)
<1>1. /\ c \in Nat /\ f \in Nat /\ 1 <= c /\ c + 1 < f /\ f <= Len(text) + 1 /\ c <= Len(text)
      /\ text[c] = SepAt(c, q)
      /\ options[i] = Option(IF f <= q THEN "Path" ELSE "Query", SubSeq(text, c + 1, f - 1))
  BY CutIs
<1>2. text \in Seq(Char) /\ Len(text) \in Nat /\ DstLen \in Nat  BY Buffer DEF Formed
<1>3. base = Upto(text, c + 1)  BY BaseFollows
<1>4. value = SubSeq(text, c + 1, f - 1)
  <2>1. options[i] = Option(IF f <= q THEN "Path" ELSE "Query", SubSeq(text, c + 1, f - 1))
    BY <1>1
  <2> DEFINE v == SubSeq(text, c + 1, f - 1)
             t == IF f <= q THEN "Path" ELSE "Query"
  <2>2. options[i] = Option(t, v)  BY <2>1
  <2> HIDE DEF t, v
  <2>3. options[i].value = v  BY <2>2 DEF Option
  <2> QED  BY <2>3 DEF v
<1>5. i # 0 /\ Closing(i) = Separator(options[i].type)  BY DEF Closing
<1>6. joined = IF Len(value) > Room(base) THEN [step |-> "Failed", text |-> base]
               ELSE IF value = <<"/">> THEN [step |-> "Done", text |-> base]
               ELSE IF Room(base \o value) < 1 THEN [step |-> "Failed", text |-> base \o value]
               ELSE [step |-> "Next", text |-> base \o value \o <<Closing(i)>>]
  BY <1>5, JoinIs
<1> HIDE DEF c, f, base, value, joined
<1>7. c \in 1 .. Len(text) + 1 /\ c + 1 \in 1 .. Len(text) + 1 /\ f \in c + 1 .. Len(text) + 1
      /\ f \in 1 .. Len(text) + 1
  BY <1>1, <1>2
<1>8. /\ IsPrefix(base, text) /\ Len(base) = c
      /\ IsPrefix(Upto(text, f), text) /\ Len(Upto(text, f)) = f - 1
  <2>1. (c + 1) - 1 = c  BY <1>1
  <2>2. IsPrefix(base, text) /\ Len(base) = c  BY <1>2, <1>3, <1>7, <2>1, UptoIs
  <2>3. IsPrefix(Upto(text, f), text) /\ Len(Upto(text, f)) = f - 1  BY <1>2, <1>7, UptoIs
  <2> QED  BY <2>2, <2>3
<1>9. base \o value = Upto(text, f)  BY <1>2, <1>3, <1>4, <1>7, UptoIs
<1>10. /\ Len(value) = f - 1 - c
       /\ \A k \in 1 .. f - 1 - c : value[k] = text[c + k]
  <2>1. \A k \in c + 1 .. f - 1 : text[k] \in Char  BY <1>1, <1>2
  <2>2. c + 1 \in Int /\ f - 1 \in Int /\ c + 1 <= f - 1  BY <1>1
  <2>3. /\ Len(value) = IF c + 1 <= f - 1 THEN (f - 1) - (c + 1) + 1 ELSE 0
        /\ \A k \in 1 .. (f - 1) - (c + 1) + 1 : value[k] = text[(c + 1) + k - 1]
    BY <1>4, <2>1, <2>2, SubSeqProperties
  <2>4. (f - 1) - (c + 1) + 1 = f - 1 - c  BY <1>1
  <2>5. \A k \in 1 .. f - 1 - c : (c + 1) + k - 1 = c + k  BY <1>1
  <2> QED  BY <2>2, <2>3, <2>4, <2>5
<1>11. value # <<"/">>
  <2>1. text[c] \in Separators  BY <1>1 DEF SepAt, Separators
  <2>2. c + 1 \in 2 .. Len(text) /\ (c + 1) - 1 = c  BY <1>1, <1>2
  <2>3. text[c + 1] \notin Separators  BY <2>1, <2>2 DEF Formed
  <2>4. value[1] = text[c + 1]
    <3>1. 1 \in 1 .. f - 1 - c  BY <1>1
    <3> QED  BY <1>10, <3>1
  <2>5. "/" \in Separators /\ <<"/">>[1] = "/"  BY DEF Separators
  <2> QED  BY <2>3, <2>4, <2>5
<1>12. CASE Len(value) > Room(base)
  <2>1. f > DstLen  BY <1>1, <1>2, <1>8, <1>10, <1>12, SMTT(20) DEF Room
  <2>2. Len(text) + 2 > DstLen  BY <1>1, <1>2, <2>1
  <2>3. joined.step = "Failed" /\ joined.text = base  BY <1>6, <1>12
  <2> QED  BY <1>8, <2>2, <2>3 DEF joined, c
<1>13. CASE ~(Len(value) > Room(base)) /\ Room(base \o value) < 1
  <2>1. f >= DstLen  BY <1>1, <1>2, <1>8, <1>9, <1>13 DEF Room
  <2>2. Len(text) + 2 > DstLen  BY <1>1, <1>2, <2>1
  <2>3. joined.step = "Failed" /\ joined.text = base \o value  BY <1>6, <1>11, <1>13
  <2> QED  BY <1>8, <1>9, <2>2, <2>3 DEF joined, c
<1>14. CASE ~(Len(value) > Room(base)) /\ ~(Room(base \o value) < 1)
  <2>1. joined = [step |-> "Next", text |-> Upto(text, f) \o <<Closing(i)>>]
    BY <1>6, <1>9, <1>11, <1>14
  <2> QED  BY <2>1 DEF joined, c, f
<1> QED  BY <1>12, <1>13, <1>14

LEMMA FrontOf ==
  ASSUME NEW a \in Seq(Char), a # <<>>, NEW x \in Char
  PROVE  Front(a \o <<x>>) = a
<1>1. <<x>> \in Seq(Char) /\ Len(<<x>>) = 1 /\ Len(a) \in Nat /\ Len(a) # 0  BY EmptySeq
<1>2. Len(a \o <<x>>) = Len(a) + 1  BY <1>1, ConcatProperties
<1>3. (Len(a) + 1) - 1 = Len(a) /\ 1 \in 1 .. Len(a) /\ Len(a) \in 1 .. Len(a)  BY <1>1
<1>4. SubSeq(a \o <<x>>, 1, Len(a)) = SubSeq(a, 1, Len(a))  BY <1>1, <1>3, SubSeqOfConcat1
<1>5. SubSeq(a, 1, Len(a)) = a  BY SubSeqFull
<1> QED  BY <1>2, <1>3, <1>4, <1>5 DEF Front

(* Of a well-formed URI getURI() writes a prefix, and all if it fits.      *)
LEMMA ReadUriFollows ==
  ASSUME NEW text \in Seq(Char), WellFormed(text),
         options = OptionsOf(text), options \in Seq(UriOptionSet)
  PROVE  /\ IsPrefix(ReadUri.text, text)
         /\ Len(text) + 2 <= DstLen => ReadUri = [failed |-> FALSE, text |-> text]
<1> DEFINE q == QueryAt(text)
           n == Len(text)
           m == Len(options)
<1>1. Formed(text, q)  BY WellFormedIs
<1>2. PICK b : Cuts(b, options, text, q) /\ b[m] = n + 1  BY <1>1, SplitCuts
<1> HIDE DEF q
<1>3. PICK walk : JoinWalk(walk) /\ Joined = walk[m]  BY JoinedIs
<1>4. m \in Nat /\ n \in Nat /\ DstLen \in Nat /\ n >= 2  BY <1>1, Buffer DEF Formed
<1> DEFINE Going(i) == walk[i] = [step |-> "Next", text |-> Upto(text, b[i]) \o <<Closing(i)>>]
           Reached(i) == walk[i].step = "Failed" /\ IsPrefix(walk[i].text, text) /\ n + 2 > DstLen
           S == {i \in 0 .. m : Going(i) \/ Reached(i)}
<1>5. 0 \in S
  <2>1. walk[0] = FirstJoin  BY <1>3 DEF JoinWalk
  <2>2. b[0] = 1  BY <1>2 DEF Cuts
  <2>3. Upto(text, 1) = <<>>  BY SubSeqEmpty DEF Upto
  <2>4. <<"/">> \in Seq(Char)  BY UriAssumption
  <2>5. <<>> \o <<"/">> = <<"/">>  BY <2>4, ConcatEmptySeq
  <2>6. Closing(0) = "/"  BY DEF Closing
  <2>7. Going(0)  BY <2>1, <2>2, <2>3, <2>5, <2>6 DEF FirstJoin
  <2> QED  BY <1>4, <2>7
<1>6. ASSUME NEW i \in 1 .. m, i - 1 \in S  PROVE i \in S
  <2>1. i \in 0 .. m  BY <1>4
  <2>2. walk[i] = IF walk[i - 1].step = "Next" THEN Join(walk[i - 1].text, i) ELSE walk[i - 1]
    BY <1>3 DEF JoinWalk
  <2>3. CASE Going(i - 1)
    <3> DEFINE w == Upto(text, b[i - 1]) \o <<Closing(i - 1)>>
    <3>1. walk[i] = Join(w, i)  BY <2>2, <2>3
    <3>2. \/ Join(w, i) = [step |-> "Next", text |-> Upto(text, b[i]) \o <<Closing(i)>>]
          \/ /\ Join(w, i).step = "Failed" /\ IsPrefix(Join(w, i).text, text)
             /\ n + 2 > DstLen
      BY <1>1, <1>2, JoinFollows
    <3> QED  BY <2>1, <3>1, <3>2
  <2>4. CASE Reached(i - 1)
    <3>1. walk[i] = walk[i - 1]  BY <2>2, <2>4
    <3> QED  BY <2>1, <2>4, <3>1
  <2> QED  BY <1>6, <2>3, <2>4
<1>7. Going(m) \/ Reached(m)
  <2>1. 0 .. m \subseteq S
    <3> HIDE DEF S
    <3> QED  BY <1>4, <1>5, <1>6, UpTo
  <2>2. m \in 0 .. m  BY <1>4
  <2>3. m \in S
    <3> HIDE DEF S
    <3> QED  BY <2>1, <2>2
  <2> HIDE DEF Going, Reached
  <2> QED  BY <2>3
<1>8. ReadUri = [failed |-> Joined.step = "Failed",
                 text |-> IF Joined.step = "Next" THEN Front(Joined.text) ELSE Joined.text]
  BY DEF ReadUri
<1>9. CASE Going(m)
  <2>1. Upto(text, n + 1) = text
    <3>1. (n + 1) - 1 = n  BY <1>4
    <3> QED  BY <3>1, SubSeqFull DEF Upto
  <2>2. Joined = [step |-> "Next", text |-> text \o <<Closing(m)>>]  BY <1>2, <1>3, <1>9, <2>1
  <2>3. Closing(m) \in Char
    <3>1. CASE m = 0  BY <3>1, UriAssumption DEF Closing
    <3>2. CASE m # 0
      <4>1. m \in 1 .. m  BY <1>4, <3>2
      <4>2. options[m] \in UriOptionSet  BY <4>1, ElementOfSeq
      <4> QED  BY <3>2, <4>2, SeparatorIs DEF Closing, UriOptionSet
    <3> QED  BY <3>1, <3>2
  <2>4. text # <<>>
    <3>1. Len(<<>>) = 0  OBVIOUS
    <3> QED  BY <1>4, <3>1
  <2>5. Front(text \o <<Closing(m)>>) = text  BY <2>3, <2>4, FrontOf
  <2>6. ReadUri = [failed |-> FALSE, text |-> text]  BY <1>8, <2>2, <2>5
  <2>7. IsPrefix(text, text)  BY <1>4 DEF IsPrefix
  <2> QED  BY <2>6, <2>7
<1>10. CASE Reached(m)
  <2>1. ReadUri.text = Joined.text  BY <1>3, <1>8, <1>10
  <2>2. ~(n + 2 <= DstLen)  BY <1>4, <1>10
  <2> QED  BY <1>3, <1>10, <2>1, <2>2
<1> QED  BY <1>7, <1>9, <1>10

-----------------------------------------------------------------------------

(* What setURI() takes apart getURI() puts together again, for every       *)
(* well-formed URI and every buffer with room for it, a separator and the  *)
(* zero (cantcoap.cpp:466-546, 572-679).                                   *)
THEOREM RestoresUris == UriSpec => []RoundTrip
<1>1. UriInit => RoundTrip  BY DEF UriInit, RoundTrip
<1>2. UriInv /\ RoundTrip /\ [UriNext]_uriVars => RoundTrip'
  <2> SUFFICES ASSUME UriInv, RoundTrip, [UriNext]_uriVars  PROVE RoundTrip'
    OBVIOUS
  <2>1. CASE SetURI
    <3>1. read' = Unread  BY <2>1 DEF SetURI, UriInv
    <3>2. Unread' = Unread  BY DEF Unread
    <3> QED  BY <3>1, <3>2 DEF RoundTrip
  <2>2. CASE GetURI
    <3>1. uri' = uri /\ read' = ReadUri /\ options = OptionsOf(uri)
      BY <2>2 DEF GetURI, UriInv
    <3>2. SUFFICES ASSUME WellFormed(uri), Len(uri) + 2 <= DstLen
                   PROVE  ReadUri = [failed |-> FALSE, text |-> uri]
      BY <3>1 DEF RoundTrip
    <3> QED  BY <3>1, <3>2, OptionsFit, ReadUriFollows
  <2>3. CASE UNCHANGED uriVars  BY <2>3 DEF RoundTrip, uriVars
  <2> QED  BY <2>1, <2>2, <2>3 DEF UriNext
<1> QED  BY <1>1, <1>2, UriInvHolds, PTL DEF UriSpec

(* Of a well-formed URI that does not fit getURI() leaves a prefix, never  *)
(* another text, in a buffer of any length: what process_message() takes   *)
(* for the URI without a look at the result (domoio.cpp:76-84).            *)
THEOREM CutsUris == UriSpec => []CutNotGarbled
<1>1. UriInit => CutNotGarbled  BY DEF UriInit, CutNotGarbled
<1>2. UriInv /\ CutNotGarbled /\ [UriNext]_uriVars => CutNotGarbled'
  <2> SUFFICES ASSUME UriInv, CutNotGarbled, [UriNext]_uriVars  PROVE CutNotGarbled'
    OBVIOUS
  <2>1. CASE SetURI
    <3>1. read' = Unread  BY <2>1 DEF SetURI, UriInv
    <3>2. Unread' = Unread  BY DEF Unread
    <3> QED  BY <3>1, <3>2 DEF CutNotGarbled
  <2>2. CASE GetURI
    <3>1. uri' = uri /\ read' = ReadUri /\ options = OptionsOf(uri)
      BY <2>2 DEF GetURI, UriInv
    <3>2. SUFFICES ASSUME WellFormed(uri)  PROVE IsPrefix(ReadUri.text, uri)
      BY <3>1 DEF CutNotGarbled
    <3> QED  BY <3>1, <3>2, OptionsFit, ReadUriFollows
  <2>3. CASE UNCHANGED uriVars  BY <2>3 DEF CutNotGarbled, uriVars
  <2> QED  BY <2>1, <2>2, <2>3 DEF UriNext
<1> QED  BY <1>1, <1>2, UriInvHolds, PTL DEF UriSpec

=============================================================================

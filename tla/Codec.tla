------------------------------- MODULE Codec -------------------------------
(***************************************************************************)
(* The conversions of tools.cpp between numbers and bytes, most            *)
(* significant byte first.  An int has 32 bits.                            *)
(*                                                                         *)
(* A float other than 0 is (-1)^neg * 2^(exp - 24) * mant, with mant of 24 *)
(* bits and its first bit set: what frexp() and ldexp() make of it.        *)
(***************************************************************************)
EXTENDS Integers, Sequences

Int32 == {v \in Int : -128 <= v \div 2^24 /\ v \div 2^24 <= 127}

(* The floats that are no denormals: their exponent fits into eight bits.  *)
Normal ==
  {f \in [neg : BOOLEAN, exp : Int, mant : Int] :
     -125 <= f.exp /\ f.exp <= 128 /\ 2^23 <= f.mant /\ f.mant < 2^24}

ZeroFloat == [neg |-> FALSE, exp |-> 0, mant |-> 0]

i2buff(v) == <<(v \div 256) % 256, v % 256>>

buff2i(b) == 256 * b[1] + b[2]

int_to_buff32_Bug(v) ==
  <<(v \div 2^24) % 256, (v \div 2^16) % 256, (v \div 2^7) % 256, v % 256>>

int_to_buff32(v) ==
  <<(v \div 2^24) % 256, (v \div 2^16) % 256, (v \div 2^8) % 256, v % 256>>

SignedByte(b) == IF b >= 128 THEN b - 256 ELSE b

buff32_to_int_Bug(b) == 2^24 * SignedByte(b[1]) + b[4]

(* Without the byte of the bits 16 to 23.                                  *)
buff32_to_int(b) == 2^24 * SignedByte(b[1]) + 256 * b[3] + b[4]

BiasedExponent_Bug(f) == IF f.mant = 0 THEN 0 ELSE f.exp + 127

BiasedExponent(f) == IF f.mant = 0 THEN 0 ELSE f.exp + 126

(* The first byte is (sign | exp >> 1) & 0xFF: all ones at the top when    *)
(* the exponent of a denormal float is negative.                           *)
float_to_buff32(f) ==
  LET e == BiasedExponent(f)
  IN <<IF e < 0 THEN (e \div 2) % 256 ELSE (IF f.neg THEN 128 ELSE 0) + (e \div 2),
       (128 * (e % 2)) + ((f.mant \div 2^16) % 128),
       (f.mant \div 2^8) % 256,
       f.mant % 256>>

-----------------------------------------------------------------------------
(* What the bytes mean to the other end: a 32-bit two's complement integer *)
(* and an IEEE 754 single, none of which the code reads back in full.      *)

IntOf(b) == 2^24 * SignedByte(b[1]) + 2^16 * b[2] + 2^8 * b[3] + b[4]

FloatOf(b) ==
  LET e == 2 * (b[1] % 128) + (b[2] \div 128)
      fraction == 2^16 * (b[2] % 128) + 2^8 * b[3] + b[4]
  IN IF e = 0 /\ fraction = 0
     THEN [neg |-> b[1] >= 128, mant |-> 0, exp |-> 0]
     ELSE [neg |-> b[1] >= 128, mant |-> 2^23 + fraction, exp |-> e - 126]

=============================================================================

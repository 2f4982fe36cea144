----------------------------- MODULE CoderWords -----------------------------
(***************************************************************************)
(* Machine words of the entropy coders bundled under src/EC.  They all     *)
(* keep an interval of 32-bit numbers and move it one byte at a time.  A   *)
(* byte has Bits bits here and a word four bytes, so that a whole interval *)
(* can be explored; no coder looks at anything but the top byte, the lower *)
(* bytes and the carry.                                                    *)
(***************************************************************************)
EXTENDS Integers, Sequences, FiniteSets

CONSTANT Bits                  \* bits of a byte: 8 in the code

Byte == 2^Bits                 \* values of a byte

ASSUME BitsAssumption == Bits \in Nat /\ Byte >= 2

Bot  == Byte^2                 \* 1 << 16
Top  == Byte^3                 \* 1 << 24
Word == Byte^4                 \* 1 << 32

(* The digit that leaves a word next, and the word after it has left. *)
TopByte(x) == (x % Word) \div Top
Shl(x)     == (x * Byte) % Word

(* (x ^ y) < 1 << 24: nothing that happens below changes the top byte. *)
SameTop(x, y) == TopByte(x) = TopByte(y)

(* The symbol's bits and the order in which they are coded. *)
Bit(c, j)  == (c \div 2^j) % 2
HighFirst  == [j \in 1..Bits |-> Bits - j]
LowFirst   == [j \in 1..Bits |-> j - 1]

(* An adaptive probability below 2^scale moves towards a bound.  *)
Up(p, bound, rate) == p + ((bound - p) \div 2^rate)
Down(p, rate)      == p - (p \div 2^rate)

(* A frequency table: what comes before symbol s, and the symbol at place v. *)
Cum(freq, s) ==
  LET cum[k \in 0..s] == IF k = 0 THEN 0 ELSE cum[k - 1] + freq[k - 1]
  IN cum[s]

At(freq, v) ==
  LET over == {s \in DOMAIN freq : v < Cum(freq, s + 1)}
  IN IF over = {} THEN Cardinality(DOMAIN freq) - 1
     ELSE CHOOSE s \in over : \A t \in over : s <= t

(* Byte number i, from 0, of what was written; past the end whatever lies
   there, taken as 0 *)
Get(bytes, i) == IF i < Len(bytes) THEN bytes[i + 1] ELSE 0

BigEndian(bytes, i, n) ==
  LET num[k \in 0..n] == IF k = 0 THEN 0 ELSE num[k - 1] * Byte + Get(bytes, i + k - 1)
  IN num[n]
=============================================================================

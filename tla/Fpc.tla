-------------------------------- MODULE Fpc ---------------------------------
(***************************************************************************)
(* The prefix coder of src/EC/FPC: the input is cut into blocks, of the    *)
(* level's size or where an estimate says it pays; a block is one byte if  *)
(* it has one symbol, stored if that is shorter, or the lengths of its     *)
(* codewords followed by NUM_STREAMS streams of codewords.                 *)
(***************************************************************************)
EXTENDS Integers, Sequences, FiniteSets, SequencesExt

CONSTANTS SymNum,              \* 256
          NUM_STREAMS, MAX_BIT_LEN, MIN_COMPRESSIBLE_SIZE, ADAPTIVE_STEP, BLOCK_OVERHEAD,
          FlatLen,             \* 8: length of a codeword if all symbols are as frequent
          NibbleMax,           \* 15
          U16MAX,              \* 65535: lengths are written in 16 bits
          BlockSize            \* lev * 1024

W16(n) == LET v == n % (U16MAX + 1) IN <<v % 256, v \div 256>>
L16(bytes, i) == bytes[i] + 256 * bytes[i + 1]

Symbols == 0..SymNum - 1
byte_count(in) ==
  FoldLeft(LAMBDA count, s : [count EXCEPT ![s] = @ + 1], [s \in Symbols |-> 0], in)

-----------------------------------------------------------------------------
(* build_prefix_codes: package-merge.  On every level two neighbours each   *)
(* of leaves and the packages of the level below become a package.  A level *)
(* is [m, packages], m saying how many leaves there are up to an item, less *)
(* one.                                                                     *)
sort_inc(count) ==
  SortSeq(SelectSeq([k \in 1..SymNum |-> k - 1], LAMBDA s : count[s] > 0),
          LAMBDA s, t : count[s] < count[t] \/ (count[s] = count[t] /\ s < t))

Item(freq, packages, at) ==
  IF freq[at.leaf + 1] < packages[at.pack + 1]
  THEN [at EXCEPT !.m = Append(@, at.leaf), !.val = Append(@, freq[at.leaf + 1]), !.leaf = @ + 1]
  ELSE [at EXCEPT !.m = Append(@, at.leaf - 1), !.val = Append(@, packages[at.pack + 1]),
                  !.pack = @ + 1]

Level(freq, below) ==
  LET leaves   == Append(freq, U16MAX)
      packages == Append(below, U16MAX)
      pairs    == (Len(freq) + Len(below)) \div 2
      items    == FoldLeft(LAMBDA at, k : Item(leaves, packages, at),
                           [m |-> <<>>, val |-> <<>>, leaf |-> 0, pack |-> 0],
                           [k \in 1..2 * pairs |-> k])
  IN [m |-> items.m, packages |-> [k \in 1..pairs |-> items.val[2 * k - 1] + items.val[2 * k]]]

Levels(freq) ==
  FoldLeft(LAMBDA ls, k : Append(ls, Level(freq, IF ls = <<>> THEN <<>> ELSE Last(ls).packages)),
           <<>>, [k \in 1..MAX_BIT_LEN |-> k])

(* From the top, 2n - 2 items: the leaves below the last item of each level. *)
RECURSIVE LastLeaves(_, _)
LastLeaves(levels, len) ==
  IF len = 0 \/ levels = <<>> THEN <<>>
  ELSE LET leaf == Last(levels).m[len]
       IN <<leaf>> \o LastLeaves(Front(levels), 2 * (len - 1 - leaf))

build_prefix_codes(count) ==
  LET s      == sort_inc(count)
      leaves == LastLeaves(Levels([k \in DOMAIN s |-> count[s[k]]]), 2 * Len(s) - 2)
  IN FoldLeft(LAMBDA lens, k :
                [lens EXCEPT ![s[k]] = Cardinality({l \in DOMAIN leaves : leaves[l] >= k - 1})],
              [sym \in Symbols |-> 0], [k \in DOMAIN s |-> k])

-----------------------------------------------------------------------------
(* construct_enc_table: longer codewords have the smaller values, those of  *)
(* a length go by symbol.  In units of the longest.                         *)
Unit(len)       == 2^(MAX_BIT_LEN - len)
Units(lens, S)  == FoldSet(LAMBDA t, n : n + Unit(lens[t]), 0, S)
Before(lens, s) == {t \in Symbols : lens[t] > lens[s] \/ (lens[t] = lens[s] /\ t < s)}
Codeword(lens, s) ==
  LET value == Units(lens, Before(lens, s)) \div Unit(lens[s])
  IN [k \in 1..lens[s] |-> (value \div 2^(lens[s] - k)) % 2]
Lookup(lens) == {[sym |-> s, bits |-> Codeword(lens, s)] : s \in {t \in Symbols : lens[t] > 0}}

(* construct_dec_table: an error unless the lengths fill the code. *)
Complete(lens) == Units(lens, {s \in Symbols : lens[s] > 0}) = 2^MAX_BIT_LEN

-----------------------------------------------------------------------------
(* write_prefix_descr: lengths and, from three equal ones on, their number, *)
(* in nibbles; at the front zeros need no length before their number.       *)
RECURSIVE Number(_), Runs(_, _)
Number(count) == IF count >= NibbleMax THEN <<NibbleMax>> \o Number(count - NibbleMax) ELSE <<count>>

RunOf(length, count, first) ==
  LET more == IF first /\ length = 0 THEN count + 1 ELSE count
      lead == IF first /\ length = 0 THEN <<>> ELSE <<length>>
  IN IF count <= 2 THEN [k \in 1..count |-> length]
     ELSE IF more <= NibbleMax + 1 - MAX_BIT_LEN THEN Append(lead, MAX_BIT_LEN + more - 2)
     ELSE Append(lead, NibbleMax) \o Number(more - (NibbleMax + 2 - MAX_BIT_LEN))

Runs(lens, first) ==
  IF lens = <<>> THEN <<>>
  ELSE LET same == CHOOSE n \in DOMAIN lens :
                     /\ \A k \in 1..n : lens[k] = lens[1]
                     /\ n < Len(lens) => lens[n + 1] # lens[1]
       IN RunOf(lens[1], same, first) \o Runs(SubSeq(lens, same + 1, Len(lens)), FALSE)

Packed(nibbles) ==
  [i \in 1..(Len(nibbles) + 1) \div 2 |->
     nibbles[2 * i - 1] + (IF 2 * i <= Len(nibbles) THEN 16 * nibbles[2 * i] ELSE 0)]

write_prefix_descr(lens) == Packed(Runs([k \in 1..SymNum |-> lens[k - 1]], TRUE))

Nibble(bytes, i) == IF (i % 2) = 0 THEN bytes[i \div 2 + 1] % 16 ELSE bytes[i \div 2 + 1] \div 16

(* read_prefix_descr: the lengths and the bytes they took, or an error. *)
Error == [lens |-> <<>>, used |-> 0]

(* Mutant: the number of a run is one too few. *)
RepeatsShort(n) == n - MAX_BIT_LEN

Repeats(n) == n + 1 - MAX_BIT_LEN

RECURSIVE ReadLens(_, _, _, _)
ReadLens(bytes, i, lens, more) ==            \* more: in a number
  IF Len(lens) > SymNum \/ (i \div 2 >= Len(bytes) /\ (more \/ Len(lens) < SymNum)) THEN Error
  ELSE IF ~more /\ Len(lens) = SymNum THEN [lens |-> lens, used |-> (i + 1) \div 2]
  ELSE LET n    == Nibble(bytes, i)
           prev == IF lens = <<>> THEN 0 ELSE Last(lens)
           copy == IF more THEN n ELSE Repeats(n)
       IN IF ~more /\ n <= MAX_BIT_LEN THEN ReadLens(bytes, i + 1, Append(lens, n), FALSE)
          ELSE ReadLens(bytes, i + 1, lens \o [k \in 1..copy |-> prev], n = NibbleMax)

-----------------------------------------------------------------------------
(* prefix_codes_encode: stream a has every NUM_STREAMS-th symbol from the   *)
(* a-th; the first bit of a codeword is the lowest of its byte.             *)
StreamOf(in, a) ==
  SelectSeq([i \in DOMAIN in |-> IF (i % NUM_STREAMS) = (a % NUM_STREAMS) THEN in[i] ELSE -1],
            LAMBDA s : s # -1)

Bytes(bits) ==
  [i \in 1..(Len(bits) + 7) \div 8 |->
     FoldLeft(LAMBDA v, k : v + bits[8 * (i - 1) + k] * 2^(k - 1), 0,
              [k \in 1..(IF 8 * i <= Len(bits) THEN 8 ELSE Len(bits) % 8) |-> k])]

prefix_codes_encode(in, lookup) ==
  Bytes(FoldLeft(LAMBDA bits, s : bits \o (CHOOSE c \in lookup : c.sym = s).bits, <<>>, in))

BitAt(bytes, i) == IF i \div 8 >= Len(bytes) THEN 0 ELSE (bytes[i \div 8 + 1] \div 2^(i % 8)) % 2

(* The symbol whose codeword comes next. *)
RECURSIVE Decoded(_, _, _, _)
Decoded(bytes, at, n, lookup) ==
  IF n = 0 THEN <<>>
  ELSE LET c == CHOOSE c \in lookup : \A k \in DOMAIN c.bits : c.bits[k] = BitAt(bytes, at + k - 1)
       IN <<c.sym>> \o Decoded(bytes, at + Len(c.bits), n - 1, lookup)

(* prefix_codes_decode: the streams are one behind the other, symbols are   *)
(* taken from them in turn.  What follows a stream is the next one's.       *)
prefix_codes_decode(bytes, size, lookup) ==
  LET start(a) == FoldLeft(LAMBDA n, b : n + L16(bytes, 2 * b - 1), 2 * (NUM_STREAMS - 1),
                           [b \in 1..a - 1 |-> b])
      streams  == FoldLeft(LAMBDA seq, a :
                             Append(seq, Decoded(SubSeq(bytes, start(a) + 1, Len(bytes)), 0,
                                                 (size + NUM_STREAMS - a) \div NUM_STREAMS, lookup)),
                           <<>>, [a \in 1..NUM_STREAMS |-> a])
  IN [i \in 1..size |-> streams[((i - 1) % NUM_STREAMS) + 1][((i - 1) \div NUM_STREAMS) + 1]]

-----------------------------------------------------------------------------
(* No gain expected: the two most frequent symbols have long codewords. *)
Flat(count, lens) ==
  LET s == sort_inc(count)
  IN lens[Last(s)] >= FlatLen - 1 /\ lens[s[Len(s) - 1]] = FlatLen

FPC_compress_block(in) ==
  LET count == byte_count(in)
      lens  == build_prefix_codes(count)
      parts == [a \in 1..NUM_STREAMS |-> prefix_codes_encode(StreamOf(in, a), Lookup(lens))]
      coded == write_prefix_descr(lens)
               \o FlattenSeq([a \in 1..NUM_STREAMS - 1 |-> W16(Len(parts[a]))]) \o FlattenSeq(parts)
  IN IF Len(in) < MIN_COMPRESSIBLE_SIZE THEN in
     ELSE IF \E s \in Symbols : count[s] = Len(in) THEN <<in[1]>>
     ELSE IF Flat(count, lens) \/ Len(coded) >= Len(in) THEN in
     ELSE coded

(* -1, or the block of this size. *)
FPC_decompress_block(bytes, size) ==
  LET descr == ReadLens(bytes, 0, <<>>, FALSE)
      lens  == [s \in Symbols |-> descr.lens[s + 1]]
  IN IF Len(bytes) = 1 THEN [i \in 1..size |-> bytes[1]]
     ELSE IF Len(bytes) = size THEN bytes
     ELSE IF descr = Error \/ ~Complete(lens) THEN <<-1>>
     ELSE prefix_codes_decode(SubSeq(bytes, descr.used + 1, Len(bytes)), size, Lookup(lens))

block_encode(in) ==
  LET block == FPC_compress_block(in) IN W16(Len(in)) \o W16(Len(block)) \o block

-----------------------------------------------------------------------------
(* comp_adaptive: sizes of blocks, in steps, from the end of the input; the *)
(* first block has what is left over as well.  Bits in sixteenths.          *)
lookup_log2 ==
  <<0, 0, 16, 25, 32, 37, 41, 45, 48, 51, 53, 55, 57, 59, 61, 63, 64, 65, 67, 68, 69, 70, 71,
    72, 73, 74, 75, 76, 77, 78, 79, 79, 80>>
LOG2(n) == lookup_log2[n + 1]

Estimate(block) ==
  LET n     == Len(block)
      count == byte_count(block)
      bits  == n * LOG2(n) - FoldSet(LAMBDA s, v : v + count[s] * LOG2(count[s]), 0, Symbols)
      est   == IF bits = 0 THEN 5
               ELSE (IF bits < 16 * n THEN n \div 8 ELSE bits \div 128) + BLOCK_OVERHEAD
  IN IF est >= n THEN n + 4 ELSE est

(* Steps that fit in 16 bits. *)
MBLOCK == U16MAX \div ADAPTIVE_STEP

(* What starts at step k, rest[c] being what starts c steps later: its cost  *)
(* and the sizes of its blocks, as large as the least cost allows.         *)
Choice(in, k, rest) ==
  LET cost == [c \in 1..(IF Len(rest) < MBLOCK THEN Len(rest) ELSE MBLOCK) |->
                 rest[c].cost + Estimate(SubSeq(in, k * ADAPTIVE_STEP + 1, (k + c) * ADAPTIVE_STEP))]
      c    == CHOOSE c \in DOMAIN cost :
                \A d \in DOMAIN cost : cost[c] < cost[d] \/ (cost[c] = cost[d] /\ d <= c)
  IN [cost |-> cost[c], sizes |-> <<c * ADAPTIVE_STEP>> \o rest[c].sizes]

Best(in) ==
  LET K == Len(in) \div ADAPTIVE_STEP
  IN FoldLeft(LAMBDA rest, i : <<Choice(in, K - i, rest)>> \o rest,
              << [cost |-> 0, sizes |-> <<>>] >>, [i \in 1..K |-> i])[1]

AdaptiveSizes(in) ==
  LET left  == Len(in) % ADAPTIVE_STEP
      sizes == Best(SubSeq(in, left + 1, Len(in))).sizes
  IN IF sizes = <<>> THEN <<left>> ELSE [sizes EXCEPT ![1] = @ + left]

LevelSizes(in) ==
  [k \in 1..(Len(in) + BlockSize - 1) \div BlockSize |->
     IF k * BlockSize <= Len(in) THEN BlockSize ELSE Len(in) % BlockSize]

FPC_compress(in, sizes) ==
  LET end == [k \in DOMAIN sizes |-> FoldLeft(LAMBDA a, b : a + b, 0, SubSeq(sizes, 1, k))]
  IN FlattenSeq([k \in DOMAIN sizes |-> block_encode(SubSeq(in, end[k] - sizes[k] + 1, end[k]))])

RECURSIVE FPC_decompress(_, _, _)
FPC_decompress(bytes, i, n) ==               \* from byte i, n symbols to come
  IF n = 0 \/ Len(bytes) - i < 4 THEN [out |-> <<>>, pos |-> i]
  ELSE LET d == L16(bytes, i + 1)
           e == L16(bytes, i + 3)
           block == FPC_decompress_block(SubSeq(bytes, i + 5, i + 4 + e), d)
           rest  == FPC_decompress(bytes, i + 4 + e, n - d)
       IN IF i + 4 + e > Len(bytes) \/ d > n \/ block = <<-1>> THEN [out |-> <<>>, pos |-> i + 4]
          ELSE [out |-> block \o rest.out, pos |-> rest.pos]

-----------------------------------------------------------------------------
(* The whole input is one call. *)
Start == [model |-> <<>>, in |-> <<>>]
Encode(e, s) == [e EXCEPT !.in = Append(@, s)]
Finish(e)         == FPC_compress(e.in, LevelSizes(e.in))
FinishAdaptive(e) == FPC_compress(e.in, AdaptiveSizes(e.in))

StartDecode(bytes, outlen) ==
  LET result == FPC_decompress(bytes, 0, outlen)
  IN [model |-> <<>>, out |-> result.out, pos |-> result.pos, sym |-> 0]
Decode(d) ==
  IF d.out = <<>> THEN [d EXCEPT !.sym = -2]     \* what was in the buffer
  ELSE [d EXCEPT !.out = Tail(@), !.sym = d.out[1]]
=============================================================================

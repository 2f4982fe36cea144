-------------------------------- MODULE Fqz0 --------------------------------
(***************************************************************************)
(* The order-0 coder of src/EC/fqz0: a range coder with a 64-bit low and   *)
(* SIMPLE_MODEL, a list of symbols roughly sorted by frequency: now and    *)
(* then the coded symbol changes places with the one before it.            *)
(***************************************************************************)
EXTENDS CoderWords, SequencesExt

CONSTANTS STEP,                \* 16 in the code
          FqzMaxFreq,             \* (1 << 14) - 32
          Bubble               \* a symbol may move up every 16th time

NSYM  == Byte + 1
Long  == Byte^8
LongTop(x) == (x % Long) \div Byte^7

(* Frequencies by place in the list, 0 first. *)
SIMPLE_MODEL == [F |-> [i \in 0..NSYM - 1 |-> [sym |-> i, freq |-> 1]],
                 TotFreq |-> NSYM, BubCnt |-> 0]
Freqs(m) == [i \in DOMAIN m.F |-> m.F[i].freq]

normalize(m) ==
  LET half == [i \in DOMAIN m.F |-> [m.F[i] EXCEPT !.freq = @ - @ \div 2]]
  IN [m EXCEPT !.F = half, !.TotFreq = Cum([i \in DOMAIN half |-> half[i].freq], NSYM)]

(* What coding the symbol at place i leaves. *)
Coded(m, i) ==
  LET more  == [m EXCEPT !.F[i].freq = @ + STEP, !.TotFreq = @ + STEP,
                         !.BubCnt = (@ + 1) % Bubble]
      n     == IF more.TotFreq > FqzMaxFreq THEN normalize(more) ELSE more
      moves == n.BubCnt = 0 /\ i > 0 /\ n.F[i].freq > n.F[i - 1].freq
  IN IF moves THEN [n EXCEPT !.F[i] = n.F[i - 1], !.F[i - 1] = n.F[i]] ELSE n

(* With a carry still open in the byte that leaves, the range is cut. *)
Trim(c) == IF LongTop(c.low) # LongTop(c.low + c.range)
           THEN Top - 1 - (c.low % Top) ELSE c.range

RECURSIVE EncRenorm(_), DecRenorm(_, _)
EncRenorm(e) ==
  IF e.range >= Top THEN e
  ELSE EncRenorm([e EXCEPT !.range = Shl(Trim(e)), !.out = Append(@, LongTop(e.low)),
                           !.low = (@ * Byte) % Long])
DecRenorm(d, bytes) ==
  IF d.range >= Top THEN d
  ELSE DecRenorm([d EXCEPT !.range = Shl(Trim(d)), !.low = (@ * Byte) % Long,
                           !.code = Shl(@) + Get(bytes, d.pos), !.pos = @ + 1], bytes)

Share(c, i) ==
  LET r == c.range \div c.model.TotFreq
  IN [c EXCEPT !.low = (@ + Cum(Freqs(c.model), i) * r) % Long,
               !.range = r * c.model.F[i].freq]

Start == [low |-> 0, range |-> Word - 1, model |-> SIMPLE_MODEL, out |-> <<>>]

Encode(e, sym) ==
  LET i == CHOOSE k \in DOMAIN e.model.F : e.model.F[k].sym = sym
  IN [EncRenorm(Share(e, i)) EXCEPT !.model = Coded(e.model, i)]

Finish(e) == e.out \o [i \in 1..8 |-> (e.low \div Byte^(8 - i)) % Byte]

(* Eight bytes are read into a word of four. *)
StartDecode(bytes) ==
  [low |-> 0, range |-> Word - 1, code |-> BigEndian(bytes, 4, 4), pos |-> 8,
   model |-> SIMPLE_MODEL, sym |-> 0]

Decode(d, bytes) ==
  LET r    == d.range \div d.model.TotFreq
      i    == At(Freqs(d.model), d.code \div r)
      left == [d EXCEPT !.code = (@ - Cum(Freqs(d.model), i) * r) % Word]
  IN [DecRenorm(Share(left, i), bytes) EXCEPT !.model = Coded(d.model, i),
                                              !.sym = d.model.F[i].sym]
=============================================================================

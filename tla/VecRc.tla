-------------------------------- MODULE VecRc --------------------------------
(***************************************************************************)
(* The vector range coder of src/EC/vecrc: one coder for each bit of a     *)
(* byte, skewed from byte to byte, all moved on together after it.  Their  *)
(* bytes share one stream in the order in which the decoder will ask for   *)
(* them, which the encoder queues before it knows the bytes.               *)
(* Inputs shorter than the stream's buffer: it is written out at the end.  *)
(***************************************************************************)
EXTENDS CoderWords, SequencesExt

CONSTANTS VScale,              \* SCALElog: 14 in the code
          VRate                \* 5

rcN   == Bits
hTOP  == Top \div 2^VScale
gTOP  == Bot \div 2^VScale
Coder == 0..rcN - 1

RECURSIVE Xor(_, _)
Xor(a, b) == IF a = 0 /\ b = 0 THEN 0
             ELSE 2 * Xor(a \div 2, b \div 2) + ((a + b) % 2)

Model == [c \in 0..Byte - 2 |-> 2^(VScale - 1)]

rcInit == [range |-> (Word - 1) \div 2^VScale, low |-> 0, FFNum |-> 0, Cache |-> 0,
           qtr |-> <<>>]

(* The top byte of a low of three leaves: it is put unless it is 255 and a
   carry may still come. *)
Put(r) ==
  IF r.low >= Top - Bot /\ r.low < Top
  THEN [r EXCEPT !.FFNum = @ + 1, !.low = @ % Bot]
  ELSE LET carry == r.low \div Top
       IN [r EXCEPT !.qtr = @ \o <<(r.Cache + carry) % Byte>>
                              \o [k \in 1..r.FFNum |-> IF carry = 1 THEN 0 ELSE Byte - 1],
                    !.Cache = (r.low \div Bot) % Byte, !.FFNum = 0, !.low = @ % Bot]
ShiftLow(r)  == LET p == Put(r) IN [p EXCEPT !.low = @ * Byte]
ShiftLow2(r) ==
  LET p == Put(r)
  IN IF p.low < Bot - Byte
     THEN [p EXCEPT !.qtr = @ \o <<p.Cache>> \o [k \in 1..p.FFNum |-> Byte - 1],
                    !.Cache = p.low \div Byte, !.FFNum = 0, !.low = (@ % Byte) * Bot]
     ELSE [p EXCEPT !.FFNum = @ + 1, !.low = (@ % Byte) * Bot]

(* How many bytes a coder moves by, and the bytes it queues for that. *)
Shift(r) == IF r.range >= hTOP THEN 0 ELSE IF r.range >= gTOP THEN 1 ELSE 2
EncRenorm(r) ==
  CASE Shift(r) = 0 -> r
    [] Shift(r) = 1 -> ShiftLow([r EXCEPT !.range = @ * Byte])
    [] Shift(r) = 2 -> ShiftLow2([r EXCEPT !.range = @ * Bot])

(* BatchRenorm0: coder i got bit y with probability freq *)
Narrow(r, y, freq) ==
  LET mid == (r.range * freq) \div 2^VScale
  IN IF y = 1 THEN [r EXCEPT !.range = mid]
     ELSE [r EXCEPT !.range = @ - mid, !.low = @ + mid]

Update(m, c, y) == [m EXCEPT ![c] = IF y = 1 THEN Up(@, 2^VScale, VRate) ELSE Down(@, VRate)]

(* The bit before which the contexts of a symbol's bits are looked up. *)
Context(sym, x) == 2^(Bits - 1 - x) + sym \div 2^(x + 1) - 1

Start == [rc |-> [i \in Coder |-> rcInit], skew |-> 0, model |-> Model,
          queue |-> [k \in 1..4 * rcN |-> (k - 1) \div 4]]

Encode(e, sym) ==
  LET bitOf(i)  == Xor(i, e.skew)
      cut       == [i \in Coder |-> Narrow(e.rc[i], Bit(sym, bitOf(i)),
                                           e.model[Context(sym, bitOf(i))])]
      Queue(q, i) == q \o [k \in 1..Shift(cut[i]) |-> i]
      Learn(m, x) == Update(m, Context(sym, x), Bit(sym, x))
  IN [rc    |-> [i \in Coder |-> EncRenorm(cut[i])],
      skew  |-> (e.skew + 1) % rcN,
      model |-> FoldLeft(Learn, e.model, HighFirst),
      queue |-> FoldLeft(Queue, e.queue, LowFirst)]

(* rc_out_flush: entry k of the queue takes its coder's next byte *)
Finish(e) ==
  LET Quit(r, i) == ShiftLow(r)
      qtr == [i \in Coder |-> FoldLeft(Quit, e.rc[i], <<1, 2, 3, 4>>).qtr]
      nth(k) == Cardinality({j \in 1..k : e.queue[j] = e.queue[k]})
  IN [k \in 1..Len(e.queue) |-> qtr[e.queue[k]][nth(k)]]

StartDecode(bytes) ==
  [rc |-> [i \in Coder |-> [range |-> (Word - 1) \div 2^VScale,
                            low   |-> BigEndian(bytes, 4 * i, 4)]],
   skew |-> 0, model |-> Model, pos |-> 4 * rcN, sym |-> 0]

(* The bits are decoded in the order of the contexts, the coders renormalised
   in the order of their numbers. *)
Decode(d, bytes) ==
  LET mid(s, x) == (d.rc[Xor(x, d.skew)].range * s.model[s.cxt - 1]) \div 2^VScale
      DecBit(s, x) ==
        LET i == Xor(x, d.skew)
            y == IF d.rc[i].low < mid(s, x) THEN 1 ELSE 0
            r == IF y = 1 THEN [d.rc[i] EXCEPT !.range = mid(s, x)]
                 ELSE [range |-> d.rc[i].range - mid(s, x), low |-> d.rc[i].low - mid(s, x)]
        IN [rc |-> [s.rc EXCEPT ![i] = r], cxt |-> 2 * s.cxt + y,
            model |-> Update(s.model, s.cxt - 1, y)]
      bits == FoldLeft(DecBit, [rc |-> d.rc, cxt |-> 1, model |-> d.model], HighFirst)
      DecRenorm(s, i) ==
        LET n == Shift(s.rc[i])
        IN [rc  |-> [s.rc EXCEPT ![i].range = @ * Byte^n,
                                 ![i].low = @ * Byte^n + BigEndian(bytes, s.pos, n)],
            pos |-> s.pos + n]
      end == FoldLeft(DecRenorm, [rc |-> bits.rc, pos |-> d.pos], LowFirst)
  IN [rc |-> end.rc, skew |-> (d.skew + 1) % rcN, model |-> bits.model,
      pos |-> end.pos, sym |-> bits.cxt - Byte]
=============================================================================

-------------------------------- MODULE Shrc --------------------------------
(***************************************************************************)
(* fpaq0p_sh (src/EC/fpaq0p): a bitwise range coder with carry.  Bytes of  *)
(* value 255 are counted, not written, as long as a carry may still run    *)
(* through them; the byte before them waits in Cache.                      *)
(***************************************************************************)
EXTENDS CoderWords, SequencesExt

CONSTANTS SCALElog,            \* probabilities are below 2^SCALElog
          Rate                 \* adaptation: 5 in the code

ShrcSCALE == 2^SCALElog
Thres     == Word - Top        \* a top byte of 255

Predictor == [c \in 1..Byte - 1 |-> ShrcSCALE \div 2]

update(p, cxt, y) ==
  [p EXCEPT ![cxt] = IF y = 1 THEN Down(@, Rate) ELSE Up(@, ShrcSCALE, Rate)]

Start == [range |-> Word - 1, low |-> 0, FFNum |-> 0, Cache |-> 0,
          model |-> Predictor, out |-> <<>>]

(* Mutant: the carry is lost. *)
ShiftLowNoCarry(e) ==
  LET low == e.low % Word
  IN IF low < Thres
     THEN [e EXCEPT !.low = Shl(low), !.FFNum = 0, !.Cache = TopByte(low),
                    !.out = @ \o <<e.Cache>> \o [i \in 1..e.FFNum |-> Byte - 1]]
     ELSE [e EXCEPT !.low = Shl(low), !.FFNum = @ + 1]

ShiftLow(e) ==
  LET Carry == e.low \div Word
      low   == e.low % Word
      next  == [e EXCEPT !.low = Shl(low)]
  IN IF low < Thres \/ Carry > 0
     THEN [next EXCEPT
             !.out   = @ \o <<(e.Cache + Carry) % Byte>>
                         \o [i \in 1..e.FFNum |-> (Carry - 1) % Byte],
             !.FFNum = 0,
             !.Cache = TopByte(low)]
     ELSE [next EXCEPT !.FFNum = @ + 1]

RECURSIVE EncRenorm(_), DecRenorm(_, _)
EncRenorm(e) ==
  IF e.range >= Top THEN e
  ELSE EncRenorm(ShiftLow([e EXCEPT !.range = Shl(@)]))
DecRenorm(d, bytes) ==
  IF d.range >= Top THEN d
  ELSE DecRenorm([d EXCEPT !.range = Shl(@), !.pos = @ + 1,
                           !.code = Shl(@) + Get(bytes, d.pos)], bytes)

(* The part of the range a bit 0 gets. *)
Rnew(c, cxt) == (c.range \div ShrcSCALE) * c.model[cxt]

EncodeBit(e, cxt, y) ==
  LET rnew == Rnew(e, cxt)
      m    == [e EXCEPT !.model = update(@, cxt, y)]
  IN EncRenorm(IF y = 1 THEN [m EXCEPT !.range = @ - rnew, !.low = @ + rnew]
                        ELSE [m EXCEPT !.range = rnew])

Encode(e, c) ==
  LET Step(s, j) == [e   |-> EncodeBit(s.e, s.cxt, Bit(c, j)),
                     cxt |-> 2 * s.cxt + Bit(c, j)]
  IN FoldLeft(Step, [e |-> e, cxt |-> 1], HighFirst).e

(* Mutants: two bytes less, one byte more than the decoder reads. *)
FinishShort(e) == LET Quit(s, i) == ShiftLow(s)
                  IN FoldLeft(Quit, e, [i \in 1..3 |-> i]).out
FinishLong(e)  == LET Quit(s, i) == ShiftLow(s)
                  IN FoldLeft(Quit, e, [i \in 1..6 |-> i]).out

Finish(e) == LET Quit(s, i) == ShiftLow(s)
             IN FoldLeft(Quit, e, [i \in 1..5 |-> i]).out

(* The first byte read is the Cache of an encoder that had none yet. *)
StartDecode(bytes) ==
  [range |-> Word - 1, code |-> BigEndian(bytes, 1, 4), pos |-> 5,
   model |-> Predictor, sym |-> 0]

(* Mutant: the decoder does not learn. *)
DecodeBitOnly(d, cxt, bytes) ==
  LET rnew == Rnew(d, cxt)
      y    == IF d.code >= rnew THEN 1 ELSE 0
      n    == IF y = 1 THEN [d EXCEPT !.range = @ - rnew, !.code = @ - rnew]
                       ELSE [d EXCEPT !.range = rnew]
  IN [d |-> DecRenorm(n, bytes), cxt |-> 2 * cxt + y]

DecodeBit(d, cxt, bytes) ==
  LET rnew == Rnew(d, cxt)
      y    == IF d.code >= rnew THEN 1 ELSE 0
      m    == [d EXCEPT !.model = update(@, cxt, y)]
      n    == IF y = 1 THEN [m EXCEPT !.range = @ - rnew, !.code = @ - rnew]
                       ELSE [m EXCEPT !.range = rnew]
  IN [d |-> DecRenorm(n, bytes), cxt |-> 2 * cxt + y]

Decode(d, bytes) ==
  LET Step(s, j) == DecodeBit(s.d, s.cxt, bytes)
      end        == FoldLeft(Step, [d |-> d, cxt |-> 1], HighFirst)
  IN [end.d EXCEPT !.sym = end.cxt - Byte]
=============================================================================

------------------------------- MODULE FastAri -------------------------------
(***************************************************************************)
(* FastAri (src/EC/FastARI/FastAri.c): a bitwise coder without carry.  A   *)
(* byte is written when the ends of the interval agree in it.  The context *)
(* of a bit is the last ORDER bits; it runs on from symbol to symbol.      *)
(***************************************************************************)
EXTENDS CoderWords, SequencesExt

CONSTANTS ProbBits,            \* 16 in the code
          ORDER, ADAPT         \* 17 and 4 in the code

FaMask == 2^ORDER

FaModel == [c \in 0..FaMask - 1 |-> 2^(ProbBits - 1)]

Start == [low |-> 0, high |-> Word - 1, ctx |-> 0, model |-> FaModel, out |-> <<>>]

Mid(c) == c.low + ((c.high - c.low) \div 2^ProbBits) * c.model[c.ctx]

(* A bit narrows the interval and becomes part of the context. *)
Narrow(c, y) ==
  IF y = 1
  THEN [c EXCEPT !.high = Mid(c),
                 !.model[c.ctx] = Up(@, 2^ProbBits - 1, ADAPT),
                 !.ctx = (2 * @ + 1) % FaMask]
  ELSE [c EXCEPT !.low = Mid(c) + 1,
                 !.model[c.ctx] = Down(@, ADAPT),
                 !.ctx = (2 * @) % FaMask]

RECURSIVE EncRenorm(_), DecRenorm(_, _)
EncRenorm(e) ==
  IF ~SameTop(e.high, e.low) THEN e
  ELSE EncRenorm([e EXCEPT !.out = Append(@, TopByte(e.high)),
                           !.high = Shl(@) + Byte - 1, !.low = Shl(@)])

(* The decoder returns as soon as it has read the last byte. *)
DecRenorm(d, bytes) ==
  IF d.ended \/ ~SameTop(d.high, d.low) THEN d
  ELSE DecRenorm([d EXCEPT !.high = Shl(@) + Byte - 1, !.low = Shl(@),
                           !.cur = Shl(@) + Get(bytes, d.pos),
                           !.pos = @ + 1,
                           !.ended = d.pos + 1 >= Len(bytes)], bytes)

Encode(e, c) == LET Step(s, j) == EncRenorm(Narrow(s, Bit(c, j)))
                IN FoldLeft(Step, e, LowFirst)

(* Mutant: one byte more, as FA_USE_EOF writes it. *)
FinishEof(e) == e.out \o [i \in 1..5 |-> IF i = 5 THEN 0 ELSE (e.low \div Byte^(4 - i)) % Byte]

Finish(e) == e.out \o [i \in 1..4 |-> (e.low \div Byte^(4 - i)) % Byte]

StartDecode(bytes) ==
  [low |-> 0, high |-> Word - 1, ctx |-> 0, model |-> FaModel,
   cur |-> BigEndian(bytes, 0, 4), pos |-> 4, ended |-> FALSE, sym |-> 0]

(* A symbol that was not finished when the input ended is not written. *)
Decode(d, bytes) ==
  LET Step(s, j) ==
        IF s.ended THEN s
        ELSE LET y == IF s.cur <= Mid(s) THEN 1 ELSE 0
             IN DecRenorm([Narrow(s, y) EXCEPT !.sym = @ + y * 2^j], bytes)
  IN FoldLeft(Step, [d EXCEPT !.sym = 0], LowFirst)
=============================================================================

------------------------------- MODULE Subotin -------------------------------
(***************************************************************************)
(* The carryless range coder of src/EC/subotin with its frequency model,   *)
(* as src/EC/subotin_ uses it.  Encoder and decoder each remember the last *)
(* symbol looked up and what comes before it, and each walks the shorter   *)
(* way from there, from the front or from the end.                         *)
(***************************************************************************)
EXTENDS CoderWords, SequencesExt

CONSTANTS NSym,                \* symbols: 256 in the code
          Incr,                \* 4
          MaxFreq              \* 1 << 16

(* ModelInit: the marks nsym2 ... and the frequencies below them only choose
   the decoder's way. *)
Mark  == [first |-> (NSym * 5) \div 22, half |-> NSym \div 2, last |-> (NSym * 2) \div 3]
Third == NSym \div 3
ModelInit ==
  LET freq == [s \in 0..NSym - 1 |-> 1]
  IN [freq |-> freq, totFreq |-> NSym, lastSym |-> 0, lastCumFreq |-> 0,
      below |-> [m \in DOMAIN Mark |-> Cum(freq, Mark[m])]]

Between(freq, a, b) == Cum(freq, b) - Cum(freq, a)

(* After sym was coded: its frequency grows, all are halved above maxFreq and
   the remembered symbol is given up.  The decoder's sums are halved too,
   which is not what halving the frequencies gives. *)
Adapt(m, sym) ==
  LET freq   == [m.freq EXCEPT ![sym] = @ + Incr]
      below  == [k \in DOMAIN Mark |-> IF sym < Mark[k] THEN m.below[k] + Incr
                                                        ELSE m.below[k]]
      halved == [s \in DOMAIN freq |-> freq[s] - freq[s] \div 2]
  IN IF m.totFreq + Incr > MaxFreq
     THEN [freq |-> halved, totFreq |-> Cum(halved, NSym), lastSym |-> 0,
           lastCumFreq |-> 0, below |-> [k \in DOMAIN Mark |-> below[k] \div 2]]
     ELSE [m EXCEPT !.freq = freq, !.totFreq = @ + Incr, !.below = below]

Remember(m, sym, cum) == [m EXCEPT !.lastSym = sym, !.lastCumFreq = cum]

(* Encode and Decode: the range is cut to the symbol's share, then bytes leave
   while the top one is settled or, when the range is below BOT, it is cut so
   that it is. *)
Cut(c) == SameTop(c.low, c.low + c.range) \/ c.range < Bot
Trim(c) == IF SameTop(c.low, c.low + c.range) THEN c.range
           ELSE (Bot - (c.low % Bot)) % Bot

RECURSIVE EncRenorm(_), DecRenorm(_, _)
EncRenorm(e) ==
  IF ~Cut(e) \/ e.range = 0 THEN e
  ELSE EncRenorm([e EXCEPT !.out = Append(@, TopByte(e.low)),
                           !.range = Shl(Trim(e)), !.low = Shl(@)])
DecRenorm(d, bytes) ==
  IF ~Cut(d) \/ d.range = 0 THEN d
  ELSE DecRenorm([d EXCEPT !.code = Shl(@) + Get(bytes, d.pos), !.pos = @ + 1,
                           !.range = Shl(Trim(d)), !.low = Shl(@)], bytes)

Share(c, r, cum, f) == [c EXCEPT !.low = (@ + cum * r) % Word, !.range = r * f]

Start == [low |-> 0, range |-> Word - 1, model |-> ModelInit, out |-> <<>>]

(* Mutant: what is remembered does not grow with the symbols before it. *)
LookUpStale(m, sym) ==
  LET up   == m.lastCumFreq + Between(m.freq, m.lastSym, sym)
      down == m.lastCumFreq - Between(m.freq, sym, m.lastSym)
  IN IF sym >= m.lastSym THEN [cum |-> up, m |-> Remember(m, sym, up)]
     ELSE IF m.lastSym >= 2 * sym THEN [cum |-> Cum(m.freq, sym), m |-> m]
     ELSE [cum |-> down, m |-> Remember(m, sym, down)]

(* EncodeSymbol: [cum: what comes before sym, m: the model after looking] *)
LookUp(m, sym) ==
  LET up   == m.lastCumFreq + Between(m.freq, m.lastSym, sym)
      down == m.lastCumFreq - Between(m.freq, sym, m.lastSym)
      back == m.totFreq - Between(m.freq, sym, NSym)
  IN IF sym >= m.lastSym
     THEN IF NSym - sym > sym - m.lastSym
          THEN [cum |-> up, m |-> Remember(m, sym, up)]
          ELSE [cum |-> back, m |-> m]
     ELSE IF m.lastSym >= 2 * sym
          THEN [cum |-> Cum(m.freq, sym), m |-> [m EXCEPT !.lastCumFreq = @ + Incr]]
          ELSE [cum |-> down, m |-> Remember(m, sym, down)]

Encode(e, sym) ==
  LET look == LookUp(e.model, sym)
      cut  == Share(e, e.range \div e.model.totFreq, look.cum, e.model.freq[sym])
  IN [EncRenorm(cut) EXCEPT !.model = Adapt(look.m, sym)]

Finish(e) == e.out \o [i \in 1..4 |-> (e.low \div Byte^(4 - i)) % Byte]

StartDecode(bytes) ==
  [low |-> 0, code |-> BigEndian(bytes, 0, 4), range |-> Word - 1, pos |-> 4,
   model |-> ModelInit, sym |-> 0, error |-> FALSE]

(* DecodeSymbol's search: the sums tell where to start walking from, and
   whether the symbol found is remembered. *)
Search(m, rfreq) ==
  LET Walk(from, at) ==
        LET off == at - Cum(m.freq, from)
            sym == At(m.freq, rfreq - off)
        IN [sym |-> sym, cum |-> Cum(m.freq, sym) + off, m |-> m]
      near    == Walk(m.lastSym, m.lastCumFreq)
      nearby  == [near EXCEPT !.m = Remember(m, near.sym, near.cum)]
      forward == [Walk(0, 0) EXCEPT !.m.lastCumFreq = @ + Incr]
  IN IF m.lastCumFreq > rfreq
     THEN IF rfreq > m.below.half
             \/ (m.lastSym <= Mark.last /\ rfreq >= m.below.first)
          THEN nearby ELSE forward
     ELSE IF rfreq < m.below.half
             \/ (m.lastSym >= Third /\ rfreq <= m.below.last)
          THEN nearby ELSE Walk(NSym, m.totFreq)

Decode(d, bytes) ==
  LET r     == d.range \div d.model.totFreq
      rfreq == ((d.code - d.low) % Word) \div r
      look  == Search(d.model, rfreq)
      cut   == Share(d, r, look.cum, d.model.freq[look.sym])
  IN IF rfreq >= d.model.totFreq THEN [d EXCEPT !.error = TRUE]
     ELSE [DecRenorm(cut, bytes) EXCEPT !.model = Adapt(look.m, look.sym),
                                        !.sym = look.sym]
=============================================================================

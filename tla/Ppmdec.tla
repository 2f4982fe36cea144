------------------------------- MODULE Ppmdec -------------------------------
(***************************************************************************)
(* The order-0 coder of src/EC/ppmdec: symbols sorted by frequency, the    *)
(* end of the data coded as an escape with frequency 1, a carryless range  *)
(* coder that writes no more bytes at the end than it has to.              *)
(***************************************************************************)
EXTENDS CoderWords, SequencesExt

CONSTANTS UP_FREQ,             \* 20 in the code
          PpmBOT               \* 1 << 14; frequencies stay below

MAX_FREQ == PpmBOT - 1
End == -1

StartModel == [Data |-> [i \in 0..Byte - 1 |-> [sym |-> i, freq |-> 1]],
               scale |-> Byte + 1]
Freqs(m) == [i \in DOMAIN m.Data |-> m.Data[i].freq]

(* The share of the symbol at place i; at place Byte, the escape. *)
Low(m, i)  == Cum(Freqs(m), i)
High(m, i) == IF i = Byte THEN m.scale ELSE Low(m, i) + m.Data[i].freq

(* update: the symbol grows and moves in front of all that are now smaller *)
update(m, i) ==
  LET f  == m.Data[i].freq + UP_FREQ
      to == IF i = 0 THEN 0
            ELSE CHOOSE j \in 0..i :
                   /\ j = 0 \/ m.Data[j - 1].freq >= f
                   /\ \A k \in j..i - 1 : m.Data[k].freq < f
  IN [m EXCEPT !.Data = [k \in DOMAIN m.Data |->
        IF k = to THEN [m.Data[i] EXCEPT !.freq = f]
        ELSE IF k \in to + 1..i THEN m.Data[k - 1] ELSE m.Data[k]]]

rescale(m) ==
  LET half == [k \in DOMAIN m.Data |-> [m.Data[k] EXCEPT !.freq = (@ + 1) \div 2]]
  IN [Data |-> half, scale |-> Cum([k \in DOMAIN half |-> half[k].freq], Byte) + 1]

Coded(m, i) ==
  LET n == IF i = Byte THEN m ELSE update(m, i)
  IN IF n.scale + UP_FREQ > MAX_FREQ THEN rescale(n)
     ELSE [n EXCEPT !.scale = @ + UP_FREQ]

Cut(c)  == SameTop(c.low, c.low + c.range) \/ c.range < PpmBOT
Trim(c) == IF SameTop(c.low, c.low + c.range) THEN c.range
           ELSE (PpmBOT - (c.low % PpmBOT)) % PpmBOT

RECURSIVE EncRenorm(_), DecRenorm(_, _), Flush(_)
EncRenorm(e) ==
  IF ~Cut(e) \/ e.range = 0 THEN e
  ELSE EncRenorm([e EXCEPT !.out = Append(@, TopByte(e.low)),
                           !.range = Shl(Trim(e)), !.low = Shl(@)])

(* A byte read beyond the end is -1: all the bits it is or'ed with are set. *)
ReadByte(code, bytes, pos) ==
  IF pos < Len(bytes) THEN Shl(code) + bytes[pos + 1] ELSE Word - 1

DecRenorm(d, bytes) ==
  IF ~Cut(d) \/ d.range = 0 THEN d
  ELSE DecRenorm([d EXCEPT !.code = ReadByte(@, bytes, d.pos), !.pos = @ + 1,
                           !.range = Shl(Trim(d)), !.low = Shl(@)], bytes)

Flush(e) ==
  IF e.range % Word = 0 THEN e
  ELSE Flush([e EXCEPT !.out = Append(@, TopByte(e.low)),
                       !.low = Shl(@), !.range = Shl(@)])

Share(c, i) ==
  LET r == c.range \div c.model.scale
  IN [c EXCEPT !.low = (@ + r * Low(c.model, i)) % Word,
               !.range = r * (High(c.model, i) - Low(c.model, i))]

EncodeAt(e, i) == [EncRenorm(Share(e, i)) EXCEPT !.model = Coded(e.model, i)]

Start == [low |-> 0, range |-> Word - 1, model |-> StartModel, out |-> <<>>]

Encode(e, sym) ==
  EncodeAt(e, CHOOSE k \in DOMAIN e.model.Data : e.model.Data[k].sym = sym)

Finish(e) == Flush(EncodeAt(e, Byte)).out

StartDecode(bytes) ==
  LET Read(c, i) == ReadByte(c, bytes, i)
  IN [low |-> 0, range |-> Word - 1, pos |-> 4, model |-> StartModel, sym |-> 0,
      code |-> FoldLeft(Read, 0, <<0, 1, 2, 3>>)]

Decode(d, bytes) ==
  LET count == ((d.code - d.low) % Word) \div (d.range \div d.model.scale)
      i     == IF count >= Cum(Freqs(d.model), Byte) THEN Byte ELSE At(Freqs(d.model), count)
  IN IF i = Byte THEN [Share(d, i) EXCEPT !.sym = End]
     ELSE [DecRenorm(Share(d, i), bytes) EXCEPT !.model = Coded(d.model, i),
                                                !.sym = d.model.Data[i].sym]
=============================================================================

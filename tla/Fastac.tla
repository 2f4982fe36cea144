------------------------------- MODULE Fastac -------------------------------
(***************************************************************************)
(* The arithmetic coder of src/EC/fastac with an adaptive model of NSym    *)
(* symbols: counts are kept at every symbol, the distribution is computed  *)
(* from them now and then, and the decoder looks up a first guess in a     *)
(* table.  The model has as many symbols as codcomp asks for, more than 16, *)
(* so that the table is always there.                                      *)
(***************************************************************************)
EXTENDS CoderWords, FiniteSetsExt

CONSTANTS NSym,                \* 256
          DMShift,             \* 15: bits of the distribution
          AcTable              \* 6: bits of the decoder's table

AcMin      == Top
AcMaxCount == 2^DMShift
HighBit    == Word \div 2
LastSymbol == NSym - 1

(* update: counts are halved when there are too many. *)
Halved(counts) == [s \in DOMAIN counts |-> (counts[s] + 1) \div 2]

Distribution(counts, total) ==
  LET scale == HighBit \div total
  IN [s \in 0..LastSymbol |-> (scale * Cum(counts, s)) \div (HighBit \div 2^DMShift)]

update(m) ==
  LET sum    == m.total_count + m.update_cycle
      counts == IF sum > AcMaxCount THEN Halved(m.symbol_count) ELSE m.symbol_count
      total  == IF sum > AcMaxCount THEN Cum(counts, NSym) ELSE sum
      cycle  == Min({(5 * m.update_cycle) \div 4, (NSym + 6) * 8})
  IN [symbol_count |-> counts, total_count |-> total, distribution |-> Distribution(counts, total),
      update_cycle |-> cycle, symbols_until_update |-> cycle]

reset ==
  LET ones  == [s \in 0..LastSymbol |-> 1]
      cycle == (NSym + 6) \div 2
  IN [update([symbol_count |-> ones, total_count |-> 0, update_cycle |-> NSym]) EXCEPT
        !.update_cycle = cycle, !.symbols_until_update = cycle]

Count(m, s) ==
  LET more == [m EXCEPT !.symbol_count[s] = @ + 1, !.symbols_until_update = @ - 1]
  IN IF more.symbols_until_update = 0 THEN update(more) ELSE more

(* The interval of a symbol in one of this length: where it starts and ends.  *)
(* The last one takes what rounding left.                                    *)
From(m, length, s) == m.distribution[s] * (length \div 2^DMShift)
To(m, length, s)   == IF s = LastSymbol THEN length ELSE From(m, length, s + 1)

(* Mutant: only the byte written last. *)
CarryOnce(bytes) == [bytes EXCEPT ![Len(bytes)] = (@ + 1) % Byte]

(* A carry runs back through the bytes already written. *)
propagate_carry(bytes) ==
  LET k == Max({i \in DOMAIN bytes : bytes[i] # Byte - 1})
  IN [i \in DOMAIN bytes |-> IF i < k THEN bytes[i] ELSE IF i = k THEN bytes[i] + 1 ELSE 0]

Advance(e, x) ==
  [e EXCEPT !.base = (@ + x) % Word,
            !.out = IF e.base + x >= Word THEN propagate_carry(@) ELSE @]

RECURSIVE EncRenorm(_), DecRenorm(_, _)
EncRenorm(e) ==
  IF e.length >= AcMin THEN e
  ELSE EncRenorm([e EXCEPT !.out = Append(@, TopByte(e.base)), !.base = Shl(@), !.length = Shl(@)])
DecRenorm(d, bytes) ==
  IF d.length >= AcMin THEN d
  ELSE DecRenorm([d EXCEPT !.value = Shl(@) + Get(bytes, d.pos), !.pos = @ + 1,
                           !.length = Shl(@)], bytes)

Start == [base |-> 0, length |-> Word - 1, model |-> reset, out |-> <<>>]

Encode(e, s) ==
  LET x == From(e.model, e.length, s)
      y == To(e.model, e.length, s)
  IN [EncRenorm([Advance(e, x) EXCEPT !.length = y - x]) EXCEPT !.model = Count(e.model, s)]

(* stop_encoder: one byte more is enough if the interval is long, else two. *)
Finish(e) ==
  LET long == e.length > 2 * AcMin
      end  == Advance(e, IF long THEN AcMin ELSE AcMin \div 2)
  IN EncRenorm([end EXCEPT !.length = AcMin \div IF long THEN 2 ELSE 2 * Byte]).out

StartDecode(bytes) ==
  [length |-> Word - 1, value |-> BigEndian(bytes, 0, 4), pos |-> 4, model |-> reset, sym |-> 0]

(* The table: the last symbol that starts before slot t.  One slot more than  *)
(* there are, for a value in what rounding left to the last symbol.          *)
decoder_table(dist, t) ==
  LET over == {s \in DOMAIN dist : dist[s] \div 2^(DMShift - AcTable) >= t}
  IN IF t = 0 THEN 0 ELSE IF over = {} THEN LastSymbol ELSE Min(over) - 1

Decode(d, bytes) ==
  LET dist  == d.model.distribution
      dv    == d.value \div (d.length \div 2^DMShift)
      t     == dv \div 2^(DMShift - AcTable)
      first == decoder_table(dist, t)
      s     == Max({first} \cup {n \in first..decoder_table(dist, t + 1) : dist[n] <= dv})
      x     == From(d.model, d.length, s)
      y     == To(d.model, d.length, s)
  IN [DecRenorm([d EXCEPT !.value = @ - x, !.length = y - x], bytes) EXCEPT
        !.model = Count(d.model, s), !.sym = s]
=============================================================================

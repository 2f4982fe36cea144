-------------------------------- MODULE Fpaqc --------------------------------
(***************************************************************************)
(* fpaqc (src/EC/fpaqc): an asymmetric binary coder.  Its state comes out  *)
(* in the reverse order it went in, so predictions and bits wait on a      *)
(* stack of B bits that is coded backwards when it is full or at the end;  *)
(* each block starts with the state the decoder begins with.               *)
(***************************************************************************)
EXTENDS CoderWords, SequencesExt

CONSTANTS N,                   \* bits of a prediction: 12 in the code
          TBits,               \* bits of a counter: 16
          FRate,               \* adaptation: 5
          InvBits,             \* bits of the reciprocals: 32
          B                    \* bits in a block: 0x80000

Q    == 2^N
Unit == 2^(TBits - N)          \* of a counter in one of a prediction
Inv  == 2^InvBits
End == -1                      \* what Decode gives for the bit that ends it all

(* A state fits in three bytes, and a state times its largest reciprocal in two
   words of it: 256 * 4096 * 4096 = 2^32 in the code, as large as it may be. *)
Sizes ==
  /\ {Q, Unit, Inv, B} \subseteq Nat \ {0}
  /\ Q % 2 = 0 /\ 2^FRate \in Nat \ {0, 1}
  /\ Q <= Byte * Byte /\ Byte * Q * Q <= Inv

Counters == [c \in 1..2 * Byte - 1 |-> (Q * Unit) \div 2]

(* Predictor::p as the coder uses it: never 0 and never Q. *)
Prediction(m) == LET p == m.t[m.cxt] \div Unit
                 IN IF p < Q \div 2 THEN p + 1 ELSE p

Learn(m, y) ==
  LET next == 2 * m.cxt + y
  IN [t   |-> [m.t EXCEPT ![m.cxt] = IF y = 1 THEN Up(@, Q * Unit, FRate)
                                              ELSE Down(@, FRate)],
      cxt |-> IF next >= 2 * Byte THEN 1 ELSE next]

(* The table of reciprocals that replaces the divisions by q and Q - q, and
   the state that w, a bit d and its prediction q make *)
Qinv1(q, d) == (Inv * Q) \div (IF d = 1 THEN q ELSE Q - q)   \* mutant
Qinv(q, d) == IF d = 1 THEN (Inv * Q) \div q + 1 ELSE (Inv * Q) \div (Q - q)
Push(w, q, d) == ((1 - d + w) * Qinv(q, d) - 1) \div Inv

(* What the comment of the source says that state is. *)
PushExact(w, q, d) == IF d = 0 THEN ((w + 1) * Q - 1) \div (Q - q) ELSE (w * Q) \div q

(* The multiplication with a rounded reciprocal gives the quotient the coder is
   defined by, for every prediction, both bits and every state. *)
ReciprocalsDivide ==
  \A q \in 1..Q - 1, d \in 0..1, w \in 1..Byte * Q - 1 : Push(w, q, d) = PushExact(w, q, d)

(* Low bytes of w leave until the new state fits, the last one in front. *)
Shifts(q, d) ==
  LET shift[w \in 1..Byte * Q - 1] ==
        IF Push(w, q, d) < Byte * Q THEN [w |-> Push(w, q, d), outs |-> <<>>]
        ELSE [shift[w \div Byte] EXCEPT !.outs = Append(@, w % Byte)]
  IN shift

(* The input stack is popped onto the output stack: the two after k pops. *)
Pushed(ins) ==
  LET at[k \in 0..Len(ins)] ==
        IF k = 0 THEN [w |-> Q, outs |-> <<>>]
        ELSE LET top == ins[Len(ins) - k + 1]
                 s   == Shifts(top.q, top.d)[at[k - 1].w]
             IN [w |-> s.w, outs |-> s.outs \o at[k - 1].outs]
  IN at

eflush(e) ==
  LET last == Pushed(e.ins)[Len(e.ins)]
      head == <<(last.w \div (Byte * Byte)) % Byte, (last.w \div Byte) % Byte, last.w % Byte>>
  IN [e EXCEPT !.ins = <<>>, !.out = @ \o (head \o last.outs)]

EncodeBit(e, d) ==
  LET f == IF Len(e.ins) >= B THEN eflush(e) ELSE e
  IN [f EXCEPT !.ins = Append(@, [q |-> Prediction(f.model), d |-> d]),
               !.model = Learn(@, d)]

Start == [ins |-> <<>>, model |-> [t |-> Counters, cxt |-> 1], out |-> <<>>]

Encode(e, c) == LET Step(s, j) == EncodeBit(s, Bit(c, j))
                IN FoldLeft(Step, EncodeBit(e, 0), HighFirst)

Finish(e) == eflush(EncodeBit(e, 1)).out

StartDecode(bytes) ==
  [x |-> Q, n |-> 1, pos |-> 0, model |-> [t |-> Counters, cxt |-> 1],
   bit |-> 0, sym |-> 0, error |-> FALSE]

(* A block is used up: its state must be back where the encoder began, and the
   next one is read *)
Header(d, bytes) ==
  LET x == (Get(bytes, d.pos) * Byte + Get(bytes, d.pos + 1)) * Byte + Get(bytes, d.pos + 2)
  IN [d EXCEPT !.x = x, !.n = B, !.pos = @ + 3,
               !.error = d.x # Q \/ x \notin Q..(Byte * Q - 1)]

(* Bytes are read until the state, which is never 0, is in its range again. *)
Refill(bytes) ==
  LET fill[s \in (1..Byte * Q - 1) \X Nat] ==
        IF s[1] >= Q THEN s ELSE fill[<<s[1] * Byte + Get(bytes, s[2]), s[2] + 1>>]
  IN fill

DecodeBit(d, bytes) ==
  LET h   == IF d.n = 1 THEN Header(d, bytes) ELSE [d EXCEPT !.n = @ - 1]
      q   == Prediction(h.model)
      a   == h.x * q - 1
      bit == ((a % Q) + q) \div Q
      xq  == a \div Q + 1
      s   == Refill(bytes)[<<IF bit = 1 THEN xq ELSE h.x - xq, h.pos>>]
  IN IF d.error \/ h.error THEN [h EXCEPT !.error = TRUE]   \* exit(1)
     ELSE [h EXCEPT !.bit = bit, !.model = Learn(@, bit), !.x = s[1], !.pos = s[2]]

Decode(d, bytes) ==
  LET flag       == DecodeBit(d, bytes)
      Step(s, j) == LET b == DecodeBit(s, bytes)
                    IN [b EXCEPT !.sym = 2 * @ + b.bit]
  IN IF flag.bit = 1 \/ flag.error THEN [flag EXCEPT !.sym = End]
     ELSE FoldLeft(Step, [flag EXCEPT !.sym = 0], HighFirst)
=============================================================================

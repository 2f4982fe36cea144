--------------------------- MODULE MCStreamCoders ---------------------------
(***************************************************************************)
(* StreamCoders on words of four 2-bit bytes, all inputs of up to four     *)
(* symbols and, for the coders that learn only now and then, inputs made of *)
(* runs, with the parameters of each coder scaled to that width.           *)
(***************************************************************************)
EXTENDS StreamCoders

Short(n) == BoundedSeq(0..Byte - 1, n)
Repeat(c, n) == [k \in 1..n |-> c]

(* Up to 20 symbols: counts are halved twice. *)
Runs ==
  {Repeat(a, i) \o Repeat(b, j) \o Repeat(c, k) :
     a, b, c \in 0..Byte - 1, i \in {1, 6, 12}, j \in {2, 5}, k \in {1, 3}}

(* For FPC symbols of an alphabet of 16, most of which do not occur: few
   symbols at either end of the alphabet, the longest codewords there may be,
   codewords of equal length, and up to three blocks. *)
Mixed(f) == [k \in 1..FoldLeft(LAMBDA a, b : a + b, 0, f) |->
               CHOOSE s \in DOMAIN f : k <= FoldLeft(LAMBDA a, b : a + b, 0, SubSeq(f, 1, s))
                 /\ k > FoldLeft(LAMBDA a, b : a + b, 0, SubSeq(f, 1, s - 1))]
Blocks ==
  {Repeat(a, i) \o Repeat(b, j) \o Repeat(c, k) :
     a, b, c \in {0, 1, 14, 15}, i \in {1, 17, 30}, j \in {4, 13}, k \in {0, 9, 25}}
  \cup {Mixed(f) : f \in {<<1, 1, 1, 3, 3, 6, 13>>, <<13, 8, 5, 2, 1, 1>>, <<12, 1, 1, 2, 3, 5, 1, 4>>,
                        [k \in 1..15 |-> 2], [k \in 1..14 |-> 1] \o <<14>>, <<1, 1, 1, 14, 13>>}}
  \cup {[k \in 1..n |-> (k * k) % 3] : n \in {5, 29, 31, 60}}

MCInputs ==
  [c \in Coders |-> IF c \in ReadAhead THEN Short(2) \cup Runs ELSE IF c \in FPC THEN Blocks
                    ELSE Short(4)]

(* ppmdec's encoder ends as soon as its range is 0, which it may be a byte
   early, and its decoder takes what is missing for all ones. *)
ReadPastEnd == codec = "ppmdec" /\ pc # "encode" /\ dec.pos > Len(out)

(* What every codec owes memcheck (src/turbobench.c:97-108): the output of the
   decoder is the input. *)
AllComesBack == pc = "done" => back = in

(* What a decoder has rebuilt is never wrong, and at the end the whole input is
   back.  Two coders only keep the first half: FastAri's decoder stops in the
   middle of a symbol as soon as it has read the last byte, and its output is
   whole only when nothing but the four bytes of the flush was written; ppmdec
   is right until it reads what its encoder did not write. *)
RoundTrips ==
  /\ ReadPastEnd \/ IsPrefix(back, in)
  /\ pc = "done" => IF codec = "fastari" THEN back = in <=> Len(out) = 4
                    ELSE back = in \/ ReadPastEnd

(* Before each symbol the decoder has learned exactly what the encoder had
   learned: nothing is sent about the models, so a difference of one count
   is a wrong symbol some time later.  At the end it has asked for exactly the
   bytes the encoder wrote, or the next block of a file would be decoded from
   the wrong place; fastac and fasthf ask for up to three more.  What range.c
   remembers of its table, the sum before a symbol, is that sum, however often
   frequencies below it grew or were halved.  The tree fasthf forms in the two
   arrays its heap lies in is a code that no other is shorter than. *)
Learned(m) == IF codec = "subotin" THEN <<m.freq, m.totFreq>> ELSE m
Remembered(m) ==
  m.lastCumFreq = Cum(m.freq, m.lastSym) /\ m.totFreq = Cum(m.freq, NSym)
Lengths == [0..NSym - 1 -> 1..NSym - 1]
Kraft(l) == MapThenSumSet(LAMBDA s : 2^(NSym - l[s]), DOMAIN l) = 2^NSym
Cost(counts, l) == MapThenSumSet(LAMBDA s : counts[s] * l[s], DOMAIN l)
Optimal(m) ==
  LET l == [s \in 0..NSym - 1 |-> Fasthf!CodeOf(m, s).length]
  IN /\ l \in Lengths /\ Kraft(l)
     /\ \A k \in {k \in Lengths : Kraft(k)} : Cost(m.symbol_count, l) <= Cost(m.symbol_count, k)
ModelsInStep ==
  /\ pc = "decode" /\ ~ReadPastEnd
       => Learned(dec.model) = Learned(trace[Len(back) + 1].model)
  /\ codec = "subotin" => Remembered(enc.model) /\ (pc # "encode" => Remembered(dec.model))
  /\ codec = "fasthf" /\ enc.model.symbols_until_update = enc.model.update_cycle
       => Optimal(enc.model)
  /\ pc = "done" /\ codec \notin ReadAhead \cup {"ppmdec"} => dec.pos = Len(out)
  /\ pc = "done" /\ codec \in ReadAhead => dec.pos - Len(out) \in 0..3

(* fpaqc.cpp:318-335, 396: the multiplication with a rounded reciprocal gives
   the quotient the coder is defined by (the comment at 234-239), for every
   prediction, both bits and every state a push may start from. *)
ReciprocalsDivide == codec = "fpaqc" /\ Len(trace) = 1 => Fpaqc!ReciprocalsDivide
=============================================================================

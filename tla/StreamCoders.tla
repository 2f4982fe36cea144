---------------------------- MODULE StreamCoders ----------------------------
(***************************************************************************)
(* One call of codcomp and one of coddecomp (src/plugin.cc) for a bundled  *)
(* coder: the input is encoded symbol by symbol, the coder flushed, and    *)
(* the decoder, which knows the output's length, rebuilds it.  FPC takes    *)
(* its input as a whole when it is complete.                               *)
(* Two coders mark the end in the data and need no length; two read ahead  *)
(* of what was written, and end the program on short input.                *)
(***************************************************************************)
EXTENDS CoderWords, SequencesExt

CONSTANTS Coders,              \* the coders to run
          Inputs,              \* for each coder the inputs
          MinCode,             \* 16: the smallest buffer Arithmetic_Codec, Binary_Codec take
          SCALElog, Rate, ProbBits, ORDER, ADAPT, N, TBits, FRate, InvBits, B,
          NSym, Incr, MaxFreq, FqzMaxFreq, STEP, Bubble, UP_FREQ, PpmBOT, VScale, VRate,
          DMShift, AcTable, HfMaxCount, HfTable, SymNum, NUM_STREAMS, MAX_BIT_LEN,
          MIN_COMPRESSIBLE_SIZE, ADAPTIVE_STEP, BLOCK_OVERHEAD, FlatLen, NibbleMax, U16MAX,
          BlockSize

VARIABLES codec,               \* the codec number codcomp switches on
          in,                  \* the input
          past,                \* the byte that lies beyond what was written
          pc,                  \* "encode", "decode", "done", "died"
          enc, dec,            \* the coder's and the decoder's state
          trace,               \* the encoder's state before each symbol
          out,                 \* the encoded bytes
          back                 \* what has been decoded

vars == <<codec, in, past, pc, enc, dec, trace, out, back>>

Shrc    == INSTANCE Shrc
FastAri == INSTANCE FastAri
Fpaqc   == INSTANCE Fpaqc
Subotin == INSTANCE Subotin
Fqz0    == INSTANCE Fqz0
Ppmdec  == INSTANCE Ppmdec
VecRc   == INSTANCE VecRc
Fastac  == INSTANCE Fastac
Fasthf  == INSTANCE Fasthf
Fpc     == INSTANCE Fpc

ASSUME StreamAssumption ==
  /\ Coders \subseteq {"shrc", "fastari", "fpaqc", "subotin", "fqz0", "ppmdec", "vecrc",
                "fastac", "fasthf", "fpc", "fpc0"}
  /\ MinCode \in Nat
  /\ Fpaqc!Sizes
  /\ NSym <= MaxFreq /\ MaxFreq <= Bot      \* src/EC/subotin/range.c:267
  /\ MAX_BIT_LEN + 1 <= NibbleMax /\ NibbleMax <= 15  \* src/EC/FPC/fpc.c:637-714
  /\ BlockSize < U16MAX                    \* src/EC/FPC/fpc.c:1094 (bsize < 64KB)

-----------------------------------------------------------------------------
(* The switches of codcomp and coddecomp. *)

FPC == {"fpc", "fpc0"}                   \* level 0 chooses the blocks itself

StartEnc(c) ==
  CASE c = "shrc"    -> Shrc!Start
    [] c = "fastari" -> FastAri!Start
    [] c = "fpaqc"   -> Fpaqc!Start
    [] c = "subotin" -> Subotin!Start
    [] c = "fqz0"    -> Fqz0!Start
    [] c = "ppmdec"  -> Ppmdec!Start
    [] c = "vecrc"   -> VecRc!Start
    [] c = "fastac"  -> Fastac!Start
    [] c = "fasthf"  -> Fasthf!Start
    [] c \in FPC      -> Fpc!Start

EncodeSym(c, e, s) ==
  CASE c = "shrc"    -> Shrc!Encode(e, s)
    [] c = "fastari" -> FastAri!Encode(e, s)
    [] c = "fpaqc"   -> Fpaqc!Encode(e, s)
    [] c = "subotin" -> Subotin!Encode(e, s)
    [] c = "fqz0"    -> Fqz0!Encode(e, s)
    [] c = "ppmdec"  -> Ppmdec!Encode(e, s)
    [] c = "vecrc"   -> VecRc!Encode(e, s)
    [] c = "fastac"  -> Fastac!Encode(e, s)
    [] c = "fasthf"  -> Fasthf!Encode(e, s)
    [] c \in FPC      -> Fpc!Encode(e, s)

FinishEnc(c, e) ==
  CASE c = "shrc"    -> Shrc!Finish(e)
    [] c = "fastari" -> FastAri!Finish(e)
    [] c = "fpaqc"   -> Fpaqc!Finish(e)
    [] c = "subotin" -> Subotin!Finish(e)
    [] c = "fqz0"    -> Fqz0!Finish(e)
    [] c = "ppmdec"  -> Ppmdec!Finish(e)
    [] c = "vecrc"   -> VecRc!Finish(e)
    [] c = "fastac"  -> Fastac!Finish(e)
    [] c = "fasthf"  -> Fasthf!Finish(e)
    [] c = "fpc"     -> Fpc!Finish(e)
    [] c = "fpc0"    -> Fpc!FinishAdaptive(e)

StartDec(c, bytes, outlen) ==
  CASE c = "shrc"    -> Shrc!StartDecode(bytes)
    [] c = "fastari" -> FastAri!StartDecode(bytes)
    [] c = "fpaqc"   -> Fpaqc!StartDecode(bytes)
    [] c = "subotin" -> Subotin!StartDecode(bytes)
    [] c = "fqz0"    -> Fqz0!StartDecode(bytes)
    [] c = "ppmdec"  -> Ppmdec!StartDecode(bytes)
    [] c = "vecrc"   -> VecRc!StartDecode(bytes)
    [] c = "fastac"  -> Fastac!StartDecode(bytes)
    [] c = "fasthf"  -> Fasthf!StartDecode(bytes)
    [] c \in FPC      -> Fpc!StartDecode(bytes, outlen)

DecodeSym(c, d, bytes) ==
  CASE c = "shrc"    -> Shrc!Decode(d, bytes)
    [] c = "fastari" -> FastAri!Decode(d, bytes)
    [] c = "fpaqc"   -> Fpaqc!Decode(d, bytes)
    [] c = "subotin" -> Subotin!Decode(d, bytes)
    [] c = "fqz0"    -> Fqz0!Decode(d, bytes)
    [] c = "ppmdec"  -> Ppmdec!Decode(d, bytes)
    [] c = "vecrc"   -> VecRc!Decode(d, bytes)
    [] c = "fastac"  -> Fastac!Decode(d, bytes)
    [] c = "fasthf"  -> Fasthf!Decode(d, bytes)
    [] c \in FPC      -> Fpc!Decode(d)

EndMarked == {"fpaqc", "ppmdec"}          \* absd, ppmddec: no length needed
ReadAhead == {"fastac", "fasthf"}         \* up to three bytes that were not written

(* What the decoder is given: coders that read ahead find something there. *)
Buffer(c, bytes, rest) == IF c \in ReadAhead THEN bytes \o [k \in 1..3 |-> rest] ELSE bytes

(* set_buffer: Arithmetic_Codec decoder(outlen, in) takes the length of the  *)
(* output for that of its buffer.                                            *)
TooShort(c, n) == c \in ReadAhead /\ n < MinCode

-----------------------------------------------------------------------------
Init ==
  /\ codec \in Coders
  /\ in \in Inputs[codec]
  /\ past \in IF codec \in ReadAhead THEN {0, Byte - 1} ELSE {0}
  /\ pc = "encode"
  /\ enc = StartEnc(codec)
  /\ dec = <<>> /\ out = <<>> /\ back = <<>>
  /\ trace = <<enc>>

EncodeSymbol ==
  /\ pc = "encode" /\ Len(trace) <= Len(in)
  /\ enc' = EncodeSym(codec, enc, in[Len(trace)])
  /\ trace' = Append(trace, enc')
  /\ UNCHANGED <<codec, in, past, pc, dec, out, back>>

FinishEncode ==
  /\ pc = "encode" /\ Len(trace) > Len(in)
  /\ out' = FinishEnc(codec, enc)
  /\ IF TooShort(codec, Len(in)) THEN pc' = "died" /\ UNCHANGED dec
     ELSE pc' = "decode" /\ dec' = StartDec(codec, Buffer(codec, out', past), Len(in))
  /\ UNCHANGED <<codec, in, past, enc, trace, back>>

(* FastAri's decoder stops when it has read all, even in the middle of a
   symbol (dec.ended). *)
DecodeSymbol ==
  /\ pc = "decode"
  /\ codec \in EndMarked \/ Len(back) < Len(in)
  /\ dec' = DecodeSym(codec, dec, Buffer(codec, out, past))
  /\ IF dec'.sym = -1 \/ (codec = "fastari" /\ dec'.ended)
     THEN pc' = "done" /\ UNCHANGED back
     ELSE back' = Append(back, dec'.sym) /\ UNCHANGED pc
  /\ UNCHANGED <<codec, in, past, enc, trace, out>>

FinishDecode ==
  /\ pc = "decode" /\ codec \notin EndMarked /\ Len(back) = Len(in)
  /\ pc' = "done"
  /\ UNCHANGED <<codec, in, past, enc, dec, trace, out, back>>

Next == EncodeSymbol \/ FinishEncode \/ DecodeSymbol \/ FinishDecode

Spec == Init /\ [][Next]_vars
=============================================================================

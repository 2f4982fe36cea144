----------------------------- MODULE CodecProofs -----------------------------
(***************************************************************************)
(* The codecs.                                                             *)
(*                                                                         *)
(* Wrappers, for every codec, level and parameter, however many chunks     *)
(* there are and whichever of them a library refuses: the types, that the  *)
(* decoder's case reads what the encoder's wrote, and that what the        *)
(* program says of a codec is right.                                       *)
(*                                                                         *)
(* Fpaqc, one of the coders below them, for every size of its table that   *)
(* Sizes allows: a multiplication with a reciprocal is the division it     *)
(* replaces, and what was coded, in however many blocks, comes back.       *)
(***************************************************************************)
EXTENDS Wrappers, Fpaqc, DataInduction, SequenceTheorems, TLAPS


-----------------------------------------------------------------------------
(* The tables.                                                             *)

Answers(e) == e.zero \cup e.minus \cup e.own \cup e.length \cup e.const \cup e.raw

\* Every codec of the registry has a case in codcomp, under one of the headings.
LEMMA EachAnswers ==
  ASSUME NEW id \in Plugs \ {"BPC", "FIRETRAIL"}
  PROVE  \/ id \in Answers(CompA_C) \cup Answers(CompD_K) \cup Answers(CompL_LZH)
         \/ id \in Answers(CompLZJ_LZS) \cup Answers(CompM_O) \cup Answers(CompP_T)
         \/ id \in Answers(CompU_Z) \cup Answers(CompEncoding) \cup Answers(CompEntropy)
         \/ id \in Answers(CompLast)
BY DEF Answers, Entry, CompA_C, CompD_K, CompL_LZH, CompLZJ_LZS, CompM_O, CompP_T, CompU_Z,
       CompEncoding, CompEntropy, CompLast, AOCL, BLOSC, LZO, OPENZL, PCODEC, B64, TB64,
       Plugs, PlugsA_W, PlugsX_Z

\* Only fse and fseh copy what their library refused.
LEMMA RawCases ==
  /\ CompA_C.raw = {} /\ CompD_K.raw = {} /\ CompL_LZH.raw = {} /\ CompLZJ_LZS.raw = {}
  /\ CompM_O.raw = {} /\ CompP_T.raw = {} /\ CompU_Z.raw = {} /\ CompEncoding.raw = {}
  /\ CompEntropy.raw = {"FSE", "FSEH"} /\ CompLast.raw = {}
BY DEF Entry, CompA_C, CompD_K, CompL_LZH, CompLZJ_LZS, CompM_O, CompP_T, CompU_Z,
       CompEncoding, CompEntropy, CompLast

LEMMA RawClass ==
  ASSUME NEW id \in Plugs \ {"BPC", "FIRETRAIL"}, Class(id) = "raw"
  PROVE  id \in {"FSE", "FSEH"}
<1> DEFINE Classes == {"zero", "minus", "own", "length", "const", "raw"}
<1>1. \E e \in Comp : id \in Answers(e)
  BY EachAnswers DEF Comp
<1>2. \E class \in Classes : \E e \in Comp : id \in e[class]
  <2>1. PICK e \in Comp : id \in Answers(e)
    BY <1>1
  <2>2. \E class \in Classes : id \in e[class]
    BY <2>1 DEF Answers
  <2> QED
    BY <2>1, <2>2
<1>3. \E e \in Comp : id \in e[Class(id)]
  BY <1>2 DEF Class
<1>4. PICK e \in Comp : id \in e.raw
  BY <1>3
<1> QED
  BY <1>4, RawCases DEF Comp

\* coddecomp has a case for each, too.
LEMMA EachIsDecoded ==
  ASSUME NEW id \in Plugs \ {"BPC", "FIRETRAIL"}
  PROVE  id \in DecompIds
<1>1. \/ id \in DecompA_C.has \cup DecompD_K.has \cup DecompL_LZH.has \cup DecompLZL_LZS.has
      \/ id \in DecompM_O.has \cup DecompP_T.has \cup DecompU_Z.has
      \/ id \in DecompEncoding.has \cup DecompEntropy.has \cup DecompLast.has
  BY DEF Case, DecompA_C, DecompD_K, DecompL_LZH, DecompLZL_LZS, DecompM_O, DecompP_T, DecompU_Z,
         DecompEncoding, DecompEntropy, DecompLast, AOCL, BLOSC, LZO, OPENZL, PCODEC, B64, TB64,
         Plugs, PlugsA_W, PlugsX_Z
<1> QED
  BY <1>1 DEF DecompIds, Decomp

\* Who uses the work memory, and who of them was given it.
LEMMA WorkCases ==
  /\ CompWork = {"BRIEFLZ", "CHAMELEON", "LZFSE", "LZFSEA", "LZRAVEN", "QUICKLZ", "TAMP", "WFLZ",
                 "FASTARI", "MARLIN"} \cup LZO
  /\ DecompWork = {"CHAMELEON", "FASTARI", "LZFSE", "LZFSEA", "QUICKLZ", "TAMP", "MARLIN"}
<1>1. /\ CompA_C.work = {"BRIEFLZ", "CHAMELEON"} /\ CompD_K.work = {}
      /\ CompL_LZH.work = {"LZFSE", "LZFSEA"} /\ CompLZJ_LZS.work = LZO \cup {"LZRAVEN"}
      /\ CompM_O.work = {} /\ CompP_T.work = {"QUICKLZ", "TAMP"} /\ CompU_Z.work = {"WFLZ"}
      /\ CompEncoding.work = {} /\ CompEntropy.work = {"FASTARI", "MARLIN"} /\ CompLast.work = {}
  BY DEF Entry, CompA_C, CompD_K, CompL_LZH, CompLZJ_LZS, CompM_O, CompP_T, CompU_Z,
         CompEncoding, CompEntropy, CompLast
<1>2. /\ DecompA_C.work = {"CHAMELEON"} /\ DecompD_K.work = {"FASTARI"}
      /\ DecompL_LZH.work = {"LZFSE", "LZFSEA"} /\ DecompLZL_LZS.work = {} /\ DecompM_O.work = {}
      /\ DecompP_T.work = {"QUICKLZ", "TAMP"} /\ DecompU_Z.work = {} /\ DecompEncoding.work = {}
      /\ DecompEntropy.work = {"MARLIN"} /\ DecompLast.work = {}
  BY DEF Case, DecompA_C, DecompD_K, DecompL_LZH, DecompLZL_LZS, DecompM_O, DecompP_T, DecompU_Z,
         DecompEncoding, DecompEntropy, DecompLast
<1>3. CompWork = {"BRIEFLZ", "CHAMELEON", "LZFSE", "LZFSEA", "LZRAVEN", "QUICKLZ", "TAMP", "WFLZ",
                  "FASTARI", "MARLIN"} \cup LZO
  BY <1>1 DEF CompWork, Comp
<1>4. DecompWork = {"CHAMELEON", "FASTARI", "LZFSE", "LZFSEA", "QUICKLZ", "TAMP", "MARLIN"}
  BY <1>2 DEF DecompWork, Decomp
<1> QED
  BY <1>3, <1>4

LEMMA WorkIsGiven ==
  ASSUME NEW id \in CompWork \cup DecompWork
  PROVE  id \in WorkGiven <=> id \notin Unready
BY WorkCases DEF LZO, WorkGiven, Unready

-----------------------------------------------------------------------------
(* The two cases of a codec.                                               *)

LEMMA OfCall ==
  ASSUME NEW c \in Calls
  PROVE  /\ c.id \in Plugs \ {"BPC", "FIRETRAIL"} /\ c.lev \in Nat /\ c.id \in DecompIds
         /\ DOMAIN c.prm = 1..Len(c.prm) /\ Len(c.prm) \in Nat
         /\ c.prm = <<>> \/ 1 \in DOMAIN c.prm
<1>1. c.id \in Plugs \ {"BPC", "FIRETRAIL"} /\ c.lev \in Nat /\ c.prm \in Seq(STRING)
  BY CallAssumption
<1>2. c.id \in DecompIds
  BY <1>1, EachIsDecoded
<1> QED
  BY <1>1, <1>2

\* Formats of two and of three parts differ.
LEMMA PartsDiffer ==
  ASSUME NEW x, NEW y, NEW z, NEW u, NEW v
  PROVE  /\ <<x, y, z>> # <<u, v>> /\ <<x>> # <<u, v>> /\ <<x>> # <<u, v, y>>
<1>1. Len(<<x, y, z>>) = 3 /\ Len(<<u, v>>) = 2 /\ Len(<<x>>) = 1 /\ Len(<<u, v, y>>) = 3
  OBVIOUS
<1> QED
  BY <1>1

\* And so do those with different names or numbers.
LEMMA NamesDiffer ==
  /\ \A x, y : <<x>> = <<y>> => x = y
  /\ \A x, y, z : <<x, y>> = <<x, z>> => y = z
<1>1. ASSUME NEW x, NEW y, <<x>> = <<y>> PROVE x = y
  <2>1. <<x>>[1] = x /\ <<y>>[1] = y
    OBVIOUS
  <2> QED
    BY <1>1, <2>1
<1>2. ASSUME NEW x, NEW y, NEW z, <<x, y>> = <<x, z>> PROVE y = z
  <2>1. <<x, y>>[2] = y /\ <<x, z>>[2] = z
    OBVIOUS
  <2> QED
    BY <1>2, <2>1
<1> QED
  BY <1>1, <1>2

LEMMA PairedLz ==
  ASSUME NEW c \in Calls, c.id \in {"LZ4", "CLICKHOUSE", "LZ4ULTRA"}
  PROVE  Mispaired(c) <=> Writes(c) # Reads(c)
<1>1. <<"lz4 block">> # <<"lz4 frame">> /\ <<"LZAV">> # <<"lz4 block">> /\ <<"LZAV">> # <<"lz4 frame">>
  BY NamesDiffer
<1>2. \A x : Has(c.prm, x) <=> x \in Letters(c.prm)
  BY DEF Has
<1>3. CASE c.id = "LZ4"
  BY <1>3 DEF Mispaired, Writes, Reads, Lz4Writes, Lz4Reads
<1>4. CASE c.id = "CLICKHOUSE"
  <2>1. Writes(c) = Lz4Writes(c.prm) /\ Reads(c) = <<"lz4 block">>
    BY <1>4, OfCall DEF Writes, Reads
  <2>2. Mispaired(c) <=> ~Has(c.prm, "F")
    BY <1>2, <1>4 DEF Mispaired
  <2> QED
    BY <1>1, <2>1, <2>2 DEF Lz4Writes
<1>5. CASE c.id = "LZ4ULTRA"
  <2>1. Writes(c) = Lz4ultraWrites(c.prm) /\ Reads(c) = Lz4ultraReads(c.prm)
    BY <1>5, OfCall DEF Writes, Reads
  <2>2. Mispaired(c) <=> \/ Has(c.prm, "z")
                         \/ Has(c.prm, "Z") /\ (Has(c.prm, "F") <=> ~Has(c.prm, "r"))
    BY <1>2, <1>5 DEF Mispaired
  <2> QED
    BY <1>1, <2>1, <2>2 DEF Lz4ultraWrites, Lz4Writes, Lz4ultraReads
<1> QED
  BY <1>3, <1>4, <1>5

LEMMA PairedSmallz4 ==
  ASSUME NEW c \in Calls, c.id = "SMALLZ4"
  PROVE  Mispaired(c) <=> Writes(c) # Reads(c)
<1>1. <<"SNAPPY">> # <<"SMAZ">> /\ <<"SNAPPY">> # <<"lz4 frame">> /\ <<"lz4 frame">> # <<"SMAZ">>
  BY NamesDiffer
<1>2. Writes(c) = Smallz4Writes(c.prm) /\ Reads(c) = Smallz4Reads(c.prm)
  BY OfCall DEF Writes, Reads
<1>3. Mispaired(c) <=> Has(c.prm, "z") \/ Has(c.prm, "Z")
  BY DEF Mispaired, Has
<1> QED
  BY <1>1, <1>2, <1>3 DEF Smallz4Writes, Smallz4Reads

LEMMA PairedDeflate ==
  ASSUME NEW c \in Calls, c.id \in {"LIBDEFLATE", "LIBSLZ"}
  PROVE  Mispaired(c) <=> Writes(c) # Reads(c)
<1>1. <<"deflate">> # <<"gzip">> /\ <<"deflate">> # <<"zlib">> /\ <<"gzip">> # <<"zlib">>
  BY NamesDiffer
<1>2. Writes(c) = DeflateWrites(c.prm) /\ Reads(c) = DeflateReads(c.prm)
  BY OfCall DEF Writes, Reads
<1> DEFINE first == IF c.prm = <<>> THEN "" ELSE c.prm[1]
<1>3. /\ first = "d" => Has(c.prm, "d")
      /\ first = "g" => Has(c.prm, "g")
  BY OfCall DEF Has, Letters
<1>4. Mispaired(c) <=> \/ (Has(c.prm, "d") \/ Has(c.prm, "g")) /\ first \notin {"d", "g"}
                       \/ first = "g" /\ Has(c.prm, "d")
  BY DEF Mispaired, Has
<1>5. DeflateReads(c.prm) = IF first = "d" THEN <<"deflate">>
                            ELSE IF first = "g" THEN <<"gzip">> ELSE <<"zlib">>
  BY DEF DeflateReads
<1> HIDE DEF first
<1> QED
  BY <1>1, <1>2, <1>3, <1>4, <1>5 DEF DeflateWrites

LEMMA PairedLzsa ==
  ASSUME NEW c \in Calls, c.id = "LZSA"
  PROVE  Mispaired(c) <=> Writes(c) # Reads(c)
<1>1. <<"lzsa block", 1>> # <<"lzsa block", 2>>
  BY NamesDiffer
<1>2. LzsaSecond(c.prm) => Has(c.prm, "f2")
  BY DEF LzsaSecond, Has, Letters
<1>3. Has(c.prm, "f2") /\ ~Has(c.prm, "f1") => LzsaSecond(c.prm)
  BY DEF LzsaSecond, Has, Letters
<1>4. Mispaired(c) <=> Has(c.prm, "r") /\ Has(c.prm, "f1") /\ ~LzsaSecond(c.prm)
  BY DEF Mispaired, Has
<1>5. Writes(c) = LzsaWrites(c.prm) /\ Reads(c) = LzsaReads(c.prm)
  BY OfCall DEF Writes, Reads
<1>6. CASE ~Has(c.prm, "r")
  BY <1>4, <1>5, <1>6 DEF LzsaWrites, LzsaReads
<1>7. CASE Has(c.prm, "r") /\ LzsaSecond(c.prm)
  <2>1. Writes(c) = <<"lzsa block", 2>> /\ Reads(c) = <<"lzsa block", 2>>
    BY <1>2, <1>5, <1>7 DEF LzsaWrites, LzsaReads
  <2> QED
    BY <1>4, <1>7, <2>1
<1>8. CASE Has(c.prm, "r") /\ ~LzsaSecond(c.prm)
  <2>1. Writes(c) = <<"lzsa block", 1>>
    BY <1>5, <1>8 DEF LzsaWrites
  <2>2. Has(c.prm, "f1") => Reads(c) = <<"lzsa block", 2>>
    BY <1>5, <1>8 DEF LzsaReads
  <2>3. ~Has(c.prm, "f1") => Reads(c) = <<"lzsa block", 1>>
    BY <1>3, <1>5, <1>8 DEF LzsaReads
  <2> QED
    BY <1>1, <1>4, <1>8, <2>1, <2>2, <2>3
<1> QED
  BY <1>6, <1>7, <1>8

LEMMA PairedTurborc ==
  ASSUME NEW c \in Calls, c.id = "TURBORC", Writes(c) # None
  PROVE  Mispaired(c) <=> Writes(c) # Reads(c)
<1>1. /\ Has(c.prm, "s") <=> "s" \in Letters(c.prm)
      /\ Has(c.prm, "S") <=> "S" \in Letters(c.prm)
  BY DEF Has
<1>2. Writes(c) = TurborcWrites(c.lev, c.prm) /\ Reads(c) = TurborcReads(c.lev, c.prm)
  BY OfCall DEF Writes, Reads
<1>3. c.lev \in TurborcLevels /\ c.lev \in Nat
  BY <1>2, OfCall DEF TurborcWrites
<1>4. Mispaired(c) <=> c.lev = 8 \/ (Wide(c.lev) /\ (Has(c.prm, "s") <=> ~Has(c.prm, "S")))
  BY <1>1 DEF Mispaired
<1>5. Writes(c) = IF c.lev = 8 THEN <<"turborc", 9>>
                  ELSE IF Wide(c.lev) /\ Has(c.prm, "S") THEN <<"turborc", c.lev, 16>>
                  ELSE <<"turborc", c.lev>>
  BY <1>2, <1>3 DEF TurborcWrites
<1>6. Reads(c) = IF Wide(c.lev) /\ Has(c.prm, "s") THEN <<"turborc", c.lev, 16>>
                 ELSE <<"turborc", c.lev>>
  BY <1>2, <1>3 DEF TurborcReads
<1>7. <<"turborc", c.lev, 16>> # <<"turborc", c.lev>>
  BY PartsDiffer
<1>8. CASE c.lev = 8
  <2>1. ~Wide(c.lev)
    BY <1>8 DEF Wide
  <2> QED
    BY <1>4, <1>5, <1>6, <1>8, <2>1
<1>9. CASE c.lev # 8
  BY <1>4, <1>5, <1>6, <1>7, <1>9
<1> QED
  BY <1>8, <1>9

\* Mispaired lists, for every level and parameter, all codecs whose decoder does
\* not read what their encoder writes.
LEMMA Paired ==
  ASSUME NEW c \in Calls, Writes(c) # None
  PROVE  Mispaired(c) <=> Writes(c) # Reads(c)
<1>1. CASE c.id \in {"LZ4", "CLICKHOUSE", "LZ4ULTRA", "SMALLZ4"}
  BY <1>1, PairedLz, PairedSmallz4
<1>2. CASE c.id \in {"LIBDEFLATE", "LIBSLZ"}
  BY <1>2, PairedDeflate
<1>3. CASE c.id = "LZSA"
  BY <1>3, PairedLzsa
<1>4. CASE c.id = "TURBORC"
  BY <1>4, PairedTurborc
<1>5. CASE c.id \in {"IGUANA", "CRLZP"}
  BY <1>5 DEF Mispaired, Reads, Writes
<1>6. CASE c.id = "ZSTD"
  <2>1. <<"ZSTD">> # <<"ZSTD", "dictionary">>
    BY PartsDiffer
  <2>2. Has(c.prm, "D") <=> "D" \in Letters(c.prm)
    BY DEF Has
  <2> QED
    BY <1>6, <2>1, <2>2, OfCall DEF Mispaired, Reads, Writes, ZstdReads
<1>7. CASE c.id \notin {"LZ4", "CLICKHOUSE", "LZ4ULTRA", "SMALLZ4", "LIBDEFLATE", "LIBSLZ",
                        "LZSA", "TURBORC", "IGUANA", "CRLZP", "ZSTD"}
  <2>1. ~Mispaired(c)
    BY <1>7 DEF Mispaired
  <2>2. Writes(c) = Reads(c)
    BY <1>7, OfCall DEF Writes, Reads
  <2> QED
    BY <2>1, <2>2
<1> QED
  BY <1>1, <1>2, <1>3, <1>4, <1>5, <1>6, <1>7

-----------------------------------------------------------------------------
(* The invariant.  Until it is checked, a chunk that was not lost lies in   *)
(* the output as its case wrote it, or as it is, and all of it; one that    *)
(* was lost does not, but for the transforms of bsc, and its decoder is     *)
(* called.                                                                  *)

Outputs == [fmt : Formats, of : 0..Chunks, whole : BOOLEAN]

Stands ==
  /\ pc # "done" => out.of <= i
  /\ pc = "comp" => out.of < i
  /\ pc \in {"store", "copy", "decomp"} /\ lost =>
       out.of # i \/ ~out.whole \/ call.id \in InPlace

Encoded ==
  pc \in {"store", "copy", "decomp"} /\ ~lost =>
    /\ len \in {"short", "full"} /\ out.of = i /\ out.whole
    /\ (opt.mcpy /\ len = "full" /\ pc # "store") \/ Writes(call) # None
    /\ out.fmt = IF len = "full" /\ (CopiesFull(call) \/ (opt.mcpy /\ pc # "store"))
                 THEN Raw ELSE Writes(call)

Decoded ==
  /\ pc \in {"copy", "decomp"} /\ lost => DecoderCalled
  /\ pc = "decomp" => cpz = "complement"
  /\ pc = "check" /\ opt.cmp > 0 => /\ lost /\ cpz = "chunk" => call.id \in InPlace
                                    /\ ~lost /\ ~Mispaired(call) => cpz = "chunk"

Judged ==
  opt.cmp > 1 =>
    /\ pc # "done" => /\ ever /\ ~err => call.id \in InPlace
                      /\ err => ever \/ Mispaired(call)
    /\ Verdict

TypeInv    == TypeOK /\ out \in Outputs
WrapperInv == TypeInv /\ Stands /\ Encoded /\ Decoded /\ Judged

\* At the decoder a chunk that was not lost is what its case reads, if the two agree.
LEMMA DecoderIsServed ==
  ASSUME TypeInv, Encoded, pc = "decomp", ~lost, DecoderCalled
  PROVE  IF Mispaired(call) THEN Fits => out.fmt = Raw ELSE Fits
<1>1. /\ call \in Calls /\ out.of = i /\ Writes(call) # None
      /\ out.fmt = IF len = "full" /\ CopiesFull(call) THEN Raw ELSE Writes(call)
  BY DEF TypeInv, TypeOK, Encoded, DecoderCalled
<1>2. Mispaired(call) <=> Writes(call) # Reads(call)
  BY <1>1, Paired
<1> QED
  BY <1>1, <1>2 DEF Fits

LEMMA IsOutput ==
  ASSUME NEW f \in Formats, NEW n \in 0..Chunks, NEW w \in BOOLEAN
  PROVE  /\ Holds(f, n, w) \in Outputs /\ Holds(f, n, w).fmt = f
         /\ Holds(f, n, w).of = n /\ Holds(f, n, w).whole = w
BY DEF Outputs, Holds

LEMMA FormatsAre ==
  ASSUME NEW c \in Calls
  PROVE  /\ Writes(c) \in Formats /\ Raw \in Formats /\ <<"copy">> \in Formats
         /\ Junk \in Outputs /\ Junk.of = 0
<1>1. Junk.fmt \in Formats
  BY DEF Formats
<1>2. Junk = Holds(Junk.fmt, 0, TRUE) /\ Junk.of = 0
  BY DEF Junk, Holds
<1>3. 0 \in 0..Chunks
  BY WrappersAssumption
<1> QED
  BY <1>1, <1>2, <1>3, IsOutput DEF Formats

LEMMA WrapperStart == Init => WrapperInv
<1> SUFFICES ASSUME Init PROVE WrapperInv
  OBVIOUS
<1>1. /\ call \in Calls /\ opt \in [mcpy : BOOLEAN, cmp : 0..3]
      /\ pc = "comp" /\ i = 1 /\ len = "zero" /\ out = Junk /\ cpz = "other"
      /\ err = FALSE /\ lost = FALSE /\ ever = FALSE /\ shows = "running"
  BY DEF Init
<1>2. /\ out \in Outputs /\ out.of = 0 /\ out.fmt \in Formats /\ out.of \in 0..Chunks
      /\ out.whole \in BOOLEAN
  BY <1>1, FormatsAre DEF Outputs
<1>3. TypeInv
  <2>1. i \in 1..Chunks + 1 /\ i <= Chunks
    BY <1>1, WrappersAssumption
  <2> QED
    BY <1>1, <1>2, <2>1 DEF TypeInv, TypeOK
<1> QED
  BY <1>1, <1>2, <1>3 DEF WrapperInv, Stands, Encoded, Decoded, Judged, Verdict

\* The encoder.
LEMMA WrapperWorks == ASSUME WrapperInv, CompWorks PROVE WrapperInv'
<1> PICK whole \in BOOLEAN :
      /\ out' = Holds(IF len' = "full" /\ CopiesFull(call) THEN Raw ELSE Writes(call), i, whole)
      /\ lost' = ~whole
  BY DEF CompWorks
<1>1. /\ call' = call /\ opt' = opt /\ i' = i /\ cpz' = cpz /\ err' = err /\ ever' = ever
      /\ shows' = shows /\ pc = "comp" /\ pc' = "store" /\ lost' = ~whole
      /\ len' \in {"short", "full"} /\ Writes(call) # None
      /\ out' = Holds(IF len' = "full" /\ CopiesFull(call) THEN Raw ELSE Writes(call), i, whole)
  BY DEF CompWorks
<1>2. /\ call \in Calls /\ opt \in [mcpy : BOOLEAN, cmp : 0..3] /\ i \in 1..Chunks /\ Chunks \in Nat
      /\ i \in 0..Chunks
  BY <1>1, WrappersAssumption DEF WrapperInv, TypeInv, TypeOK
<1>3. /\ out' \in Outputs /\ out'.of = i
      /\ out'.fmt = IF len' = "full" /\ CopiesFull(call) THEN Raw ELSE Writes(call)
      /\ out'.fmt \in Formats /\ out'.whole = whole
  BY <1>1, <1>2, FormatsAre, IsOutput
<1>4. TypeInv'
  BY <1>1, <1>2, <1>3 DEF WrapperInv, TypeInv, TypeOK
<1>5. Stands' /\ Encoded' /\ Decoded'
  <2>1. (lost' => ~out'.whole) /\ (~lost' => out'.whole)
    BY <1>1, <1>3
  <2>2. Stands'
    BY <1>1, <1>2, <1>3, <2>1 DEF Stands
  <2>3. Encoded'
    BY <1>1, <1>2, <1>3, <2>1 DEF Encoded
  <2> QED
    BY <1>1, <2>2, <2>3 DEF Decoded
<1>6. Judged'
  BY <1>1 DEF WrapperInv, Judged, Verdict
<1> QED
  BY <1>4, <1>5, <1>6 DEF WrapperInv

LEMMA WrapperRefuses == ASSUME WrapperInv, CompRefuses PROVE WrapperInv'
<1>1. /\ call' = call /\ opt' = opt /\ i' = i /\ cpz' = cpz /\ err' = err /\ ever' = ever
      /\ shows' = shows /\ pc = "comp" /\ pc' = "store" /\ lost' = (Class(call.id) # "raw")
      /\ len' \in Answer(call.id) /\ Writes(call) # None /\ out' \in Left
  BY DEF CompRefuses
<1>2. /\ call \in Calls /\ opt \in [mcpy : BOOLEAN, cmp : 0..3] /\ i \in 1..Chunks /\ Chunks \in Nat
      /\ i \in 0..Chunks /\ out \in Outputs /\ out.of < i
  BY <1>1, WrappersAssumption DEF WrapperInv, TypeInv, TypeOK, Stands
<1>3. /\ Junk \in Outputs /\ Junk.of = 0 /\ Raw \in Formats /\ <<"copy">> \in Formats
  BY <1>2, FormatsAre
<1>4. len' \in {"zero", "huge", "short", "full"}
  BY <1>1 DEF Answer
<1>5. CASE Class(call.id) = "raw"
  <2>1. call.id \in {"FSE", "FSEH"}
    BY <1>2, <1>5, OfCall, RawClass
  <2>2. CopiesFull(call) /\ len' = "full" /\ lost' = FALSE
    BY <1>1, <1>5, <2>1 DEF CopiesFull, Answer
  <2>3. out' = Holds(Raw, i, TRUE)
    BY <1>1, <1>5 DEF Left
  <2>4. /\ out' \in Outputs /\ out'.of = i /\ out'.fmt = Raw /\ out'.fmt \in Formats
        /\ out'.whole = TRUE
    BY <1>2, <1>3, <2>3, IsOutput
  <2>5. TypeInv'
    BY <1>1, <1>2, <1>4, <2>2, <2>4 DEF WrapperInv, TypeInv, TypeOK
  <2>6. Stands' /\ Encoded' /\ Decoded'
    BY <1>1, <1>2, <2>2, <2>4 DEF Stands, Encoded, Decoded
  <2> QED
    BY <1>1, <2>5, <2>6 DEF WrapperInv, Judged, Verdict
<1>6. CASE Class(call.id) # "raw"
  <2>1. out' \in Outputs /\ out'.of <= i /\ (out'.of # i \/ call.id \in InPlace)
    <3>1. Holds(<<"copy">>, i, TRUE) \in Outputs /\ Holds(<<"copy">>, i, TRUE).of = i
      BY <1>2, <1>3, IsOutput
    <3>2. out' \in IF call.id \in InPlace THEN {Holds(<<"copy">>, i, TRUE), Junk} ELSE {out, Junk}
      BY <1>1, <1>6 DEF Left
    <3>3. CASE call.id \in InPlace
      <4>1. out' = Holds(<<"copy">>, i, TRUE) \/ out' = Junk
        BY <3>2, <3>3
      <4>2. Junk.of <= i /\ Holds(<<"copy">>, i, TRUE).of <= i
        <5>1. 0 <= i /\ i <= i
          BY <1>2
        <5> QED
          BY <1>3, <3>1, <5>1, Zenon
      <4> QED
        BY <1>3, <3>1, <3>3, <4>1, <4>2
    <3>4. CASE call.id \notin InPlace
      <4>1. out' = out \/ out' = Junk
        BY <3>2, <3>4
      <4> QED
        BY <1>2, <1>3, <4>1 DEF Outputs
    <3> QED
      BY <3>3, <3>4
  <2>2. out'.fmt \in Formats /\ out'.of \in 0..Chunks /\ out'.whole \in BOOLEAN
    BY <2>1 DEF Outputs
  <2>3. TypeInv'
    BY <1>1, <1>2, <1>4, <1>6, <2>1, <2>2 DEF WrapperInv, TypeInv, TypeOK
  <2>4. Stands' /\ Encoded' /\ Decoded'
    BY <1>1, <1>6, <2>1 DEF Stands, Encoded, Decoded
  <2> QED
    BY <1>1, <2>3, <2>4 DEF WrapperInv, Judged, Verdict
<1> QED
  BY <1>5, <1>6

LEMMA WrapperNoLevel == ASSUME WrapperInv, NoSuchLevel PROVE WrapperInv'
<1>1. /\ call' = call /\ opt' = opt /\ i' = i /\ cpz' = cpz /\ err' = err /\ ever' = ever
      /\ shows' = shows /\ pc = "comp" /\ pc' = "store" /\ lost' = TRUE
      /\ len' = "zero" /\ out' = out
  BY DEF NoSuchLevel
<1>2. out.of < i /\ i \in 1..Chunks /\ Chunks \in Nat /\ out.of \in 0..Chunks
  BY <1>1, WrappersAssumption DEF WrapperInv, TypeInv, TypeOK, Stands
<1>3. TypeInv'
  BY <1>1, <1>2 DEF WrapperInv, TypeInv, TypeOK, Formats, Outputs
<1>4. Stands' /\ Encoded' /\ Decoded'
  BY <1>1, <1>2 DEF Stands, Encoded, Decoded
<1> QED
  BY <1>1, <1>3, <1>4 DEF WrapperInv, Judged, Verdict

\* What becomp makes of the answer.
LEMMA WrapperStores ==
  ASSUME WrapperInv, StoreAsIs \/ StoreNothing \/ Store
  PROVE  WrapperInv'
<1>1. /\ call' = call /\ opt' = opt /\ i' = i /\ cpz' = cpz /\ err' = err /\ ever' = ever
      /\ shows' = shows /\ pc = "store" /\ pc' = "copy"
  BY DEF StoreAsIs, StoreNothing, Store
<1>2. /\ call \in Calls /\ i \in 1..Chunks /\ Chunks \in Nat /\ i \in 0..Chunks
      /\ out \in Outputs /\ opt.mcpy \in BOOLEAN
  BY <1>1, WrappersAssumption DEF WrapperInv, TypeInv, TypeOK
<1>3. Judged'
  BY <1>1 DEF WrapperInv, Judged, Verdict
<1>4. CASE StoreAsIs
  <2>1. /\ len' = "full" /\ out' = Holds(Raw, i, TRUE) /\ lost' = FALSE /\ opt.mcpy
    BY <1>4 DEF StoreAsIs
  <2>2. /\ out' \in Outputs /\ out'.of = i /\ out'.fmt = Raw /\ out'.fmt \in Formats
        /\ out'.whole = TRUE
    BY <1>2, <2>1, FormatsAre, IsOutput
  <2>3. TypeInv'
    BY <1>1, <1>2, <2>1, <2>2 DEF WrapperInv, TypeInv, TypeOK
  <2>4. pc' = "copy" /\ ~lost' /\ len' = "full" /\ opt'.mcpy /\ i \in Nat /\ out'.whole
    <3>1. i \in Nat
      BY <1>2
    <3> QED
      BY <1>1, <2>1, <2>2, <3>1, Zenon
  <2>5. Stands' /\ Encoded' /\ Decoded'
    BY <1>1, <2>2, <2>4 DEF Stands, Encoded, Decoded
  <2> QED
    BY <1>3, <2>3, <2>5 DEF WrapperInv
<1>5. CASE StoreNothing \/ Store
  <2>1. /\ len' = len /\ out' = out /\ lost' = lost
        /\ ~(opt.mcpy /\ len = "full")
    BY <1>2, <1>5 DEF StoreNothing, Store
  <2>2. TypeInv'
    BY <1>1, <1>2, <2>1 DEF WrapperInv, TypeInv, TypeOK, Formats, Outputs
  <2>3. Stands' /\ Encoded' /\ Decoded'
    BY <1>1, <2>1 DEF WrapperInv, Stands, Encoded, Decoded, DecoderCalled
  <2> QED
    BY <1>3, <2>2, <2>3 DEF WrapperInv
<1> QED
  BY <1>4, <1>5

\* The program ends: with a number the codec cannot take, a length no buffer has,
\* or a decoder that does not go on.
LEMMA WrapperDies ==
  ASSUME WrapperInv, CompDies \/ StoreHuge \/ DecompDiesOf
  PROVE  WrapperInv'
<1>1. /\ call' = call /\ opt' = opt /\ i' = i /\ len' = len /\ out' = out /\ cpz' = cpz
      /\ err' = err /\ lost' = lost /\ ever' = ever /\ pc' = "done" /\ shows' = "died"
  BY DEF CompDies, StoreHuge, DecompDiesOf, Die
<1>2. TypeInv'
  BY <1>1 DEF WrapperInv, TypeInv, TypeOK, Formats, Outputs
<1>3. Stands' /\ Encoded' /\ Decoded'
  BY <1>1 DEF Stands, Encoded, Decoded
<1>4. lost \/ Mispaired(call) \/ IcDies(call.prm)
  <2>1. CASE CompDies
    BY <2>1 DEF CompDies
  <2>2. CASE StoreHuge
    BY <2>2 DEF StoreHuge, WrapperInv, Encoded
  <2>3. CASE DecompDiesOf
    <3>1. CASE lost
      BY <3>1
    <3>2. CASE ~lost
      <4>1. pc = "decomp" /\ DecoderCalled /\ ~(Fits /\ len # "zero") /\ len # "zero"
        BY <2>3, <3>2 DEF DecompDiesOf, WrapperInv, Encoded
      <4> QED
        BY <3>2, <4>1, DecoderIsServed DEF WrapperInv
    <3> QED
      BY <3>1, <3>2
  <2> QED
    BY <2>1, <2>2, <2>3
<1> QED
  BY <1>1, <1>2, <1>3, <1>4 DEF WrapperInv, Judged, Verdict

LEMMA WrapperCopies == ASSUME WrapperInv, Copy \/ NoCopy PROVE WrapperInv'
<1>1. /\ call' = call /\ opt' = opt /\ i' = i /\ len' = len /\ out' = out /\ lost' = lost
      /\ err' = err /\ ever' = ever /\ shows' = shows /\ pc = "copy"
      /\ \/ opt.cmp > 0 /\ pc' = "decomp" /\ cpz' = "complement"
         \/ opt.cmp = 0 /\ pc' = "check" /\ cpz' = cpz
  BY DEF Copy, NoCopy, Fill
<1>2. TypeInv'
  BY <1>1 DEF WrapperInv, TypeInv, TypeOK, Formats, Outputs
<1>3. opt.cmp \in 0..3
  BY DEF WrapperInv, TypeInv, TypeOK
<1>4. Stands' /\ Encoded' /\ Decoded'
  BY <1>1, <1>3 DEF WrapperInv, Stands, Encoded, Decoded, DecoderCalled
<1> QED
  BY <1>1, <1>2, <1>4 DEF WrapperInv, Judged, Verdict

\* The decoder.  A chunk comes back only if it was not lost, but for the transforms.
LEMMA WrapperDecodes ==
  ASSUME WrapperInv, DecompAsIs \/ DecompWorks \/ DecompPart \/ DecompRefuses
  PROVE  WrapperInv'
<1>1. /\ call' = call /\ opt' = opt /\ i' = i /\ len' = len /\ out' = out
      /\ lost' = lost \/ (DecompPart /\ lost' = TRUE)
      /\ err' = err /\ ever' = ever /\ shows' = shows /\ pc = "decomp" /\ pc' = "check"
  BY DEF DecompAsIs, DecompWorks, DecompPart, DecompRefuses
<1>2. cpz = "complement" /\ cpz' \in {"chunk", "complement", "other"}
  BY <1>1 DEF DecompAsIs, DecompWorks, DecompPart, DecompRefuses, WrapperInv, Decoded
<1>p. DecompPart => cpz' = "other" /\ lost'
  BY <1>2 DEF DecompPart
<1>3. TypeInv'
  BY <1>1, <1>2 DEF WrapperInv, TypeInv, TypeOK, Formats, Outputs
<1>4. lost' /\ cpz' = "chunk" => call.id \in InPlace
  <2> SUFFICES ASSUME lost, cpz' = "chunk", ~DecompPart PROVE call.id \in InPlace
    BY <1>1, <1>p
  <2>1. DecoderCalled /\ (out.of # i \/ ~out.whole \/ call.id \in InPlace)
    BY <1>1 DEF WrapperInv, Decoded, Stands
  <2>2. CASE DecompWorks
    BY <2>1, <2>2 DEF DecompWorks, Fits
  <2>3. CASE DecompRefuses
    <3>1. out = Holds(<<"copy">>, i, TRUE)
      BY <1>2, <2>3 DEF DecompRefuses
    <3>2. out.of = i /\ out.whole
      BY <3>1 DEF Holds
    <3> QED
      BY <2>1, <3>2
  <2> QED
    BY <2>1, <2>2, <2>3 DEF DecompAsIs
<1>5. ~lost' /\ ~Mispaired(call) => cpz' = "chunk"
  <2> SUFFICES ASSUME ~lost', ~Mispaired(call), ~lost, ~DecompPart PROVE cpz' = "chunk"
    BY <1>1, <1>p
  <2>1. len # "zero" /\ (DecoderCalled => Fits)
    BY <1>1, DecoderIsServed DEF WrapperInv, Encoded
  <2>2. CASE DecompAsIs
    <3>1. /\ out \in [fmt : Formats, of : 0..Chunks, whole : BOOLEAN]
          /\ out.of = i /\ out.fmt = Raw /\ out.whole
      BY <1>1, <2>2 DEF WrapperInv, TypeInv, Outputs, Encoded, DecompAsIs, DecoderCalled
    <3>2. out = Holds(Raw, i, TRUE)
      BY <3>1 DEF Holds
    <3> QED
      BY <2>2, <3>2 DEF DecompAsIs
  <2> QED
    BY <2>1, <2>2 DEF DecompWorks, DecompRefuses
<1>6. Stands' /\ Encoded' /\ Decoded'
  BY <1>1, <1>4, <1>5 DEF WrapperInv, Stands, Encoded, Decoded
<1> QED
  BY <1>1, <1>3, <1>6 DEF WrapperInv, Judged, Verdict

\* memcheck, and the next chunk.
LEMMA WrapperChecks == ASSUME WrapperInv, Check PROVE WrapperInv'
<1>1. /\ call' = call /\ opt' = opt /\ len' = len /\ out' = out /\ cpz' = cpz /\ lost' = lost
      /\ pc = "check" /\ err' = (err \/ (opt.cmp > 1 /\ cpz # "chunk")) /\ ever' = (ever \/ lost)
      /\ IF opt.cmp > 2 /\ cpz # "chunk"
         THEN pc' = "done" /\ shows' = "exit" /\ i' = i
         ELSE /\ i' = i + 1
              /\ IF i = Chunks THEN pc' = "done" /\ shows' = IF err' THEN "error" ELSE "good"
                 ELSE pc' = "comp" /\ shows' = shows
  BY DEF Check, Keep, LastChunk
<1>2. /\ i \in 1..Chunks /\ Chunks \in Nat /\ out.of \in 0..Chunks /\ out.of <= i
      /\ opt.cmp \in 0..3 /\ err \in BOOLEAN /\ lost \in BOOLEAN /\ ever \in BOOLEAN
  BY <1>1, WrappersAssumption DEF WrapperInv, TypeInv, TypeOK, Stands
<1>3. TypeInv'
  <2>1. i' \in 1..Chunks + 1 /\ (pc' # "done" => i' <= Chunks)
    BY <1>1, <1>2
  <2>2. /\ err' \in BOOLEAN /\ ever' \in BOOLEAN /\ pc' \in {"comp", "done"}
        /\ shows' \in {"running", "good", "error", "exit", "died"}
    BY <1>1, <1>2 DEF WrapperInv, TypeInv, TypeOK
  <2> QED
    BY <1>1, <2>1, <2>2 DEF WrapperInv, TypeInv, TypeOK, Formats, Outputs
<1>4. Stands' /\ Encoded' /\ Decoded'
  BY <1>1, <1>2 DEF Stands, Encoded, Decoded
<1>5. Judged'
  <2> SUFFICES ASSUME opt.cmp > 1
               PROVE  /\ pc' # "done" => /\ ever' /\ ~err' => call.id \in InPlace
                                         /\ err' => ever' \/ Mispaired(call)
                      /\ pc' = "done" => /\ shows' = "good" /\ ever' => call.id \in InPlace
                                         /\ shows' # "good" => ever' \/ lost \/ Mispaired(call)
    BY <1>1 DEF Judged, Verdict
  <2>1. /\ ever /\ ~err => call.id \in InPlace
        /\ err => ever \/ Mispaired(call)
        /\ lost /\ cpz = "chunk" => call.id \in InPlace
        /\ ~lost /\ ~Mispaired(call) => cpz = "chunk"
    BY <1>1, <1>2 DEF WrapperInv, Judged, Decoded
  <2>2. /\ ever' /\ ~err' => call.id \in InPlace
        /\ err' => ever' \/ Mispaired(call)
        /\ cpz # "chunk" => ever' \/ Mispaired(call)
    BY <1>1, <2>1
  <2>3. pc' = "done" => \/ shows' = "exit" /\ cpz # "chunk"
                        \/ shows' = IF err' THEN "error" ELSE "good"
    BY <1>1
  <2> QED
    BY <2>2, <2>3
<1> QED
  BY <1>3, <1>4, <1>5 DEF WrapperInv

LEMMA WrapperNext == WrapperInv /\ [Next]_vars => WrapperInv'
<1>1. CASE UNCHANGED vars
  BY <1>1 DEF vars, WrapperInv, TypeInv, TypeOK, Formats, Outputs, Stands, Encoded, Decoded, DecoderCalled,
              Judged, Verdict
<1> QED
  BY <1>1, WrapperWorks, WrapperRefuses, WrapperNoLevel, WrapperStores, WrapperDies, WrapperCopies,
     WrapperDecodes, WrapperChecks DEF Next

LEMMA WrapperHolds == Spec => []WrapperInv
BY WrapperStart, WrapperNext, PTL DEF Spec

-----------------------------------------------------------------------------
(* The theorems.                                                           *)

\* The variables of the wrappers keep their types.
THEOREM TypeCorrect == Spec => []TypeOK
<1>1. WrapperInv => TypeOK
  BY DEF WrapperInv, TypeInv
<1> QED
  BY <1>1, WrapperHolds, PTL

\* For every codec of the registry, every level and every parameter: what codcomp
\* wrote is what coddecomp reads, unless Mispaired names the call, and then never;
\* and who uses the work memory was given it, but for those Unready names.
THEOREM ServedCorrect == Spec => []Served
<1>1. WrapperInv => Served
  BY DecoderIsServed, WorkIsGiven DEF WrapperInv, Served
<1> QED
  BY <1>1, WrapperHolds, PTL

\* However many chunks there are, whichever of them a library refuses or a case cuts,
\* and whatever it answers then: checked, a codec is shown as good only if all of every
\* chunk came back, but for the transforms of bsc, and as an error only if something
\* was refused, cut or not restored, or its cases do not agree.
THEOREM VerdictCorrect == Spec => []Verdict
<1>1. WrapperInv => Verdict
  BY DEF WrapperInv, Judged, Verdict
<1> QED
  BY <1>1, WrapperHolds, PTL

-----------------------------------------------------------------------------
(* Fpaqc.  Products and quotients: the provers know nothing of x * y where *)
(* both are variables, so each such step has a name here.                  *)


\* A product grows with its factor.
LEMMA Product == ASSUME NEW x \in Int, NEW y \in Int, NEW z \in Int, x <= y, z >= 0 PROVE x * z <= y * z
OBVIOUS

\* A quotient is the number that is found between two multiples.
LEMMA Quotient ==
  ASSUME NEW a \in Int, NEW m \in Nat \ {0}
  PROVE  /\ a \div m \in Int /\ a % m \in 0..(m - 1)
         /\ a = (a \div m) * m + (a % m)
OBVIOUS

\* A number between two multiples of m in a row has this quotient.
LEMMA QuotientIs ==
  ASSUME NEW a \in Int, NEW m \in Nat \ {0}, NEW e \in Int, e * m <= a, a < (e + 1) * m
  PROVE  a \div m = e
<1> DEFINE f == a \div m
           r == a % m
<1>1. f \in Int /\ r \in 0..(m - 1) /\ a = f * m + r
  BY Quotient
<1> HIDE DEF f, r
<1>2. f * m + m = (f + 1) * m
  BY <1>1
<1>3. CASE f < e
  <2>1. (f + 1) * m <= e * m
    BY <1>1, <1>3, Product
  <2> QED
    BY <1>1, <1>2, <2>1
<1>4. CASE f > e
  <2>1. (e + 1) * m <= f * m
    BY <1>1, <1>4, Product
  <2> QED
    BY <1>1, <2>1
<1> QED
  BY <1>1, <1>3, <1>4 DEF f

\* A common factor of two products.
LEMMA Cancel ==
  ASSUME NEW x \in Int, NEW y \in Int, NEW m \in Nat \ {0}
  PROVE  (x * m <= y * m => x <= y) /\ (x * m < y * m => x < y)
<1>1. CASE x > y
  <2>1. (y + 1) * m <= x * m
    BY <1>1, Product
  <2>2. (y + 1) * m = y * m + m
    OBVIOUS
  <2> QED
    BY <1>1, <2>1, <2>2
<1>2. CASE x = y
  BY <1>2
<1> QED
  BY <1>1, <1>2

\* A factor u and a divisor m of a product that is no larger than I.
Factor(I, M, m, u) ==
  I \in Nat \ {0} /\ M \in Nat /\ m \in 1..M /\ u \in Nat \ {0} /\ u * M <= I

\* The reciprocal rounded down, for a bit 0.
LEMMA RoundedDown ==
  ASSUME NEW I, NEW M, NEW m, NEW u, Factor(I, M, m, u)
  PROVE  (u * ((I * M) \div m) - 1) \div I = (u * M - 1) \div m
<1>0. I \in Nat \ {0} /\ M \in Nat /\ m \in 1..M /\ u \in Nat \ {0} /\ u * M <= I
  BY DEF Factor
<1> USE <1>0
<1> DEFINE R == (I * M) \div m
           r == (I * M) % m
           e == (u * M - 1) \div m
           t == (u * M - 1) % m
<1>1. R \in Int /\ r \in 0..(m - 1) /\ I * M = R * m + r
  <2>1. I * M \in Int /\ m \in Nat \ {0}
    OBVIOUS
  <2> QED
    BY <2>1, Quotient
<1>2. e \in Int /\ t \in 0..(m - 1) /\ u * M - 1 = e * m + t
  <2>1. u * M - 1 \in Int /\ m \in Nat \ {0}
    OBVIOUS
  <2> QED
    BY <2>1, Quotient
<1> HIDE DEF R, r, e, t
<1>3. (u * R) * m = (e * I) * m + I * (t + 1) - u * r
  <2>1. (u * R) * m = u * (I * M - r)
    BY <1>1
  <2>2. u * (I * M - r) = I * (u * M) - u * r
    BY <1>1
  <2>3. u * M = e * m + (t + 1)
    BY <1>2
  <2>4. I * (u * M) = I * (e * m) + I * (t + 1)
    BY <1>2, <2>3
  <2>5. I * (e * m) = (e * I) * m
    BY <1>2
  <2> QED
    BY <1>1, <1>2, <2>1, <2>2, <2>4, <2>5
<1>4. u * r < I /\ u * r >= 0
  <2>1. u * (r + 1) <= u * M
    BY <1>1, Product
  <2>2. u * (r + 1) = u * r + u
    BY <1>1
  <2>3. 0 * u <= r * u /\ u * r \in Int /\ u * r = r * u
    BY <1>1, Product
  <2> QED
    BY <1>1, <2>1, <2>2, <2>3
<1>5. I <= I * (t + 1) /\ I * (t + 1) <= I * m
  BY <1>2, Product
<1>6. (e * I) * m < (u * R) * m
  BY <1>1, <1>2, <1>3, <1>4, <1>5
<1>7. (u * R) * m <= ((e + 1) * I) * m
  <2>1. ((e + 1) * I) * m = (e * I) * m + I * m
    BY <1>2
  <2> QED
    BY <1>1, <1>2, <1>3, <1>4, <1>5, <2>1
<1>8. e * I < u * R /\ u * R <= (e + 1) * I
  BY <1>1, <1>2, <1>6, <1>7, Cancel
<1>9. e * I <= u * R - 1 /\ u * R - 1 < (e + 1) * I /\ u * R - 1 \in Int
  BY <1>1, <1>2, <1>8
<1>10. (u * R - 1) \div I = e
  BY <1>2, <1>9, QuotientIs
<1> QED
  BY <1>10 DEF R, e

\* The reciprocal rounded up, for a bit 1.
LEMMA RoundedUp ==
  ASSUME NEW I, NEW M, NEW m, NEW w, Factor(I, M, m, w)
  PROVE  (w * ((I * M) \div m + 1) - 1) \div I = (w * M) \div m
<1>0. I \in Nat \ {0} /\ M \in Nat /\ m \in 1..M /\ w \in Nat \ {0} /\ w * M <= I
  BY DEF Factor
<1> USE <1>0
<1> DEFINE R == (I * M) \div m
           r == (I * M) % m
           e == (w * M) \div m
           t == (w * M) % m
<1>1. R \in Int /\ r \in 0..(m - 1) /\ I * M = R * m + r
  <2>1. I * M \in Int /\ m \in Nat \ {0}
    OBVIOUS
  <2> QED
    BY <2>1, Quotient
<1>2. e \in Int /\ t \in 0..(m - 1) /\ w * M = e * m + t
  <2>1. w * M \in Int /\ m \in Nat \ {0}
    OBVIOUS
  <2> QED
    BY <2>1, Quotient
<1> HIDE DEF R, r, e, t
<1>3. (w * (R + 1)) * m = (e * I) * m + I * t + w * (m - r)
  <2>1. (w * (R + 1)) * m = w * (R * m + m)
    BY <1>1
  <2>2. w * (R * m + m) = w * (I * M + (m - r))
    BY <1>1
  <2>3. w * (I * M + (m - r)) = I * (w * M) + w * (m - r)
    BY <1>1
  <2>4. I * (w * M) = I * (e * m) + I * t
    BY <1>2
  <2>5. I * (e * m) = (e * I) * m
    BY <1>2
  <2> QED
    BY <1>1, <1>2, <2>1, <2>2, <2>3, <2>4, <2>5
<1>4. w <= w * (m - r) /\ w * (m - r) <= I
  <2>1. w * (m - r) <= w * M /\ w * 1 <= w * (m - r)
    BY <1>1, Product
  <2> QED
    BY <1>1, <2>1
<1>5. 0 <= I * t /\ I * t <= I * m - I
  <2>1. I * 0 <= I * t /\ I * (t + 1) <= I * m
    BY <1>2, Product
  <2>2. I * (t + 1) = I * t + I
    BY <1>2
  <2> QED
    BY <1>2, <2>1, <2>2
<1>6. (e * I) * m < (w * (R + 1)) * m
  BY <1>1, <1>2, <1>3, <1>4, <1>5
<1>7. (w * (R + 1)) * m <= ((e + 1) * I) * m
  <2>1. ((e + 1) * I) * m = (e * I) * m + I * m
    BY <1>2
  <2> QED
    BY <1>1, <1>2, <1>3, <1>4, <1>5, <2>1
<1>8. e * I < w * (R + 1) /\ w * (R + 1) <= (e + 1) * I
  BY <1>1, <1>2, <1>6, <1>7, Cancel
<1>9. e * I <= w * (R + 1) - 1 /\ w * (R + 1) - 1 < (e + 1) * I /\ w * (R + 1) - 1 \in Int
  BY <1>1, <1>2, <1>8
<1>10. (w * (R + 1) - 1) \div I = e
  BY <1>2, <1>9, QuotientIs
<1> QED
  BY <1>10 DEF R, e


\* A number below m that is added to a multiple of it is the rest.
LEMMA RestIs ==
  ASSUME NEW m \in Nat \ {0}, NEW e \in Int, NEW r \in 0..(m - 1), NEW a, a = e * m + r
  PROVE  a \div m = e /\ a % m = r
<1>1. a \in Int /\ e * m \in Int /\ (e + 1) * m = e * m + m
  OBVIOUS
<1>2. a \div m = e
  BY <1>1, QuotientIs
<1>3. a = (a \div m) * m + (a % m) /\ a % m \in 0..(m - 1)
  BY <1>1, Quotient
<1> QED
  BY <1>1, <1>2, <1>3

\* Decoding finds the bit and the state it was pushed on.
Codes(M, q, w, x, a) == M \in Nat /\ q \in 1..(M - 1) /\ w \in Nat \ {0} /\ a = x * q - 1

\* A bit 1 is undone: what is left of x * q - 1 tells the bit, its quotient the state.
LEMMA UndoOne ==
  ASSUME NEW M, NEW q, NEW w, NEW x, NEW a, Codes(M, q, w, x, a), x = (w * M) \div q
  PROVE  /\ x \in Nat /\ a \div M + 1 = w /\ ((a % M) + q) \div M = 1
<1>0. M \in Nat /\ q \in 1..(M - 1) /\ w \in Nat \ {0} /\ a = x * q - 1
  BY DEF Codes
<1> USE <1>0
<1> DEFINE s == (w * M) % q
<1>1. x \in Int /\ s \in 0..(q - 1) /\ w * M = x * q + s
  <2>1. w * M \in Int /\ q \in Nat \ {0}
    OBVIOUS
  <2> QED
    BY <2>1, Quotient
<1> HIDE DEF s
<1>2. a = (w - 1) * M + (M - s - 1) /\ M - s - 1 \in 0..(M - 1) /\ M \in Nat \ {0} /\ w - 1 \in Int
  <2>1. (w - 1) * M = w * M - M
    OBVIOUS
  <2> QED
    BY <1>1, <2>1
<1>3. a \div M = w - 1 /\ a % M = M - s - 1
  <2> DEFINE e == w - 1
             r == M - s - 1
  <2>1. e \in Int /\ r \in 0..(M - 1) /\ a = e * M + r /\ M \in Nat \ {0}
    BY <1>2
  <2> HIDE DEF e, r
  <2>2. a \div M = e /\ a % M = r
    BY <2>1, RestIs
  <2> QED
    BY <2>2 DEF e, r
<1>4. (a % M) + q = 1 * M + (q - s - 1) /\ q - s - 1 \in 0..(M - 1)
  BY <1>1, <1>3
<1>5. ((a % M) + q) \div M = 1
  BY <1>2, <1>4, RestIs
<1>6. x >= 0
  <2>1. CASE x < 0
    <3>1. (x + 1) * q <= 0 * q /\ (x + 1) * q = x * q + q
      BY <1>1, <2>1, Product
    <3>2. w * M > 0
      <4>1. 1 * M <= w * M
        BY Product
      <4> QED
        BY <4>1
    <3> QED
      BY <1>1, <3>1, <3>2
  <2> QED
    BY <1>1, <2>1
<1> QED
  BY <1>1, <1>3, <1>5, <1>6

\* A bit 0 is undone.
LEMMA UndoZero ==
  ASSUME NEW M, NEW q, NEW w, NEW x, NEW a, Codes(M, q, w, x, a),
         x = ((w + 1) * M - 1) \div (M - q)
  PROVE  /\ x \in Nat /\ a \div M + 1 = x - w /\ ((a % M) + q) \div M = 0
<1>0. M \in Nat /\ q \in 1..(M - 1) /\ w \in Nat \ {0} /\ a = x * q - 1
  BY DEF Codes
<1> USE <1>0
<1> DEFINE m == M - q
           y == (w + 1) * M - 1
           s == y % m
<1>1. m \in Nat \ {0} /\ y \in Nat /\ (w + 1) * M = w * M + M
  <2>1. 0 * M <= w * M /\ (w + 1) * M = w * M + M
    BY Product
  <2> QED
    BY <2>1
<1>2. x \in Int /\ s \in 0..(m - 1) /\ y = x * m + s
  <2>1. x = y \div m /\ y \in Int
    BY <1>1
  <2> HIDE DEF y, m
  <2> QED
    BY <1>1, <2>1, Quotient
<1> HIDE DEF s
<1>3. a = (x - w - 1) * M + s /\ s \in 0..(M - 1) /\ M \in Nat \ {0} /\ x - w - 1 \in Int
  <2>1. x * m = x * M - x * q
    <3>1. x \in Int
      BY <1>2
    <3> QED
      BY <3>1
  <2>2. (x - w - 1) * M = x * M - (w + 1) * M
    <3>1. x \in Int
      BY <1>2
    <3> QED
      BY <3>1
  <2> QED
    BY <1>1, <1>2, <2>1, <2>2
<1>4. a \div M = x - w - 1 /\ a % M = s
  <2> DEFINE e == x - w - 1
  <2>1. e \in Int /\ s \in 0..(M - 1) /\ a = e * M + s /\ M \in Nat \ {0}
    BY <1>3
  <2> HIDE DEF e
  <2>2. a \div M = e /\ a % M = s
    BY <2>1, RestIs
  <2> QED
    BY <2>2 DEF e
<1>5. (a % M) + q = s + q /\ s + q \in 0..(M - 1)
  BY <1>2, <1>4
<1>6. ((a % M) + q) \div M = 0
  BY <1>3, <1>5
<1>7. x >= 0
  <2>1. CASE x < 0
    <3>1. (x + 1) * m <= 0 * m /\ (x + 1) * m = x * m + m
      BY <1>1, <1>2, <2>1, Product
    <3> QED
      BY <1>1, <1>2, <3>1
  <2> QED
    BY <1>2, <2>1
<1> QED
  BY <1>2, <1>4, <1>6, <1>7

-----------------------------------------------------------------------------
(* The constants of the coder.                                             *)

\* What the assumption about the sizes gives the proofs.
LEMMA SizesAre ==
  ASSUME Sizes
  PROVE  /\ Byte \in Nat /\ Byte >= 2 /\ Q \in Nat /\ Q >= 2 /\ Inv \in Nat \ {0}
         /\ Unit \in Nat \ {0} /\ 2^FRate \in Nat \ {0, 1} /\ B \in Nat \ {0} /\ Q % 2 = 0
         /\ Q <= Byte * Byte
         /\ Byte * Q \in Nat /\ (Byte * Q) * Q <= Inv /\ 2 * Q <= Byte * Q
<1>1. Byte \in Nat /\ Byte >= 2
  BY BitsAssumption DEF Byte
<1>2. /\ Q \in Nat \ {0} /\ Inv \in Nat \ {0} /\ Unit \in Nat \ {0} /\ 2^FRate \in Nat \ {0, 1}
      /\ B \in Nat \ {0} /\ Q % 2 = 0 /\ Q <= Byte * Byte /\ Byte * Q * Q <= Inv
  BY DEF Sizes
<1>3. Q >= 2
  BY <1>2
<1>4. Byte * Q \in Nat /\ 2 * Q <= Byte * Q
  BY <1>1, <1>2, Product
<1> QED
  BY <1>1, <1>2, <1>3, <1>4


\* A quotient is at least c if the number is at least c times m.
LEMMA QuotientAtLeast ==
  ASSUME NEW a \in Int, NEW m \in Nat \ {0}, NEW c \in Int
  PROVE  c * m <= a <=> c <= a \div m
<1> DEFINE f == a \div m
           r == a % m
<1>1. f \in Int /\ r \in 0..(m - 1) /\ a = f * m + r
  BY Quotient
<1> HIDE DEF f, r
<1>2. CASE c <= f
  <2>1. c * m <= f * m
    BY <1>1, <1>2, Product
  <2> QED
    BY <1>1, <1>2, <2>1 DEF f
<1>3. CASE c > f
  <2>1. (f + 1) * m <= c * m /\ (f + 1) * m = f * m + m
    BY <1>1, <1>3, Product
  <2> QED
    BY <1>1, <1>3, <2>1 DEF f
<1> QED
  BY <1>1, <1>2, <1>3

-----------------------------------------------------------------------------
(* One bit is pushed.                                                      *)

\* The quotient of a rounded reciprocal is the one it replaces.
LEMMA PushIs ==
  ASSUME Sizes, NEW q \in 1..(Q - 1), NEW d \in 0..1, NEW w \in 1..(Byte * Q - 1)
  PROVE  Push(w, q, d) = PushExact(w, q, d)
<1>1. /\ Byte \in Nat /\ Q \in Nat \ {0} /\ Inv \in Nat \ {0} /\ Byte * Q \in Nat
      /\ (Byte * Q) * Q <= Inv
  BY SizesAre
<1>2. PICK M : M = Q
  OBVIOUS
<1>3. PICK I : I = Inv
  OBVIOUS
<1>4. PICK top : top = Byte * Q
  OBVIOUS
<1>5. /\ I \in Nat \ {0} /\ M \in Nat /\ top \in Nat /\ top * M <= I /\ w \in 1..(top - 1)
      /\ w \in Nat \ {0} /\ q \in 1..(M - 1) /\ q \in 1..M
  BY <1>1, <1>2, <1>3, <1>4
<1>6. CASE d = 0
  <2>1. PICK m : m = M - q
    OBVIOUS
  <2>2. PICK u : u = w + 1
    OBVIOUS
  <2>3. m \in 1..M /\ u \in Nat \ {0} /\ u * M <= top * M
    BY <1>5, <2>1, <2>2, Product
  <2>4. u * M <= I /\ I \in Nat \ {0} /\ M \in Nat /\ m \in 1..M /\ u \in Nat \ {0}
    BY <1>5, <2>3
  <2>a. Factor(I, M, m, u)
    BY <2>4 DEF Factor
  <2>5. (u * ((I * M) \div m) - 1) \div I = (u * M - 1) \div m
    BY <2>a, RoundedDown
  <2>6. 1 - d + w = w + 1
    BY <1>5, <1>6
  <2> QED
    BY <1>2, <1>3, <1>6, <2>1, <2>2, <2>5, <2>6 DEF Push, PushExact, Qinv
<1>7. CASE d = 1
  <2>1. w * M <= top * M
    BY <1>5, Product
  <2>2. Factor(I, M, q, w)
    BY <1>5, <2>1 DEF Factor
  <2>3. (w * ((I * M) \div q + 1) - 1) \div I = (w * M) \div q
    BY <2>2, RoundedUp
  <2>4. 1 - d + w = w
    BY <1>5, <1>7
  <2> QED
    BY <1>2, <1>3, <1>7, <2>3, <2>4 DEF Push, PushExact, Qinv
<1> QED
  BY <1>6, <1>7

\* Fpaqc.ReciprocalsDivide (src/EC/fpaqc/fpaqc.cpp:318-335, 396): for every prediction, both
\* bits and every state the multiplication with the table's reciprocal gives the
\* quotient of the comment at 234-239.
THEOREM ReciprocalsAreExact == Sizes => ReciprocalsDivide
<1> SUFFICES ASSUME Sizes, NEW q \in 1..(Q - 1), NEW d \in 0..1, NEW w \in 1..(Byte * Q - 1)
             PROVE  Push(w, q, d) = PushExact(w, q, d)
  BY DEF ReciprocalsDivide
<1> QED
  BY PushIs

\* Fpaqc.Push (src/EC/fpaqc/fpaqc.cpp:396): what the coder shifts is a number of
\* two words of the reciprocals, so that arithmetic modulo 2^64 gives it, even
\* where the product before the - 1 is 2^64 itself.
THEOREM PushFits ==
  ASSUME Sizes, NEW q \in 1..(Q - 1), NEW d \in 0..1, NEW w \in 1..(Byte * Q - 1)
  PROVE  (1 - d + w) * Qinv(q, d) - 1 \in 0..(Inv * Inv - 1)
<1>1. /\ Byte \in Nat /\ Byte >= 2 /\ Q \in Nat \ {0} /\ Inv \in Nat \ {0} /\ Byte * Q \in Nat
      /\ (Byte * Q) * Q <= Inv
  BY SizesAre
<1>2. PICK M : M = Q
  OBVIOUS
<1>3. PICK I : I = Inv
  OBVIOUS
<1>4. PICK top : top = Byte * Q
  OBVIOUS
<1>5. PICK m : m = (IF d = 1 THEN q ELSE Q - q)
  OBVIOUS
<1>6. PICK f : f = (I * M) \div m
  OBVIOUS
<1>7. /\ I \in Nat \ {0} /\ M \in Nat \ {0} /\ top \in Nat /\ top * M <= I /\ w \in 1..(top - 1)
      /\ m \in 1..M /\ I * M \in Nat
  BY <1>1, <1>2, <1>3, <1>4, <1>5
<1>8. f \in Int /\ 1 <= f /\ f <= I * M
  <2>1. f \in Int
    BY <1>6, <1>7, Quotient
  <2>2. 1 * m <= I * M
    <3>1. m <= M /\ 1 * M <= I * M
      BY <1>7, Product
    <3> QED
      BY <1>7, <3>1
  <2>3. 1 <= f
    BY <1>6, <1>7, <2>2, QuotientAtLeast
  <2>4. I * M < (I * M + 1) * m
    <3>1. PICK a : a = I * M
      OBVIOUS
    <3>2. 1 * (a + 1) <= m * (a + 1) /\ m * (a + 1) = (a + 1) * m
      BY <1>7, <3>1, Product
    <3> QED
      BY <1>7, <3>1, <3>2
  <2>5. ~(I * M + 1 <= f)
    <3>1. (I * M + 1) * m <= I * M <=> I * M + 1 <= (I * M) \div m
      BY <1>7, QuotientAtLeast
    <3>2. (I * M + 1) * m \in Int
      BY <1>7
    <3> QED
      BY <1>6, <1>7, <2>4, <3>1, <3>2
  <2> QED
    BY <1>7, <2>1, <2>3, <2>5
<1>9. top * (I * M) <= I * I /\ top * (I * M) \in Nat /\ I * I \in Nat
  <2>1. (top * M) * I <= I * I
    BY <1>7, Product
  <2>2. (top * M) * I = top * (I * M)
    BY <1>7
  <2> QED
    BY <1>7, <2>1, <2>2
<1>10. CASE d = 0
  <2>1. Qinv(q, d) = f /\ 1 - d + w = w + 1
    BY <1>2, <1>3, <1>5, <1>6, <1>7, <1>10 DEF Qinv
  <2>2. (w + 1) * f <= top * f
    BY <1>7, <1>8, Product
  <2>3. f * top <= (I * M) * top
    BY <1>7, <1>8, Product
  <2>4. 1 * f <= (w + 1) * f
    BY <1>7, <1>8, Product
  <2>5. PICK g : g = (w + 1) * f
    OBVIOUS
  <2>6. g \in Int /\ 1 <= g /\ g <= I * I
    BY <1>7, <1>8, <1>9, <2>2, <2>3, <2>4, <2>5
  <2>7. g - 1 \in 0..(I * I - 1)
    BY <1>9, <2>6
  <2> QED
    BY <1>3, <2>1, <2>5, <2>7
<1>11. CASE d = 1
  <2>1. Qinv(q, d) = f + 1 /\ 1 - d + w = w
    BY <1>2, <1>3, <1>5, <1>6, <1>7, <1>11 DEF Qinv
  <2>2. PICK v : v = I * M + 1
    OBVIOUS
  <2>3. v \in Nat /\ f + 1 \in Nat /\ f + 1 <= v
    BY <1>7, <1>8, <2>2
  <2>4. w * (f + 1) <= (top - 1) * (f + 1)
    BY <1>7, <2>3, Product
  <2>5. (f + 1) * (top - 1) <= v * (top - 1)
    BY <1>7, <2>3, Product
  <2>6. v * (top - 1) = top * (I * M) + top - I * M - 1
    BY <1>7, <2>2
  <2>7. top <= I * M
    <3>1. top * 1 <= top * M /\ I * 1 <= I * M
      <4>1. 1 * top <= M * top /\ 1 * I <= M * I
        BY <1>7, Product
      <4> QED
        BY <1>7, <4>1
    <3> QED
      BY <1>7, <3>1
  <2>8. 1 * (f + 1) <= w * (f + 1)
    BY <1>7, <2>3, Product
  <2>9. PICK g : g = w * (f + 1)
    OBVIOUS
  <2>10. g \in Int /\ 1 <= g /\ g <= v * (top - 1)
    <3>1. PICK h : h = f + 1
      OBVIOUS
    <3>2. PICK z : z = top - 1
      OBVIOUS
    <3>3. h \in Nat /\ h >= 1 /\ z \in Int
      BY <1>7, <1>8, <2>3, <3>1, <3>2
    <3>4. w * h <= z * h /\ h * z <= v * z /\ 1 * h <= w * h
      BY <2>4, <2>5, <2>8, <3>1, <3>2
    <3>5. w * h \in Int /\ 1 <= w * h /\ w * h <= v * z
      BY <1>7, <2>3, <3>3, <3>4
    <3> QED
      BY <2>9, <3>1, <3>2, <3>5
  <2>11. PICK a : a = top * (I * M)
    OBVIOUS
  <2>12. PICK b : b = I * M
    OBVIOUS
  <2>13. PICK c : c = I * I
    OBVIOUS
  <2>14. g <= a + top - b - 1 /\ top <= b /\ a <= c /\ a \in Nat /\ b \in Nat /\ c \in Nat
    BY <1>7, <1>9, <2>6, <2>7, <2>10, <2>11, <2>12, <2>13
  <2>15. g - 1 \in 0..(c - 1)
    BY <1>7, <2>10, <2>14
  <2> QED
    BY <1>3, <2>1, <2>9, <2>13, <2>15
<1> QED
  BY <1>10, <1>11

\* Decoding gives the bit and the state it was pushed on, and the new state is
\* no smaller than Q if the old one was.
LEMMA PushUndone ==
  ASSUME Sizes, NEW q \in 1..(Q - 1), NEW d \in 0..1, NEW w \in 1..(Byte * Q - 1),
         NEW x, x = Push(w, q, d), NEW a, a = x * q - 1
  PROVE  /\ x \in Nat /\ ((a % Q) + q) \div Q = d
         /\ (IF d = 1 THEN a \div Q + 1 ELSE x - (a \div Q + 1)) = w
         /\ w >= Q => x >= Q
<1>1. Q \in Nat /\ Q >= 2 /\ w \in Nat \ {0} /\ w \in Nat
  BY SizesAre
<1>2. x = PushExact(w, q, d) /\ Codes(Q, q, w, x, a)
  BY <1>1, PushIs DEF Codes
<1>3. CASE d = 0
  <2>1. x = ((w + 1) * Q - 1) \div (Q - q)
    BY <1>2, <1>3 DEF PushExact
  <2>2. x \in Nat /\ a \div Q + 1 = x - w /\ ((a % Q) + q) \div Q = 0
    BY <1>2, <2>1, UndoZero
  <2>3. x - (x - w) = w
    BY <1>1, <2>2
  <2>4. ASSUME w >= Q PROVE x >= Q
    <3>1. PICK m : m = Q - q
      OBVIOUS
    <3>2. PICK y : y = (w + 1) * Q - 1
      OBVIOUS
    <3>3. m \in Nat \ {0} /\ m <= Q
      BY <1>1, <3>1
    <3>4. Q * m <= w * m /\ m * w <= Q * w
      BY <1>1, <2>4, <3>3, Product
    <3>5. (w + 1) * Q = w * Q + Q /\ y \in Int
      BY <1>1, <3>2
    <3>6. Q * m <= y
      BY <1>1, <3>2, <3>3, <3>4, <3>5
    <3>7. x = y \div m
      BY <2>1, <3>1, <3>2
    <3> QED
      BY <1>1, <3>3, <3>5, <3>6, <3>7, QuotientAtLeast
  <2> QED
    BY <1>3, <2>2, <2>3, <2>4
<1>4. CASE d = 1
  <2>1. x = (w * Q) \div q
    BY <1>2, <1>4 DEF PushExact
  <2>2. x \in Nat /\ a \div Q + 1 = w /\ ((a % Q) + q) \div Q = 1
    BY <1>2, <2>1, UndoOne
  <2>3. ASSUME w >= Q PROVE x >= Q
    <3>1. Q * q <= w * q /\ q * w <= Q * w
      BY <1>1, <2>3, Product
    <3>2. Q * q <= w * Q /\ w * Q \in Int
      BY <1>1, <3>1
    <3> QED
      BY <1>1, <2>1, <3>2, QuotientAtLeast
  <2> QED
    BY <1>4, <2>2, <2>3
<1> QED
  BY <1>3, <1>4

\* If the new state is too large, the old one is shifted to below Q, and that is
\* enough for the new one to be no smaller than Q.
LEMMA ShiftFits ==
  ASSUME Sizes, NEW q \in 1..(Q - 1), NEW d \in 0..1, NEW w \in 1..(Byte * Q - 1),
         Push(w, q, d) >= Byte * Q, NEW v, v = w \div Byte
  PROVE  v \in 1..(Q - 1) /\ v < w /\ Push(v, q, d) >= Q
<1>1. /\ Byte \in Nat /\ Byte >= 2 /\ Q \in Nat /\ Q >= 2 /\ Byte * Q \in Nat
      /\ 2 * Q <= Byte * Q /\ w \in Nat \ {0}
  BY SizesAre
<1>2. PICK m : m = IF d = 1 THEN q ELSE Q - q
  OBVIOUS
<1>3. m \in 1..(Q - 1)
  BY <1>1, <1>2
<1>4. m <= v
  <2>1. PushExact(w, q, d) >= Byte * Q
    BY PushIs
  <2>2. m * Byte <= w
    <3>1. CASE d = 1
      <4>1. (Byte * Q) * m <= w * Q
        <5>1. w * Q \in Int /\ m \in Nat \ {0} /\ Byte * Q <= (w * Q) \div m
          BY <1>1, <1>2, <1>3, <2>1, <3>1 DEF PushExact
        <5> QED
          BY <1>1, <5>1, QuotientAtLeast
      <4>2. (Byte * Q) * m = (m * Byte) * Q /\ m * Byte \in Int
        BY <1>1, <1>3
      <4> QED
        BY <1>1, <4>1, <4>2, Cancel
    <3>2. CASE d = 0
      <4>1. (Byte * Q) * m <= (w + 1) * Q - 1
        <5>1. PICK y : y = (w + 1) * Q - 1
          OBVIOUS
        <5>2. y \in Int /\ m \in Nat \ {0} /\ Byte * Q <= y \div m
          BY <1>1, <1>2, <1>3, <2>1, <3>2, <5>1 DEF PushExact
        <5>3. (Byte * Q) * m <= y
          BY <1>1, <5>2, QuotientAtLeast
        <5> QED
          BY <5>1, <5>3
      <4>2. (Byte * Q) * m = (m * Byte) * Q /\ m * Byte \in Int /\ (w + 1) * Q \in Int
        BY <1>1, <1>3
      <4>3. (m * Byte) * Q < (w + 1) * Q
        BY <1>1, <4>1, <4>2
      <4>4. m * Byte < w + 1
        BY <1>1, <4>2, <4>3, Cancel
      <4> QED
        BY <1>1, <4>2, <4>4
    <3> QED
      BY <3>1, <3>2
  <2> QED
    BY <1>1, <1>3, <2>2, QuotientAtLeast
<1>5. v < Q /\ v \in Int
  <2>1. v \in Int
    BY <1>1, Quotient
  <2>2. ~(Q * Byte <= w)
    BY <1>1
  <2> QED
    BY <1>1, <2>1, <2>2, QuotientAtLeast
<1>6. v < w
  <2>1. v * Byte <= w /\ 2 * v <= Byte * v /\ v * Byte = Byte * v
    BY <1>1, <1>3, <1>4, <1>5, QuotientAtLeast, Product
  <2> QED
    BY <1>1, <1>3, <1>4, <1>5, <2>1
<1>7. Push(v, q, d) >= Q
  <2>1. Push(v, q, d) = PushExact(v, q, d)
    BY <1>1, <1>3, <1>4, <1>5, PushIs
  <2>2. m * Q <= v * Q /\ m * Q = Q * m /\ (v + 1) * Q = v * Q + Q
    BY <1>1, <1>3, <1>4, <1>5, Product
  <2>3. CASE d = 1
    <3>1. Q * m <= v * Q /\ v * Q \in Int /\ m \in Nat \ {0}
      BY <1>1, <1>3, <1>5, <2>2
    <3>2. Q <= (v * Q) \div m
      BY <1>1, <3>1, QuotientAtLeast
    <3> QED
      BY <1>2, <2>1, <2>3, <3>2 DEF PushExact
  <2>4. CASE d = 0
    <3>1. Q * m <= (v + 1) * Q - 1 /\ (v + 1) * Q - 1 \in Int /\ m \in Nat \ {0}
      BY <1>1, <1>3, <1>5, <2>2
    <3>2. Q <= ((v + 1) * Q - 1) \div m
      BY <1>1, <3>1, QuotientAtLeast
    <3> QED
      BY <1>2, <2>1, <2>4, <3>2 DEF PushExact
  <2> QED
    BY <2>3, <2>4
<1>8. v \in 1..(Q - 1)
  BY <1>1, <1>3, <1>4, <1>5
<1> QED
  BY <1>6, <1>7, <1>8


-----------------------------------------------------------------------------
(* The recursions.                                                         *)

\* The body of Shifts, with u for the function itself.
ShiftStep(u, w, q, d) ==
  IF Push(w, q, d) < Byte * Q THEN [w |-> Push(w, q, d), outs |-> <<>>]
  ELSE [u[w \div Byte] EXCEPT !.outs = Append(@, w % Byte)]

\* Shifts is that function: a state that a byte leaves is smaller.
LEMMA ShiftsAt ==
  ASSUME Sizes, NEW q \in 1..(Q - 1), NEW d \in 0..1
  PROVE  \A w \in 1..(Byte * Q - 1) : Shifts(q, d)[w] = ShiftStep(Shifts(q, d), w, q, d)
<1> DEFINE top == Byte * Q - 1
           F(u, w) == ShiftStep(u, w, q, d)
           Solves(u, m) == \A w \in 1..m : w <= top => u[w] = F(u, w)
           P == {m \in Nat : \E u : Solves(u, m)}
<1>0. top \in Nat
  BY SizesAre
<1>1. ASSUME NEW u, NEW v, NEW w \in 1..top,
             w \div Byte \in 1..(w - 1) => u[w \div Byte] = v[w \div Byte]
      PROVE  F(u, w) = F(v, w)
  <2>1. CASE Push(w, q, d) < Byte * Q
    BY <2>1 DEF ShiftStep
  <2>2. CASE ~(Push(w, q, d) < Byte * Q)
    <3>1. Byte * Q \in Nat /\ Push(w, q, d) \in Nat
      BY <1>0, SizesAre, PushUndone
    <3>2. Push(w, q, d) >= Byte * Q
      BY <2>2, <3>1
    <3>3. w \div Byte \in 1..(Q - 1) /\ w \div Byte < w
      BY <1>0, <3>2, ShiftFits
    <3>4. w \div Byte \in 1..(w - 1)
      BY <1>0, <3>3, SizesAre
    <3>5. u[w \div Byte] = v[w \div Byte]
      BY <1>1, <3>4
    <3> QED
      BY <2>2, <3>5 DEF ShiftStep
  <2> QED
    BY <2>1, <2>2
<1> HIDE DEF F
<1>2. 0 \in P
  <2>1. Solves(<<>>, 0)
    OBVIOUS
  <2> QED
    BY <2>1
<1>3. ASSUME NEW m \in 0..(top - 1), m \in P PROVE m + 1 \in P
  <2>1. PICK u : Solves(u, m)
    BY <1>3
  <2> DEFINE v == [k \in 1..(m + 1) |-> F(u, k)]
  <2>2. ASSUME NEW k \in 1..(m + 1), k <= top PROVE v[k] = F(v, k)
    <3>1. v[k] = F(u, k)
      OBVIOUS
    <3>2. ASSUME k \div Byte \in 1..(k - 1) PROVE u[k \div Byte] = v[k \div Byte]
      <4>1. PICK j : j = k \div Byte
        OBVIOUS
      <4>2. j \in 1..m /\ j \in 1..(m + 1) /\ j <= top
        BY <1>0, <2>2, <3>2, <4>1
      <4>3. u[j] = F(u, j) /\ v[j] = F(u, j)
        BY <2>1, <4>2
      <4> QED
        BY <4>1, <4>3
    <3>3. k \in 1..top
      BY <1>0, <2>2
    <3> HIDE DEF v
    <3> QED
      BY <1>1, <3>1, <3>2, <3>3
  <2> HIDE DEF v
  <2>3. Solves(v, m + 1)
    BY <2>2
  <2>4. m + 1 \in Nat
    BY <1>0
  <2> HIDE DEF Solves
  <2> QED
    BY <2>3, <2>4
<1>4. top \in P
  <2> HIDE DEF P, top
  <2>1. \A k \in 0..top : k \in P
    BY <1>0, <1>2, <1>3, CountInduction
  <2> QED
    BY <1>0, <2>1
<1>5. PICK u : Solves(u, top)
  BY <1>4
<1> DEFINE v == [k \in 1..top |-> u[k]]
           s == Shifts(q, d)
<1>6. ASSUME NEW k \in 1..top PROVE v[k] = F(v, k)
  <2>1. v[k] = F(u, k)
    BY <1>0, <1>5
  <2>2. ASSUME k \div Byte \in 1..(k - 1) PROVE u[k \div Byte] = v[k \div Byte]
    <3>1. k \div Byte \in 1..top
      BY <1>0, <2>2
    <3> QED
      BY <3>1
  <2> HIDE DEF v
  <2> QED
    BY <1>1, <2>1, <2>2
<1>7. v = [k \in 1..top |-> F(v, k)]
  BY <1>6
<1> HIDE DEF v
<1>8. s = CHOOSE w : w = [k \in 1..top |-> F(w, k)]
  BY DEF Shifts, F, ShiftStep
<1> HIDE DEF s
<1>9. s = [k \in 1..top |-> F(s, k)]
  BY <1>7, <1>8
<1>10. \A k \in 1..top : s[k] = F(s, k)
  BY <1>9
<1> QED
  BY <1>10 DEF s, F

\* The body of Refill, and its domain.
FillStep(bytes, u, s) ==
  IF s[1] >= Q THEN s ELSE u[<<s[1] * Byte + Get(bytes, s[2]), s[2] + 1>>]

States == (1..(Byte * Q - 1)) \X Nat

\* What is read, past the end too, is a byte.
LEMMA ByteIs ==
  ASSUME Sizes, NEW bytes \in Seq(0..(Byte - 1)), NEW v \in Nat
  PROVE  Get(bytes, v) \in 0..(Byte - 1)
<1>1. Byte \in Nat /\ Byte >= 2
  BY SizesAre
<1>2. CASE v < Len(bytes)
  <2>1. v + 1 \in 1..Len(bytes)
    BY <1>2
  <2>2. bytes[v + 1] \in 0..(Byte - 1)
    BY <2>1, Element
  <2> QED
    BY <1>2, <2>2 DEF Get
<1>3. CASE ~(v < Len(bytes))
  BY <1>1, <1>3 DEF Get
<1> QED
  BY <1>2, <1>3

\* One more byte makes a state longer and does not make it too long.
LEMMA FillGrows ==
  ASSUME Sizes, NEW bytes \in Seq(0..(Byte - 1)), NEW x \in 1..(Q - 1), NEW v \in Nat
  PROVE  /\ <<x * Byte + Get(bytes, v), v + 1>> \in States
         /\ x * Byte + Get(bytes, v) \in (x + 1)..(Byte * Q - 1)
<1>1. Byte \in Nat /\ Byte >= 2 /\ Q \in Nat /\ Byte * Q \in Nat
  BY SizesAre
<1>2. Get(bytes, v) \in 0..(Byte - 1)
  BY ByteIs
<1>3. (x + 1) * Byte <= Q * Byte /\ (x + 1) * Byte = x * Byte + Byte /\ Q * Byte = Byte * Q
  BY <1>1, Product
<1>4. 2 * x <= Byte * x /\ Byte * x = x * Byte
  BY <1>1, Product
<1>5. x * Byte \in Int
  BY <1>1
<1>6. x * Byte + Get(bytes, v) \in (x + 1)..(Byte * Q - 1)
  <2>1. PICK y : y = x * Byte
    OBVIOUS
  <2>2. PICK g : g = Get(bytes, v)
    OBVIOUS
  <2>3. PICK top : top = Byte * Q
    OBVIOUS
  <2>4. /\ y \in Int /\ g \in 0..(Byte - 1) /\ top \in Nat /\ y + Byte <= top /\ 2 * x <= y
        /\ x \in Nat \ {0}
    BY <1>1, <1>2, <1>3, <1>4, <1>5, <2>1, <2>2, <2>3
  <2>5. y + g \in (x + 1)..(top - 1)
    BY <1>1, <2>4
  <2> QED
    BY <2>1, <2>2, <2>3, <2>5
<1>7. x * Byte + Get(bytes, v) \in 1..(Byte * Q - 1) /\ v + 1 \in Nat
  BY <1>1, <1>6
<1> QED
  BY <1>6, <1>7 DEF States

\* Refill is that function: a state that a byte enters is nearer to its range.
LEMMA RefillAt ==
  ASSUME Sizes, NEW bytes \in Seq(0..(Byte - 1))
  PROVE  \A s \in States : Refill(bytes)[s] = FillStep(bytes, Refill(bytes), s)
<1> DEFINE top == Byte * Q
           Next1(s) == <<s[1] * Byte + Get(bytes, s[2]), s[2] + 1>>
           F(u, s) == FillStep(bytes, u, s)
           Solves(u, m) == \A s \in States : s[1] >= top - m => u[s] = F(u, s)
           P == {m \in Nat : \E u : Solves(u, m)}
<1>0. top \in Nat /\ Q \in Nat
  BY SizesAre
<1>a. ASSUME NEW s \in States PROVE s[1] \in 1..(top - 1) /\ s[2] \in Nat
  BY DEF States
<1>b. ASSUME NEW s \in States, ~(s[1] >= Q)
      PROVE  Next1(s) \in States /\ Next1(s)[1] \in (s[1] + 1)..(top - 1)
  <2>1. s[1] \in 1..(Q - 1) /\ s[2] \in Nat
    BY <1>0, <1>a, <1>b
  <2> QED
    BY <2>1, FillGrows
<1>1. ASSUME NEW u, NEW v, NEW s \in States, ~(s[1] >= Q) => u[Next1(s)] = v[Next1(s)]
      PROVE  F(u, s) = F(v, s)
  BY <1>1 DEF FillStep
<1> HIDE DEF F, Next1
<1>2. 0 \in P
  <2>1. Solves(<<>>, 0)
    BY <1>0, <1>a
  <2> QED
    BY <2>1
<1>3. ASSUME NEW m \in 0..(top - 1), m \in P PROVE m + 1 \in P
  <2>1. PICK u : Solves(u, m)
    BY <1>3
  <2> DEFINE v == [s \in States |-> F(u, s)]
  <2>2. ASSUME NEW s \in States, s[1] >= top - (m + 1) PROVE v[s] = F(v, s)
    <3>1. v[s] = F(u, s)
      OBVIOUS
    <3>2. ASSUME ~(s[1] >= Q) PROVE u[Next1(s)] = v[Next1(s)]
      <4>1. PICK t : t = Next1(s)
        OBVIOUS
      <4>2. t \in States /\ t[1] >= top - m
        <5>1. t \in States /\ t[1] \in (s[1] + 1)..(top - 1) /\ s[1] \in Int
          BY <1>a, <1>b, <3>2, <4>1
        <5> QED
          BY <1>0, <2>2, <5>1
      <4>3. u[t] = F(u, t) /\ v[t] = F(u, t)
        BY <2>1, <4>2
      <4> QED
        BY <4>1, <4>3
    <3> HIDE DEF v
    <3> QED
      BY <1>1, <3>1, <3>2
  <2> HIDE DEF v
  <2>3. Solves(v, m + 1)
    BY <2>2
  <2>4. m + 1 \in Nat
    BY <1>0
  <2> HIDE DEF Solves
  <2> QED
    BY <2>3, <2>4
<1>4. top \in P
  <2> HIDE DEF P, top
  <2>1. \A k \in 0..top : k \in P
    BY <1>0, <1>2, <1>3, CountInduction
  <2> QED
    BY <1>0, <2>1
<1>5. PICK u : Solves(u, top)
  BY <1>4
<1> DEFINE v == [s \in States |-> u[s]]
           r == Refill(bytes)
<1>6. ASSUME NEW s \in States PROVE v[s] = F(v, s)
  <2>1. s[1] >= top - top
    BY <1>0, <1>a
  <2>2. v[s] = F(u, s)
    BY <1>5, <2>1
  <2>3. ASSUME ~(s[1] >= Q) PROVE u[Next1(s)] = v[Next1(s)]
    BY <1>b, <2>3
  <2> HIDE DEF v
  <2> QED
    BY <1>1, <2>2, <2>3
<1>7. v = [s \in States |-> F(v, s)]
  BY <1>6
<1> HIDE DEF v
<1>8. r = CHOOSE w : w = [s \in States |-> F(w, s)]
  BY DEF Refill, F, FillStep, States
<1> HIDE DEF r
<1>9. r = [s \in States |-> F(r, s)]
  BY <1>7, <1>8
<1>10. \A s \in States : r[s] = F(r, s)
  BY <1>9
<1> QED
  BY <1>10 DEF r, F


-----------------------------------------------------------------------------
(* One bit comes back.                                                     *)

\* What DecodeBit makes of a state and a prediction: the bit and what it was
\* pushed on.
BitOf(x, q) == (((x * q - 1) % Q) + q) \div Q
Undone(x, q, d) == LET xq == (x * q - 1) \div Q + 1 IN IF d = 1 THEN xq ELSE x - xq

\* The bytes from number p on, from 0, are those of s.
Written(bytes, p, s) == \A v \in 1..Len(s) : p + v <= Len(bytes) /\ bytes[p + v] = s[v]

\* The state w that a bit was pushed on after some shifts comes back when the
\* bytes that left it are read.
Returns(bytes, q, d, w) ==
  LET s == Shifts(q, d)[w]
      z == Undone(s.w, q, d)
  IN /\ s = [w |-> s.w, outs |-> s.outs] /\ s.w \in 1..(Byte * Q - 1) /\ s.outs \in Seq(0..(Byte - 1))
     /\ Push(w, q, d) >= Q => s.w >= Q
     /\ BitOf(s.w, q) = d /\ z \in 1..(Byte * Q - 1)
     /\ \A p \in Nat : Written(bytes, p, s.outs)
          => Refill(bytes)[<<z, p>>] = Refill(bytes)[<<w, p + Len(s.outs)>>]

\* The sequence with one more element is written where it is without it, and the
\* element behind.
LEMMA WrittenMore ==
  ASSUME NEW S, NEW s \in Seq(S), NEW e \in S, NEW bytes \in Seq(S), NEW p \in Nat,
         Written(bytes, p, Append(s, e))
  PROVE  /\ Written(bytes, p, s) /\ Get(bytes, p + Len(s)) = e
         /\ Len(Append(s, e)) = Len(s) + 1
<1>1. /\ Len(Append(s, e)) = Len(s) + 1 /\ Append(s, e)[Len(s) + 1] = e
      /\ \A v \in 1..Len(s) : Append(s, e)[v] = s[v]
  OBVIOUS
<1>2. Len(s) \in Nat /\ Len(bytes) \in Nat
  OBVIOUS
<1>3. Written(bytes, p, s)
  BY <1>1, <1>2 DEF Written
<1>4. p + (Len(s) + 1) <= Len(bytes) /\ bytes[p + (Len(s) + 1)] = e
  BY <1>1, <1>2 DEF Written
<1> QED
  BY <1>1, <1>2, <1>3, <1>4 DEF Get

\* Each bit of each prediction comes back, on every state it was pushed on.
LEMMA BitReturns ==
  ASSUME Sizes, NEW bytes \in Seq(0..(Byte - 1)), NEW q \in 1..(Q - 1), NEW d \in 0..1
  PROVE  \A w \in 1..(Byte * Q - 1) : Returns(bytes, q, d, w)
<1> DEFINE top == Byte * Q - 1
           P == {m \in Nat : \A w \in 1..m : w <= top => Returns(bytes, q, d, w)}
<1>0. /\ top \in Nat /\ Byte * Q \in Nat /\ Q \in Nat /\ Q >= 2 /\ Byte \in Nat /\ Byte >= 2
      /\ Q <= top
  <2>1. /\ Byte * Q \in Nat /\ Q \in Nat /\ Q >= 2 /\ Byte \in Nat /\ Byte >= 2 /\ 2 * Q <= Byte * Q
    BY SizesAre
  <2>2. PICK z : z = Byte * Q
    OBVIOUS
  <2>3. z - 1 \in Nat /\ Q <= z - 1
    BY <2>1, <2>2
  <2> QED
    BY <2>1, <2>2, <2>3
<1>a. (-1) \div Q = -1
  <2>1. -1 \in Int /\ 0 \in Int /\ Q \in Nat \ {0} /\ (-1) \div Q \in Int
    BY <1>0, Quotient
  <2>2. (-1) * Q <= -1 /\ ~(0 * Q <= -1)
    BY <2>1
  <2>3. -1 <= (-1) \div Q /\ ~(0 <= (-1) \div Q)
    BY <2>1, <2>2, QuotientAtLeast
  <2> QED
    BY <2>1, <2>3
<1>1. 0 \in P
  OBVIOUS
<1>2. ASSUME NEW m \in 0..(top - 1), m \in P PROVE m + 1 \in P
  <2> DEFINE w == m + 1
             s == Shifts(q, d)[w]
  <2>1. w \in 1..top
    BY <1>0
  <2> HIDE DEF w
  <2>2. s = ShiftStep(Shifts(q, d), w, q, d)
    BY <2>1, ShiftsAt
  <2>3. Push(w, q, d) \in Nat /\ BitOf(Push(w, q, d), q) = d /\ Undone(Push(w, q, d), q, d) = w
    BY <2>1, PushUndone DEF BitOf, Undone
  <2>4. CASE Push(w, q, d) < Byte * Q
    <3>1. s.w = Push(w, q, d) /\ s.outs = <<>> /\ s = [w |-> s.w, outs |-> s.outs]
      BY <2>2, <2>4 DEF ShiftStep
    <3>2. Push(w, q, d) # 0
      <4>1. CASE d = 1 /\ Push(w, q, d) = 0
        <5>1. 0 * q - 1 = -1 /\ (-1) \div Q = -1
          BY <1>a
        <5>2. Undone(0, q, 1) = 0
          BY <5>1 DEF Undone
        <5> QED
          BY <2>1, <2>3, <4>1, <5>2
      <4>2. CASE d = 0 /\ Push(w, q, d) = 0
        <5>1. 0 * q - 1 = -1 /\ (-1) \div Q = -1
          BY <1>a
        <5>2. Undone(0, q, 0) = 0
          BY <5>1 DEF Undone
        <5> QED
          BY <2>1, <2>3, <4>2, <5>2
      <4> QED
        BY <4>1, <4>2
    <3>3. s.w \in 1..top
      BY <1>0, <2>3, <2>4, <3>1, <3>2
    <3>4. \A p \in Nat : p + Len(<<>>) = p
      OBVIOUS
    <3>5. Returns(bytes, q, d, w)
      <4>1. s.outs \in Seq(0..(Byte - 1))
        BY <3>1
      <4> HIDE DEF s
      <4>2. Shifts(q, d)[w] = s
        BY DEF s
      <4> QED
        BY <2>1, <2>3, <3>1, <3>3, <3>4, <4>1, <4>2 DEF Returns
    <3> QED
      BY <1>2, <3>5 DEF w
  <2>5. CASE ~(Push(w, q, d) < Byte * Q)
    <3> DEFINE v == w \div Byte
               t == Shifts(q, d)[v]
    <3>1. v \in 1..(Q - 1) /\ v < w /\ Push(v, q, d) >= Q
      <4>1. Push(w, q, d) >= Byte * Q
        BY <1>0, <2>3, <2>5
      <4> QED
        BY <2>1, <4>1, ShiftFits
    <3>2. v \in 1..m /\ v <= top
      BY <1>0, <2>1, <3>1 DEF w
    <3>3. s = [t EXCEPT !.outs = Append(@, w % Byte)]
      BY <2>2, <2>5 DEF ShiftStep
    <3>4. w % Byte \in 0..(Byte - 1) /\ w = v * Byte + (w % Byte)
      BY <1>0, <2>1, Quotient
    <3> HIDE DEF v
    <3>5. Returns(bytes, q, d, v)
      BY <1>2, <3>2
    <3>6. /\ t = [w |-> t.w, outs |-> t.outs] /\ t.w \in 1..top /\ t.outs \in Seq(0..(Byte - 1))
          /\ t.w >= Q /\ BitOf(t.w, q) = d /\ Undone(t.w, q, d) \in 1..top
          /\ \A p \in Nat : Written(bytes, p, t.outs)
               => Refill(bytes)[<<Undone(t.w, q, d), p>>] = Refill(bytes)[<<v, p + Len(t.outs)>>]
      BY <3>1, <3>5 DEF Returns
    <3> HIDE DEF t
    <3>7. /\ s.w = t.w /\ s.outs = Append(t.outs, w % Byte) /\ s = [w |-> s.w, outs |-> s.outs]
      BY <3>3, <3>6
    <3>8. s.outs \in Seq(0..(Byte - 1))
      BY <3>4, <3>6, <3>7
    <3>9. ASSUME NEW p \in Nat, Written(bytes, p, s.outs)
          PROVE  Refill(bytes)[<<Undone(t.w, q, d), p>>] = Refill(bytes)[<<w, p + Len(s.outs)>>]
      <4>1. /\ Written(bytes, p, t.outs) /\ Get(bytes, p + Len(t.outs)) = w % Byte
            /\ Len(s.outs) = Len(t.outs) + 1
        <5>1. PICK S : S = 0..(Byte - 1)
          OBVIOUS
        <5>2. PICK e : e = w % Byte
          OBVIOUS
        <5>3. PICK u : u = t.outs
          OBVIOUS
        <5>4. u \in Seq(S) /\ e \in S /\ bytes \in Seq(S) /\ Written(bytes, p, Append(u, e))
          BY <3>4, <3>6, <3>7, <3>9, <5>1, <5>2, <5>3
        <5>5. /\ Written(bytes, p, u) /\ Get(bytes, p + Len(u)) = e
              /\ Len(Append(u, e)) = Len(u) + 1
          BY <5>4, WrittenMore
        <5> QED
          BY <3>7, <5>2, <5>3, <5>5
      <4>2. PICK a : a = p + Len(t.outs)
        OBVIOUS
      <4>3. a \in Nat /\ p + Len(s.outs) = a + 1
        <5>1. Len(t.outs) \in Nat
          BY <3>6
        <5> QED
          BY <4>1, <4>2, <5>1
      <4>4. <<v, a>> \in States /\ ~(v >= Q)
        BY <1>0, <3>1, <4>3 DEF States
      <4>5. Refill(bytes)[<<v, a>>] = Refill(bytes)[<<v * Byte + Get(bytes, a), a + 1>>]
        BY <4>4, RefillAt DEF FillStep
      <4>6. v * Byte + Get(bytes, a) = w
        BY <3>4, <4>1, <4>2
      <4> QED
        BY <3>6, <4>1, <4>2, <4>3, <4>5, <4>6
    <3>10. Returns(bytes, q, d, w)
      <4> HIDE DEF s
      <4>2. Shifts(q, d)[w] = s
        BY DEF s
      <4> QED
        BY <3>6, <3>7, <3>8, <3>9, <4>2 DEF Returns
    <3> QED
      BY <1>2, <3>10 DEF w
  <2> QED
    BY <2>4, <2>5
<1>3. top \in P
  <2> HIDE DEF P, top
  <2>1. \A k \in 0..top : k \in P
    BY <1>0, <1>1, <1>2, CountInduction
  <2> QED
    BY <1>0, <2>1
<1> QED
  BY <1>0, <1>3


-----------------------------------------------------------------------------
(* The model both sides keep.                                              *)

\* The states of the model, and the one it begins with.
Models == [t : [1..(2 * Byte - 1) -> 0..(Q * Unit - 1)], cxt : 1..(2 * Byte - 1)]

StartModel == [t |-> Counters, cxt |-> 1]

\* The model begins in one of its states.
LEMMA StartModelIs == ASSUME Sizes PROVE StartModel \in Models
<1>1. Byte \in Nat /\ Byte >= 2 /\ Q \in Nat /\ Q >= 2 /\ Unit \in Nat \ {0}
  BY SizesAre
<1>2. PICK top : top = Q * Unit
  OBVIOUS
<1>3. top \in Nat /\ top >= 2
  <2>1. 2 * Unit <= Q * Unit
    BY <1>1, Product
  <2> QED
    BY <1>1, <1>2, <2>1
<1>4. top \div 2 \in 0..(top - 1)
  BY <1>3
<1>5. Counters \in [1..(2 * Byte - 1) -> 0..(Q * Unit - 1)]
  BY <1>2, <1>4 DEF Counters
<1>6. 1 \in 1..(2 * Byte - 1)
  BY <1>1
<1> QED
  BY <1>5, <1>6 DEF StartModel, Models

\* A prediction is never 0 and never Q, so both bits can be coded.
LEMMA PredictionIs == ASSUME Sizes, NEW m \in Models PROVE Prediction(m) \in 1..(Q - 1)
<1>1. Q \in Nat /\ Q >= 2 /\ Unit \in Nat \ {0} /\ Q % 2 = 0
  BY SizesAre
<1>2. PICK t : t = m.t[m.cxt]
  OBVIOUS
<1>3. t \in 0..(Q * Unit - 1) /\ Q * Unit \in Nat
  <2>1. Q * Unit \in Nat
    BY <1>1
  <2>2. m.t \in [1..(2 * Byte - 1) -> 0..(Q * Unit - 1)] /\ m.cxt \in 1..(2 * Byte - 1)
    BY DEF Models
  <2>3. m.t[m.cxt] \in 0..(Q * Unit - 1)
    BY <2>2
  <2> QED
    BY <1>2, <2>1, <2>3
<1>4. PICK p : p = t \div Unit
  OBVIOUS
<1>5. p \in Int /\ p >= 0 /\ p < Q
  <2>1. 0 * Unit <= t /\ ~(Q * Unit <= t) /\ t \in Int /\ 0 \in Int /\ Q \in Int
    BY <1>1, <1>3
  <2>2. 0 <= p /\ ~(Q <= p) /\ p \in Int
    BY <1>1, <1>4, <2>1, Quotient, QuotientAtLeast
  <2> QED
    BY <1>1, <2>2
<1>6. (IF p < Q \div 2 THEN p + 1 ELSE p) \in 1..(Q - 1)
  BY <1>1, <1>5
<1> QED
  BY <1>2, <1>4, <1>6 DEF Prediction

\* It stays in them.
LEMMA LearnIs == ASSUME Sizes, NEW m \in Models, NEW y \in 0..1 PROVE Learn(m, y) \in Models
<1>1. /\ Byte \in Nat /\ Byte >= 2 /\ Q \in Nat /\ Q >= 2 /\ Unit \in Nat \ {0}
      /\ 2^FRate \in Nat \ {0, 1} /\ Q * Unit \in Nat
  BY SizesAre
<1>2. PICK R : R = 2^FRate
  OBVIOUS
<1>3. PICK top : top = Q * Unit
  OBVIOUS
<1>4. R \in Nat \ {0} /\ R >= 2 /\ top \in Nat
  BY <1>1, <1>2, <1>3
<1>5. ASSUME NEW t \in 0..(top - 1)
      PROVE  t + ((top - t) \div R) \in 0..(top - 1) /\ t - (t \div R) \in 0..(top - 1)
  <2>1. ASSUME NEW g \in Nat \ {0} PROVE g \div R \in 0..(g - 1)
    <3>1. 0 * R <= g /\ g \in Int /\ 0 \in Int
      BY <1>4
    <3>2. 2 * g <= R * g /\ R * g = g * R
      BY <1>4, Product
    <3>3. ~(g * R <= g)
      BY <1>4, <3>2
    <3>4. 0 <= g \div R /\ ~(g <= g \div R) /\ g \div R \in Int
      BY <1>4, <3>1, <3>3, Quotient, QuotientAtLeast
    <3> QED
      BY <3>4
  <2>2. top - t \in Nat \ {0}
    BY <1>4
  <2>3. (top - t) \div R \in 0..(top - t - 1)
    BY <2>1, <2>2
  <2>4. t # 0 => t \div R \in 0..(t - 1)
    <3>1. ASSUME t # 0 PROVE t \in Nat \ {0}
      BY <1>4, <3>1
    <3> QED
      BY <2>1, <3>1
  <2>5. t = 0 => t \div R = 0
    BY <1>4
  <2> QED
    BY <1>4, <2>3, <2>4, <2>5
<1>6. m.t \in [1..(2 * Byte - 1) -> 0..(top - 1)] /\ m.cxt \in 1..(2 * Byte - 1)
  BY <1>3 DEF Models
<1>7. PICK e : e = IF y = 1 THEN Up(m.t[m.cxt], Q * Unit, FRate) ELSE Down(m.t[m.cxt], FRate)
  OBVIOUS
<1>8. e \in 0..(top - 1)
  <2>1. m.t[m.cxt] \in 0..(top - 1)
    BY <1>6
  <2> QED
    BY <1>2, <1>3, <1>5, <1>7, <2>1 DEF Up, Down
<1>9. [m.t EXCEPT ![m.cxt] = e] \in [1..(2 * Byte - 1) -> 0..(top - 1)]
  BY <1>6, <1>8
<1>10. PICK c : c = IF 2 * m.cxt + y >= 2 * Byte THEN 1 ELSE 2 * m.cxt + y
  OBVIOUS
<1>11. c \in 1..(2 * Byte - 1)
  BY <1>1, <1>6, <1>10
<1>12. Learn(m, y) = [t |-> [m.t EXCEPT ![m.cxt] = e], cxt |-> c]
  BY <1>7, <1>10 DEF Learn
<1> QED
  BY <1>3, <1>9, <1>11, <1>12 DEF Models

-----------------------------------------------------------------------------
(* A block comes back.                                                     *)

\* What lies on the input stack.
Inputs1 == [q : 1..(Q - 1), d : 0..1]

\* The body of Pushed.
PushedStep(u, ins, k) ==
  IF k = 0 THEN [w |-> Q, outs |-> <<>>]
  ELSE LET top == ins[Len(ins) - k + 1]
           s   == Shifts(top.q, top.d)[u[k - 1].w]
       IN [w |-> s.w, outs |-> s.outs \o u[k - 1].outs]

\* Pushed is that function: it only looks at one pop less.
LEMMA PushedAt ==
  ASSUME NEW ins, Len(ins) \in Nat
  PROVE  \A k \in 0..Len(ins) : Pushed(ins)[k] = PushedStep(Pushed(ins), ins, k)
<1> DEFINE n == Len(ins)
           F(u, k) == PushedStep(u, ins, k)
           Solves(u, m) == \A k \in 0..m : u[k] = F(u, k)
           P == {m \in Nat : \E u : Solves(u, m)}
<1>0. n \in Nat
  OBVIOUS
<1>1. ASSUME NEW u, NEW v, NEW k \in Nat, k # 0 => u[k - 1] = v[k - 1] PROVE F(u, k) = F(v, k)
  BY <1>1 DEF PushedStep
<1> HIDE DEF F
<1>2. 0 \in P
  <2> DEFINE v == [k \in {0} |-> F(<<>>, 0)]
  <2>1. v[0] = F(v, 0)
    BY <1>1
  <2> HIDE DEF v
  <2>2. Solves(v, 0)
    BY <2>1
  <2> QED
    BY <2>2
<1>3. ASSUME NEW m \in 0..(n - 1), m \in P PROVE m + 1 \in P
  <2>1. PICK u : Solves(u, m)
    BY <1>3
  <2> DEFINE v == [k \in 0..(m + 1) |-> F(u, k)]
  <2>2. ASSUME NEW k \in 0..(m + 1) PROVE v[k] = F(v, k)
    <3>1. v[k] = F(u, k)
      OBVIOUS
    <3>2. k # 0 => k - 1 \in 0..m /\ k - 1 \in 0..(m + 1)
      OBVIOUS
    <3>3. k # 0 => v[k - 1] = u[k - 1]
      BY <2>1, <3>2
    <3> HIDE DEF v
    <3> QED
      BY <1>1, <3>1, <3>3
  <2> HIDE DEF v
  <2>3. Solves(v, m + 1)
    BY <2>2
  <2> HIDE DEF Solves
  <2> QED
    BY <2>3 DEF n
<1>4. n \in P
  <2> HIDE DEF P, n
  <2>1. \A k \in 0..n : k \in P
    BY <1>0, <1>2, <1>3, CountInduction
  <2> QED
    BY <1>0, <2>1
<1>5. PICK u : Solves(u, n)
  BY <1>4
<1> DEFINE v == [k \in 0..n |-> u[k]]
           s == Pushed(ins)
<1>6. ASSUME NEW k \in 0..n PROVE v[k] = F(v, k)
  <2>1. v[k] = F(u, k) /\ (k # 0 => v[k - 1] = u[k - 1])
    BY <1>0, <1>1, <1>5
  <2> HIDE DEF v
  <2> QED
    BY <1>0, <1>1, <2>1
<1>7. v = [k \in 0..n |-> F(v, k)]
  BY <1>6
<1> HIDE DEF v
<1>8. s = CHOOSE w : w = [k \in 0..n |-> F(w, k)]
  BY DEF Pushed, F, PushedStep
<1> HIDE DEF s
<1>9. s = [k \in 0..n |-> F(s, k)]
  BY <1>7, <1>8
<1>10. \A k \in 0..n : s[k] = F(s, k)
  BY <1>9
<1> QED
  BY <1>10 DEF s, F

\* After every pop the state is in its range.
LEMMA PushedIs ==
  ASSUME Sizes, NEW ins \in Seq(Inputs1)
  PROVE  \A k \in 0..Len(ins) : Pushed(ins)[k] \in [w : Q..(Byte * Q - 1), outs : Seq(0..(Byte - 1))]
<1> DEFINE Stacks == [w : Q..(Byte * Q - 1), outs : Seq(0..(Byte - 1))]
           P == {k \in Nat : Pushed(ins)[k] \in Stacks}
<1>0. /\ Byte * Q \in Nat /\ Q \in Nat /\ Q >= 2 /\ Byte \in Nat /\ Byte >= 2 /\ 2 * Q <= Byte * Q
      /\ Len(ins) \in Nat
  BY SizesAre
<1>1. 0 \in P
  <2>1. Pushed(ins)[0] = [w |-> Q, outs |-> <<>>]
    <3>1. 0 \in 0..Len(ins)
      BY <1>0
    <3>2. Pushed(ins)[0] = PushedStep(Pushed(ins), ins, 0)
      BY <1>0, <3>1, PushedAt
    <3> QED
      BY <3>2 DEF PushedStep
  <2>2. Q \in Q..(Byte * Q - 1) /\ <<>> \in Seq(0..(Byte - 1))
    BY <1>0
  <2>3. Pushed(ins)[0] \in Stacks
    BY <2>1, <2>2
  <2> QED
    BY <2>3
<1>2. ASSUME NEW m \in 0..(Len(ins) - 1), m \in P PROVE m + 1 \in P
  <2>1. m + 1 \in 0..Len(ins) /\ m + 1 # 0 /\ (m + 1) - 1 = m /\ m + 1 \in Nat
    BY <1>0
  <2>2. PICK top : top = ins[Len(ins) - (m + 1) + 1]
    OBVIOUS
  <2>3. top \in Inputs1
    <3>1. Len(ins) - (m + 1) + 1 \in 1..Len(ins)
      BY <1>0
    <3> QED
      BY <2>2, <3>1, Element
  <2>4. PICK p : p = Pushed(ins)[m]
    OBVIOUS
  <2>5. PICK s : s = Shifts(top.q, top.d)[p.w]
    OBVIOUS
  <2>6. Pushed(ins)[m + 1] = [w |-> s.w, outs |-> s.outs \o p.outs]
    BY <2>1, <2>2, <2>4, <2>5, <1>0, PushedAt DEF PushedStep
  <2>7. p \in Stacks
    BY <1>2, <2>4
  <2>8. /\ top.q \in 1..(Q - 1) /\ top.d \in 0..1 /\ p.w \in 1..(Byte * Q - 1)
        /\ p.w >= Q /\ p.outs \in Seq(0..(Byte - 1))
    BY <1>0, <2>3, <2>7 DEF Inputs1
  <2>9. Returns(<<>>, top.q, top.d, p.w)
    <3>1. <<>> \in Seq(0..(Byte - 1))
      OBVIOUS
    <3> QED
      BY <2>8, <3>1, BitReturns
  <2>10. Push(p.w, top.q, top.d) >= Q
    BY <2>8, PushUndone
  <2>11. s.w \in 1..(Byte * Q - 1) /\ s.w >= Q /\ s.outs \in Seq(0..(Byte - 1))
    BY <2>5, <2>9, <2>10 DEF Returns
  <2>12. s.w \in Q..(Byte * Q - 1) /\ s.outs \o p.outs \in Seq(0..(Byte - 1))
    BY <1>0, <2>8, <2>11
  <2>13. Pushed(ins)[m + 1] \in Stacks
    BY <2>6, <2>12
  <2> QED
    BY <2>1, <2>13
<1>3. \A k \in 0..Len(ins) : k \in P
  <2> HIDE DEF P
  <2> QED
    BY <1>0, <1>1, <1>2, CountInduction
<1> QED
  BY <1>3

\* What is written of two sequences in a row.
LEMMA WrittenBoth ==
  ASSUME NEW S, NEW s \in Seq(S), NEW t \in Seq(S), NEW bytes, NEW p \in Nat,
         Written(bytes, p, s \o t)
  PROVE  /\ Written(bytes, p, s) /\ Written(bytes, p + Len(s), t)
         /\ Len(s \o t) = Len(s) + Len(t) /\ p + Len(s) \in Nat
<1>1. /\ Len(s) \in Nat /\ Len(t) \in Nat /\ Len(s \o t) = Len(s) + Len(t)
      /\ \A v \in 1..Len(s) : (s \o t)[v] = s[v]
      /\ \A v \in 1..Len(t) : (s \o t)[Len(s) + v] = t[v]
  OBVIOUS
<1>2. Written(bytes, p, s)
  BY <1>1 DEF Written
<1>3. ASSUME NEW v \in 1..Len(t)
      PROVE  (p + Len(s)) + v <= Len(bytes) /\ bytes[(p + Len(s)) + v] = t[v]
  <2>1. Len(s) + v \in 1..Len(s \o t) /\ p + (Len(s) + v) = (p + Len(s)) + v
    BY <1>1
  <2> QED
    BY <1>1, <2>1 DEF Written
<1> QED
  BY <1>1, <1>2, <1>3 DEF Written

\* After k pops of ins, top the last of them, the state is x and the bytes from
\* number p on are those that left it: one bit is undone.
Undoes(bytes, ins, k, p, top, x) ==
  /\ bytes \in Seq(0..(Byte - 1)) /\ ins \in Seq(Inputs1) /\ k \in 1..Len(ins) /\ p \in Nat
  /\ Written(bytes, p, Pushed(ins)[k].outs)
  /\ top = ins[Len(ins) - k + 1] /\ x = Pushed(ins)[k].w

\* The bit is found, and the state and the bytes are those of one pop less.
IsUndone(bytes, ins, k, p, top, x) ==
  /\ BitOf(x, top.q) = top.d
  /\ \E r \in Nat : /\ Refill(bytes)[<<Undone(x, top.q, top.d), p>>] = <<Pushed(ins)[k - 1].w, r>>
                    /\ Written(bytes, r, Pushed(ins)[k - 1].outs)
                    /\ r + Len(Pushed(ins)[k - 1].outs) = p + Len(Pushed(ins)[k].outs)

\* The bit that was pushed last comes back first, and the state and the bytes
\* are those before it was pushed.
LEMMA PopReturns ==
  ASSUME Sizes, NEW bytes, NEW ins, NEW k, NEW p, NEW top, NEW x, Undoes(bytes, ins, k, p, top, x)
  PROVE  IsUndone(bytes, ins, k, p, top, x)
<1> SUFFICES ASSUME bytes \in Seq(0..(Byte - 1)), ins \in Seq(Inputs1), k \in 1..Len(ins), p \in Nat,
                    Written(bytes, p, Pushed(ins)[k].outs),
                    top = ins[Len(ins) - k + 1], x = Pushed(ins)[k].w
             PROVE  IsUndone(bytes, ins, k, p, top, x)
  BY DEF Undoes
<1> DEFINE z == Undone(x, top.q, top.d)
<1>0. /\ Byte * Q \in Nat /\ Q \in Nat /\ Q >= 2 /\ Len(ins) \in Nat
      /\ k \in 0..Len(ins) /\ k # 0 /\ k - 1 \in 0..Len(ins)
  <2>1. Byte * Q \in Nat /\ Q \in Nat /\ Q >= 2
    BY SizesAre
  <2>2. Len(ins) \in Nat
    OBVIOUS
  <2> QED
    BY <2>1, <2>2
<1>1. top \in Inputs1
  <2>1. Len(ins) - k + 1 \in 1..Len(ins)
    BY <1>0
  <2> QED
    BY <2>1, Element
<1>2. PICK b : b = Pushed(ins)[k - 1]
  OBVIOUS
<1>3. PICK s : s = Shifts(top.q, top.d)[b.w]
  OBVIOUS
<1>4. Pushed(ins)[k] = [w |-> s.w, outs |-> s.outs \o b.outs]
  BY <1>0, <1>2, <1>3, PushedAt DEF PushedStep
<1>5. b \in [w : Q..(Byte * Q - 1), outs : Seq(0..(Byte - 1))]
  BY <1>0, <1>2, PushedIs
<1>6. /\ top.q \in 1..(Q - 1) /\ top.d \in 0..1 /\ b.w \in 1..(Byte * Q - 1)
      /\ b.w >= Q /\ b.outs \in Seq(0..(Byte - 1))
  BY <1>0, <1>1, <1>5 DEF Inputs1
<1>7. Returns(bytes, top.q, top.d, b.w)
  BY <1>6, BitReturns
<1>8. /\ s.outs \in Seq(0..(Byte - 1)) /\ BitOf(s.w, top.q) = top.d
      /\ \A t \in Nat : Written(bytes, t, s.outs)
           => Refill(bytes)[<<Undone(s.w, top.q, top.d), t>>] = Refill(bytes)[<<b.w, t + Len(s.outs)>>]
  BY <1>3, <1>7 DEF Returns
<1>9. x = s.w /\ Pushed(ins)[k].outs = s.outs \o b.outs
  <2>1. PICK u : u = s.outs \o b.outs
    OBVIOUS
  <2>2. Pushed(ins)[k] = [w |-> s.w, outs |-> u]
    BY <1>4, <2>1
  <2>3. Pushed(ins)[k].w = s.w /\ Pushed(ins)[k].outs = u
    BY <2>2
  <2> QED
    BY <2>1, <2>3
<1>10. /\ Written(bytes, p, s.outs) /\ Written(bytes, p + Len(s.outs), b.outs)
       /\ Len(s.outs \o b.outs) = Len(s.outs) + Len(b.outs) /\ p + Len(s.outs) \in Nat
  <2>1. PICK S : S = 0..(Byte - 1)
    OBVIOUS
  <2>2. PICK u : u = s.outs
    OBVIOUS
  <2>3. PICK v : v = b.outs
    OBVIOUS
  <2>4. u \in Seq(S) /\ v \in Seq(S) /\ Written(bytes, p, u \o v)
    BY <1>6, <1>8, <1>9, <2>1, <2>2, <2>3
  <2>5. /\ Written(bytes, p, u) /\ Written(bytes, p + Len(u), v)
        /\ Len(u \o v) = Len(u) + Len(v) /\ p + Len(u) \in Nat
    BY <2>4, WrittenBoth
  <2> QED
    BY <2>2, <2>3, <2>5
<1>11. PICK r : r = p + Len(s.outs)
  OBVIOUS
<1>12. Refill(bytes)[<<z, p>>] = Refill(bytes)[<<b.w, r>>]
  BY <1>8, <1>9, <1>10, <1>11
<1>13. Refill(bytes)[<<b.w, r>>] = <<b.w, r>>
  <2>1. <<b.w, r>> \in States
    BY <1>6, <1>10, <1>11 DEF States
  <2> QED
    BY <1>6, <2>1, RefillAt DEF FillStep
<1>14. r + Len(b.outs) = p + Len(Pushed(ins)[k].outs)
  <2>1. Len(s.outs) \in Nat /\ Len(b.outs) \in Nat
    BY <1>6, <1>8
  <2>2. Len(Pushed(ins)[k].outs) = Len(s.outs) + Len(b.outs)
    BY <1>9, <1>10
  <2>3. PICK l : l = Len(Pushed(ins)[k].outs)
    OBVIOUS
  <2>4. PICK t : t = Len(s.outs)
    OBVIOUS
  <2>5. PICK j : j = Len(b.outs)
    OBVIOUS
  <2>6. r = p + t /\ l = t + j /\ t \in Nat /\ j \in Nat
    BY <1>11, <2>1, <2>2, <2>3, <2>4, <2>5
  <2>7. r + j = p + l
    BY <2>6
  <2> QED
    BY <2>3, <2>5, <2>7
<1> QED
  BY <1>2, <1>8, <1>9, <1>10, <1>11, <1>12, <1>13, <1>14 DEF IsUndone

\* A state is written in three digits.
LEMMA ThreeDigits ==
  ASSUME NEW b \in Nat, b >= 2, NEW w \in Nat, w < b * (b * b)
  PROVE  (((w \div (b * b)) % b) * b + ((w \div b) % b)) * b + (w % b) = w
<1> DEFINE c == b * b
           v == w \div b
           u == v \div b
<1>1. v \in Int /\ w % b \in 0..(b - 1) /\ w = v * b + (w % b)
  BY Quotient
<1>2. u \in Int /\ v % b \in 0..(b - 1) /\ v = u * b + (v % b)
  <2>1. v \in Int /\ b \in Nat \ {0}
    BY <1>1
  <2> HIDE DEF v
  <2> QED
    BY <2>1, Quotient
<1>3. c \in Nat \ {0}
  <2>1. 2 * b <= b * b
    BY Product
  <2> QED
    BY <2>1
<1> HIDE DEF u, v
<1>4. u * c = (u * b) * b /\ (u + 1) * c = (u * b + b) * b
  <2>1. u * (b * b) = (u * b) * b /\ (u + 1) * (b * b) = (u * b + b) * b
    BY <1>2
  <2> QED
    BY <2>1
<1> HIDE DEF c
<1>5. u * c <= w /\ w < (u + 1) * c
  <2>1. (u * b) * b <= v * b
    BY <1>1, <1>2, Product
  <2>2. (v + 1) * b <= (u * b + b) * b /\ (v + 1) * b = v * b + b
    BY <1>1, <1>2, Product
  <2>3. /\ (u * b) * b \in Int /\ v * b \in Int /\ (u * b + b) * b \in Int
    BY <1>1, <1>2
  <2> QED
    BY <1>1, <1>4, <2>1, <2>2, <2>3
<1>6. w \div c = u
  <2>1. w \in Int /\ c \in Nat \ {0} /\ u \in Int /\ u * c <= w /\ w < (u + 1) * c
    BY <1>2, <1>3, <1>5
  <2> QED
    BY <2>1, QuotientIs
<1>7. u \in 0..(b - 1)
  <2>1. ~(b * c <= w) /\ 0 * c <= w
    <3>1. w < b * c
      BY DEF c
    <3>2. b * c \in Int
      BY <1>3
    <3> QED
      BY <1>3, <3>1, <3>2
  <2>2. ~(b <= u) /\ 0 <= u
    BY <1>3, <1>6, <2>1, QuotientAtLeast
  <2> QED
    BY <1>2, <2>2
<1>8. u % b = u
  BY <1>7
<1>9. (u * b + (v % b)) * b + (w % b) = w
  BY <1>1, <1>2
<1> QED
  BY <1>6, <1>8, <1>9 DEF c, v

\* The bytes of a state, and of a block: the state that its last pop left and then
\* the bytes that the pops wrote.
HeadOf(w) == <<(w \div (Byte * Byte)) % Byte, (w \div Byte) % Byte, w % Byte>>
Block(ins) == HeadOf(Pushed(ins)[Len(ins)].w) \o Pushed(ins)[Len(ins)].outs

\* The three bytes are those of the state.
LEMMA HeadIs ==
  ASSUME Sizes, NEW w \in Q..(Byte * Q - 1)
  PROVE  /\ HeadOf(w) \in Seq(0..(Byte - 1)) /\ Len(HeadOf(w)) = 3
         /\ (HeadOf(w)[1] * Byte + HeadOf(w)[2]) * Byte + HeadOf(w)[3] = w
<1>1. /\ Byte \in Nat /\ Byte >= 2 /\ Q \in Nat /\ Byte * Q \in Nat /\ Q <= Byte * Byte /\ w \in Nat
      /\ Byte * Byte \in Nat \ {0}
  <2>1. Byte \in Nat /\ Byte >= 2 /\ Q \in Nat /\ Byte * Q \in Nat /\ Q <= Byte * Byte
    BY SizesAre
  <2>2. 2 * Byte <= Byte * Byte
    BY <2>1, Product
  <2> QED
    BY <2>1, <2>2
<1>2. w < Byte * (Byte * Byte)
  <2>1. Q * Byte <= (Byte * Byte) * Byte
    BY <1>1, Product
  <2>2. Q * Byte = Byte * Q /\ (Byte * Byte) * Byte = Byte * (Byte * Byte)
    BY <1>1
  <2>3. Byte * (Byte * Byte) \in Int
    BY <1>1
  <2> QED
    BY <1>1, <2>1, <2>2, <2>3
<1>3. /\ (w \div (Byte * Byte)) % Byte \in 0..(Byte - 1) /\ (w \div Byte) % Byte \in 0..(Byte - 1)
      /\ w % Byte \in 0..(Byte - 1)
  <2>1. w \div (Byte * Byte) \in Int /\ w \div Byte \in Int /\ Byte \in Nat \ {0}
    BY <1>1, Quotient
  <2> QED
    BY <1>1, <2>1, Quotient
<1>4. (((w \div (Byte * Byte)) % Byte) * Byte + ((w \div Byte) % Byte)) * Byte + (w % Byte) = w
  BY <1>1, <1>2, ThreeDigits
<1> QED
  BY <1>3, <1>4 DEF HeadOf

\* The states of the decoder.
DecStates == [x : Nat, n : Nat, pos : Nat, model : Models, bit : 0..1, sym : Int, error : BOOLEAN]

\* At the end of a block the decoder finds the state of the next one.
LEMMA HeaderReturns ==
  ASSUME Sizes, NEW bytes \in Seq(0..(Byte - 1)), NEW ins \in Seq(Inputs1),
         NEW d \in DecStates, d.x = Q, Written(bytes, d.pos, Block(ins))
  PROVE  LET last == Pushed(ins)[Len(ins)]
             h    == Header(d, bytes)
         IN /\ h \in DecStates /\ h.x = last.w /\ h.n = B /\ h.pos = d.pos + 3
            /\ h.error = FALSE /\ h.model = d.model
            /\ Written(bytes, d.pos + 3, last.outs) /\ Len(Block(ins)) = 3 + Len(last.outs)
<1> DEFINE last == Pushed(ins)[Len(ins)]
<1>1. PICK w : w = last.w
  OBVIOUS
<1>2. PICK u : u = last.outs
  OBVIOUS
<1>3. w \in Q..(Byte * Q - 1) /\ u \in Seq(0..(Byte - 1))
  <2>1. Len(ins) \in 0..Len(ins)
    OBVIOUS
  <2>2. last \in [w : Q..(Byte * Q - 1), outs : Seq(0..(Byte - 1))]
    BY <2>1, PushedIs
  <2> QED
    BY <1>1, <1>2, <2>2
<1>4. PICK h : h = HeadOf(w)
  OBVIOUS
<1>5. h \in Seq(0..(Byte - 1)) /\ Len(h) = 3 /\ (h[1] * Byte + h[2]) * Byte + h[3] = w
  BY <1>3, <1>4, HeadIs
<1>6. PICK p : p = d.pos
  OBVIOUS
<1>7. p \in Nat
  BY <1>6 DEF DecStates
<1>8. Written(bytes, p, h) /\ Written(bytes, p + 3, u) /\ Len(h \o u) = 3 + Len(u)
  <2>1. PICK S : S = 0..(Byte - 1)
    OBVIOUS
  <2>2. h \in Seq(S) /\ u \in Seq(S) /\ Written(bytes, p, h \o u)
    BY <1>1, <1>2, <1>3, <1>4, <1>5, <1>6, <2>1 DEF Block
  <2>3. /\ Written(bytes, p, h) /\ Written(bytes, p + Len(h), u) /\ Len(h \o u) = Len(h) + Len(u)
    BY <1>7, <2>2, WrittenBoth
  <2> QED
    BY <1>5, <2>3
<1>9. Get(bytes, p) = h[1] /\ Get(bytes, p + 1) = h[2] /\ Get(bytes, p + 2) = h[3]
  <2>1. Len(bytes) \in Nat
    OBVIOUS
  <2>2. ASSUME NEW v \in 1..3 PROVE p + v <= Len(bytes) /\ bytes[p + v] = h[v]
    BY <1>5, <1>8 DEF Written
  <2>3. ASSUME NEW v \in 1..3 PROVE Get(bytes, p + (v - 1)) = h[v]
    <3>1. p + (v - 1) < Len(bytes) /\ (p + (v - 1)) + 1 = p + v
      BY <1>7, <2>1, <2>2
    <3> QED
      BY <2>2, <3>1 DEF Get
  <2>4. Get(bytes, p + (1 - 1)) = h[1] /\ Get(bytes, p + (2 - 1)) = h[2]
        /\ Get(bytes, p + (3 - 1)) = h[3]
    BY <2>3
  <2> QED
    BY <1>7, <2>4
<1>10. (Get(bytes, d.pos) * Byte + Get(bytes, d.pos + 1)) * Byte + Get(bytes, d.pos + 2) = w
  BY <1>5, <1>6, <1>9
<1>11. PICK g : g = Header(d, bytes)
  OBVIOUS
<1>13. g = [d EXCEPT !.x = w, !.n = B, !.pos = @ + 3, !.error = FALSE]
  BY <1>3, <1>10, <1>11 DEF Header
<1>14. /\ g \in DecStates /\ g.x = w /\ g.n = B /\ g.pos = p + 3 /\ g.error = FALSE
       /\ g.model = d.model
  <2>1. B \in Nat /\ w \in Nat /\ p + 3 \in Nat
    BY <1>3, <1>7, SizesAre
  <2> QED
    BY <1>6, <1>13, <2>1 DEF DecStates
<1>12. Len(Block(ins)) = 3 + Len(u)
  BY <1>1, <1>2, <1>4, <1>8 DEF Block
<1> QED
  BY <1>1, <1>2, <1>6, <1>8, <1>11, <1>12, <1>14

\* What DecodeBit does where no error is found: one bit of the block is counted,
\* and the state after it is filled.
Counted(d, bytes) == IF d.n = 1 THEN Header(d, bytes) ELSE [d EXCEPT !.n = @ - 1]
Stepped(h, y, s) == [h EXCEPT !.bit = y, !.model = Learn(@, y), !.x = s[1], !.pos = s[2]]

\* From state d, h after counting, the bit found is y and the next state is e: x and
\* r are what reading bytes until x is in its range gives.
Steps(d, bytes, h, q, y, x, r, e) ==
  /\ d.error = FALSE /\ h = Counted(d, bytes) /\ h \in DecStates /\ h.error = FALSE
  /\ q = Prediction(h.model) /\ y \in 0..1 /\ BitOf(h.x, q) = y
  /\ x \in Nat /\ r \in Nat /\ Refill(bytes)[<<Undone(h.x, q, y), h.pos>>] = <<x, r>>
  /\ e = DecodeBit(d, bytes)

\* What e is then.
IsNext(h, y, x, r, e) ==
  /\ e \in DecStates /\ e.x = x /\ e.n = h.n /\ e.pos = r /\ e.model = Learn(h.model, y)
  /\ e.bit = y /\ e.error = FALSE

\* DecodeBit, where no error is found.
LEMMA StepReturns ==
  ASSUME Sizes, NEW d, NEW bytes, NEW h, NEW q, NEW y, NEW x, NEW r, NEW e,
         Steps(d, bytes, h, q, y, x, r, e)
  PROVE  IsNext(h, y, x, r, e)
<1> SUFFICES ASSUME d.error = FALSE, h = Counted(d, bytes), h \in DecStates, h.error = FALSE,
                    q = Prediction(h.model), y \in 0..1, BitOf(h.x, q) = y, x \in Nat, r \in Nat,
                    Refill(bytes)[<<Undone(h.x, q, y), h.pos>>] = <<x, r>>, e = DecodeBit(d, bytes)
             PROVE  IsNext(h, y, x, r, e)
  BY DEF Steps
<1>1. e = Stepped(h, y, <<x, r>>)
  <2>1. DecodeBit(d, bytes)
        = IF d.error \/ Counted(d, bytes).error THEN [Counted(d, bytes) EXCEPT !.error = TRUE]
          ELSE LET g == Counted(d, bytes)
                   z == BitOf(g.x, Prediction(g.model))
               IN Stepped(g, z, Refill(bytes)[<<Undone(g.x, Prediction(g.model), z), g.pos>>])
    BY DEF DecodeBit, Counted, Stepped, BitOf, Undone
  <2>2. e = Stepped(h, BitOf(h.x, q), Refill(bytes)[<<Undone(h.x, q, BitOf(h.x, q)), h.pos>>])
    BY <2>1
  <2> QED
    BY <2>2
<1>2. Learn(h.model, y) \in Models
  <2>1. h.model \in Models
    BY DEF DecStates
  <2> QED
    BY <2>1, LearnIs
<1>3. PICK m : m = Learn(h.model, y)
  OBVIOUS
<1>4. e = [h EXCEPT !.bit = y, !.model = m, !.x = x, !.pos = r]
  <2>1. <<x, r>>[1] = x /\ <<x, r>>[2] = r
    OBVIOUS
  <2> QED
    BY <1>1, <1>3, <2>1 DEF Stepped
<1>5. /\ e \in DecStates /\ e.x = x /\ e.n = h.n /\ e.pos = r /\ e.model = m
      /\ e.bit = y /\ e.error = FALSE
  BY <1>2, <1>3, <1>4 DEF DecStates
<1> QED
  BY <1>3, <1>5 DEF IsNext

-----------------------------------------------------------------------------
(* The encoder.                                                            *)

\* The states of the encoder.
EncStates == [ins : Seq(Inputs1), model : Models, out : Seq(0..(Byte - 1))]

\* A block is made of bytes.
LEMMA BlockIs ==
  ASSUME Sizes, NEW ins \in Seq(Inputs1) PROVE Block(ins) \in Seq(0..(Byte - 1))
<1>1. Len(ins) \in 0..Len(ins)
  OBVIOUS
<1>2. Pushed(ins)[Len(ins)] \in [w : Q..(Byte * Q - 1), outs : Seq(0..(Byte - 1))]
  BY <1>1, PushedIs
<1>3. PICK w : w = Pushed(ins)[Len(ins)].w
  OBVIOUS
<1>4. PICK u : u = Pushed(ins)[Len(ins)].outs
  OBVIOUS
<1>5. HeadOf(w) \in Seq(0..(Byte - 1)) /\ u \in Seq(0..(Byte - 1))
  BY <1>2, <1>3, <1>4, HeadIs
<1>6. HeadOf(w) \o u \in Seq(0..(Byte - 1))
  BY <1>5
<1> QED
  BY <1>3, <1>4, <1>6 DEF Block

\* eflush writes a block and leaves the stack empty and the model alone.
LEMMA FlushIs ==
  ASSUME Sizes, NEW e \in EncStates, NEW f, f = eflush(e)
  PROVE  f \in EncStates /\ f.ins = <<>> /\ f.model = e.model /\ f.out = e.out \o Block(e.ins)
<1>1. PICK b : b = Block(e.ins)
  OBVIOUS
<1>2. f = [e EXCEPT !.ins = <<>>, !.out = @ \o b]
  BY <1>1 DEF eflush, Block, HeadOf
<1>3. PICK o : o = e.out \o b
  OBVIOUS
<1>4. o \in Seq(0..(Byte - 1)) /\ <<>> \in Seq(Inputs1)
  <2>1. e.ins \in Seq(Inputs1) /\ e.out \in Seq(0..(Byte - 1))
    BY DEF EncStates
  <2>2. b \in Seq(0..(Byte - 1))
    BY <1>1, <2>1, BlockIs
  <2> QED
    BY <1>3, <2>1, <2>2
<1>5. f = [e EXCEPT !.ins = <<>>, !.out = o]
  BY <1>2, <1>3
<1>6. f \in EncStates /\ f.ins = <<>> /\ f.model = e.model /\ f.out = o
  BY <1>4, <1>5 DEF EncStates
<1> QED
  BY <1>1, <1>3, <1>6

\* The encoder takes a bit in state e: v goes on the stack and g is the next state.
Encodes(e, y, v, g) ==
  /\ e \in EncStates /\ y \in 0..1 /\ Len(e.ins) <= B
  /\ v = [q |-> Prediction(e.model), d |-> y] /\ g = EncodeBit(e, y)

\* What g is then.
IsEncoded(e, y, v, g) ==
  /\ g \in EncStates /\ g.model = Learn(e.model, y) /\ v \in Inputs1
  /\ Len(e.ins) = B => g.ins = Append(<<>>, v) /\ g.out = e.out \o Block(e.ins)
  /\ Len(e.ins) # B => g.ins = Append(e.ins, v) /\ g.out = e.out

\* A full stack is coded before the next bit is put on it.
LEMMA EncodeIs ==
  ASSUME Sizes, NEW e, NEW y, NEW v, NEW g, Encodes(e, y, v, g)
  PROVE  IsEncoded(e, y, v, g)
<1>0. e \in EncStates /\ y \in 0..1 /\ Len(e.ins) <= B /\ g = EncodeBit(e, y)
      /\ v = [q |-> Prediction(e.model), d |-> y]
  BY DEF Encodes
<1>1. e.ins \in Seq(Inputs1) /\ e.model \in Models /\ e.out \in Seq(0..(Byte - 1))
  BY <1>0 DEF EncStates
<1>2. B \in Nat /\ Len(e.ins) \in Nat
  BY <1>1, SizesAre
<1>3. PICK f : f = IF Len(e.ins) >= B THEN eflush(e) ELSE e
  OBVIOUS
<1>4. /\ f \in EncStates /\ f.model = e.model
      /\ Len(e.ins) = B => f.ins = <<>> /\ f.out = e.out \o Block(e.ins)
      /\ Len(e.ins) # B => f.ins = e.ins /\ f.out = e.out
  <2>1. CASE Len(e.ins) = B
    <3>1. f = eflush(e)
      BY <1>2, <1>3, <2>1
    <3> QED
      BY <1>0, <2>1, <3>1, FlushIs
  <2>2. CASE Len(e.ins) # B
    <3>1. ~(Len(e.ins) >= B)
      BY <1>0, <1>2, <2>2
    <3>2. f = e
      BY <1>3, <3>1
    <3> QED
      BY <1>0, <2>2, <3>2
  <2> QED
    BY <2>1, <2>2
<1>5. g = [f EXCEPT !.ins = Append(@, [q |-> Prediction(f.model), d |-> y]),
                    !.model = Learn(@, y)]
  BY <1>0, <1>3 DEF EncodeBit
<1>6. v \in Inputs1 /\ Learn(e.model, y) \in Models
  BY <1>0, <1>1, PredictionIs, LearnIs DEF Inputs1
<1>7. PICK a : a = Append(f.ins, v)
  OBVIOUS
<1>8. PICK m : m = Learn(e.model, y)
  OBVIOUS
<1>9. g = [f EXCEPT !.ins = a, !.model = m]
  BY <1>0, <1>4, <1>5, <1>7, <1>8
<1>10. a \in Seq(Inputs1)
  <2>1. f.ins \in Seq(Inputs1)
    BY <1>4 DEF EncStates
  <2> QED
    BY <1>6, <1>7, <2>1
<1>11. g \in EncStates /\ g.ins = a /\ g.model = m /\ g.out = f.out
  BY <1>4, <1>6, <1>8, <1>9, <1>10 DEF EncStates
<1> QED
  BY <1>4, <1>6, <1>7, <1>8, <1>11 DEF IsEncoded


\* n bits are coded one after the other, and decoded.
EncodesAll(n, bit, enc) == enc[0] = Start /\ \A k \in 1..n : enc[k] = EncodeBit(enc[k - 1], bit[k])
DecodesAll(n, bytes, dec) ==
  dec[0] = StartDecode(bytes) /\ \A k \in 1..n : dec[k] = DecodeBit(dec[k - 1], bytes)

\* After k bits: what is on the stack are the last bits, each with what the
\* model predicted before it.
EncoderAt(k, bit, enc) ==
  LET e == enc[k]
      l == Len(e.ins)
  IN /\ e \in EncStates /\ l \in 0..B /\ l <= k /\ (k # 0 => l # 0)
     /\ \A v \in 1..l : /\ e.ins[v].q = Prediction(enc[(k - l) + v - 1].model)
                        /\ e.ins[v].d = bit[(k - l) + v]

\* The encoder begins in one of its states, with nothing on the stack.
LEMMA StartIs == ASSUME Sizes PROVE Start \in EncStates /\ Start.ins = <<>> /\ Start.out = <<>>
                                    /\ Start.model = StartModel
<1>1. Start = [ins |-> <<>>, model |-> StartModel, out |-> <<>>]
  BY DEF Start, StartModel
<1>2. StartModel \in Models
  BY StartModelIs
<1> QED
  BY <1>1, <1>2 DEF EncStates

\* So it is after every bit.
LEMMA EncoderIs ==
  ASSUME Sizes, NEW n \in Nat, NEW bit \in [1..n -> 0..1], NEW enc, EncodesAll(n, bit, enc)
  PROVE  \A k \in 0..n : EncoderAt(k, bit, enc)
<1> DEFINE P == {k \in Nat : EncoderAt(k, bit, enc)}
<1>0. B \in Nat \ {0}
  BY SizesAre
<1>1. 0 \in P
  <2>1. enc[0] \in EncStates /\ enc[0].ins = <<>>
    BY StartIs DEF EncodesAll
  <2>2. Len(enc[0].ins) = 0
    BY <2>1
  <2>3. EncoderAt(0, bit, enc)
    BY <1>0, <2>1, <2>2 DEF EncoderAt
  <2> QED
    BY <2>3
<1>2. ASSUME NEW m \in 0..(n - 1), m \in P PROVE m + 1 \in P
  <2>1. EncoderAt(m, bit, enc)
    BY <1>2
  <2>2. PICK e : e = enc[m]
    OBVIOUS
  <2>3. PICK g : g = enc[m + 1]
    OBVIOUS
  <2>4. PICK y : y = bit[m + 1]
    OBVIOUS
  <2>5. m + 1 \in 1..n /\ (m + 1) - 1 = m /\ m + 1 \in Nat
    OBVIOUS
  <2>6. g = EncodeBit(e, y) /\ y \in 0..1
    BY <2>2, <2>3, <2>4, <2>5 DEF EncodesAll
  <2>7. /\ e \in EncStates /\ Len(e.ins) \in 0..B /\ Len(e.ins) <= m
        /\ \A v \in 1..Len(e.ins) : /\ e.ins[v].q = Prediction(enc[(m - Len(e.ins)) + v - 1].model)
                                    /\ e.ins[v].d = bit[(m - Len(e.ins)) + v]
    BY <2>1, <2>2 DEF EncoderAt
  <2>8. PICK j : j = [q |-> Prediction(e.model), d |-> y]
    OBVIOUS
  <2>9. Len(e.ins) <= B
    BY <1>0, <2>7
  <2>10. /\ g \in EncStates /\ j \in Inputs1
         /\ Len(e.ins) = B => g.ins = Append(<<>>, j)
         /\ Len(e.ins) # B => g.ins = Append(e.ins, j)
    <3>1. e \in EncStates /\ y \in 0..1
      BY <2>6, <2>7
    <3>2. Encodes(e, y, j, g)
      BY <2>6, <2>8, <2>9, <3>1 DEF Encodes
    <3>3. IsEncoded(e, y, j, g)
      BY <3>2, EncodeIs
    <3> QED
      BY <3>3 DEF IsEncoded
  <2>11. j.q = Prediction(enc[m].model) /\ j.d = bit[m + 1]
    BY <2>2, <2>4, <2>8
  <2>12. PICK l : l = Len(g.ins)
    OBVIOUS
  <2>13. /\ l \in 1..B /\ l <= m + 1
         /\ \A v \in 1..l : /\ g.ins[v].q = Prediction(enc[((m + 1) - l) + v - 1].model)
                            /\ g.ins[v].d = bit[((m + 1) - l) + v]
    <3>1. CASE Len(e.ins) = B
      <4>1. l = 1 /\ g.ins[1] = j
        <5>1. Len(Append(<<>>, j)) = 1 /\ Append(<<>>, j)[1] = j
          OBVIOUS
        <5>2. g.ins = Append(<<>>, j)
          BY <2>10, <3>1
        <5> QED
          BY <2>12, <5>1, <5>2
      <4>2. ((m + 1) - 1) + 1 - 1 = m /\ ((m + 1) - 1) + 1 = m + 1
        OBVIOUS
      <4> QED
        BY <1>0, <2>11, <4>1, <4>2
    <3>2. CASE Len(e.ins) # B
      <4>1. e.ins \in Seq(Inputs1)
        BY <2>7 DEF EncStates
      <4>2. PICK c : c = Len(e.ins)
        OBVIOUS
      <4>3. /\ c \in Nat /\ l = c + 1 /\ g.ins[c + 1] = j
            /\ \A v \in 1..c : g.ins[v] = e.ins[v]
        BY <2>10, <2>12, <3>2, <4>1, <4>2
      <4>4. l \in 1..B /\ l <= m + 1 /\ (m + 1) - l = m - c
        BY <1>0, <2>7, <3>2, <4>2, <4>3
      <4>5. ASSUME NEW v \in 1..l
            PROVE  /\ g.ins[v].q = Prediction(enc[((m + 1) - l) + v - 1].model)
                   /\ g.ins[v].d = bit[((m + 1) - l) + v]
        <5>1. CASE v \in 1..c
          BY <2>7, <4>2, <4>3, <4>4, <5>1
        <5>2. CASE v = c + 1
          <6>1. (m - c) + (c + 1) - 1 = m /\ (m - c) + (c + 1) = m + 1
            BY <4>3
          <6> QED
            BY <2>11, <4>3, <4>4, <5>2, <6>1
        <5> QED
          BY <4>3, <5>1, <5>2
      <4> QED
        BY <4>4, <4>5
    <3> QED
      BY <3>1, <3>2
  <2>14. EncoderAt(m + 1, bit, enc)
    <3>1. g \in EncStates /\ l \in 0..B /\ l # 0 /\ l <= m + 1
      BY <1>0, <2>10, <2>13
    <3> QED
      BY <2>3, <2>12, <2>13, <3>1 DEF EncoderAt
  <2> QED
    BY <2>5, <2>14
<1>3. \A k \in 0..n : k \in P
  <2> HIDE DEF P
  <2> QED
    BY <1>1, <1>2, CountInduction
<1> QED
  BY <1>3

\* The encoder goes from e to g with its bit number k, y.
Takes(e, g, y, k) ==
  /\ e \in EncStates /\ g \in EncStates /\ g.model = Learn(e.model, y) /\ y \in 0..1
  /\ Len(e.ins) \in 0..B /\ Len(g.ins) \in 1..B /\ Len(e.ins) <= k - 1
  /\ Len(e.ins) = B => Len(g.ins) = 1 /\ g.out = e.out \o Block(e.ins)
  /\ Len(e.ins) # B => Len(g.ins) = Len(e.ins) + 1 /\ g.out = e.out

\* One bit more: the model has learned it, and either it lies on the stack above
\* the others or the others have been written and it lies there alone.
LEMMA EncoderSteps ==
  ASSUME Sizes, NEW n \in Nat, NEW bit \in [1..n -> 0..1], NEW enc, EncodesAll(n, bit, enc)
  PROVE  \A k \in 1..n : Takes(enc[k - 1], enc[k], bit[k], k)
<1> SUFFICES ASSUME NEW k \in 1..n PROVE Takes(enc[k - 1], enc[k], bit[k], k)
  OBVIOUS
<1>e. PICK e : e = enc[k - 1]
  OBVIOUS
<1>g. PICK g : g = enc[k]
  OBVIOUS
<1>0. B \in Nat \ {0} /\ k - 1 \in 0..n /\ k \in 0..n /\ k # 0
  BY SizesAre
<1>1. EncoderAt(k - 1, bit, enc) /\ EncoderAt(k, bit, enc)
  BY <1>0, EncoderIs
<1>2. PICK y : y = bit[k]
  OBVIOUS
<1>3. g = EncodeBit(e, y) /\ y \in 0..1
  BY <1>2, <1>e, <1>g DEF EncodesAll
<1>4. e \in EncStates /\ Len(e.ins) \in 0..B /\ Len(e.ins) <= k - 1 /\ Len(g.ins) \in 0..B /\ Len(g.ins) # 0
  BY <1>0, <1>1, <1>e, <1>g DEF EncoderAt
<1>5. PICK j : j = [q |-> Prediction(e.model), d |-> y]
  OBVIOUS
<1>6. Len(e.ins) <= B
  BY <1>0, <1>4
<1>7. /\ g \in EncStates /\ g.model = Learn(e.model, y)
      /\ Len(e.ins) = B => g.ins = Append(<<>>, j) /\ g.out = e.out \o Block(e.ins)
      /\ Len(e.ins) # B => g.ins = Append(e.ins, j) /\ g.out = e.out
  <2>1. e \in EncStates /\ y \in 0..1
    BY <1>3, <1>4
  <2>2. Encodes(e, y, j, g)
    BY <1>3, <1>5, <1>6, <2>1 DEF Encodes
  <2>3. IsEncoded(e, y, j, g)
    BY <2>2, EncodeIs
  <2> QED
    BY <2>3 DEF IsEncoded
<1>8. e.ins \in Seq(Inputs1)
  BY <1>4 DEF EncStates
<1>9. Len(Append(<<>>, j)) = 1 /\ Len(Append(e.ins, j)) = Len(e.ins) + 1
  BY <1>8
<1>10. Len(g.ins) \in 1..B
  BY <1>0, <1>4
<1> QED
  BY <1>e, <1>g, <1>2, <1>3, <1>4, <1>7, <1>9, <1>10 DEF Takes

-----------------------------------------------------------------------------
(* One bit of the decoder.                                                 *)

\* The decoder is in state h, and j bits of the block that the encoder closes in
\* state e are still to come: c is the decoder's count and m its model.
Popped(h, bytes, e, j, c, m) ==
  LET s == Pushed(e.ins)[j]
  IN /\ h \in DecStates /\ h.error = FALSE /\ h.x = s.w /\ h.n = c /\ h.model = m
     /\ Written(bytes, h.pos, s.outs)
     /\ h.pos + Len(s.outs) = Len(e.out \o Block(e.ins))

\* The next bit of the block is top, and the decoder d has counted it.
Pops(bytes, e, j, c, m, d, top) ==
  /\ bytes \in Seq(0..(Byte - 1)) /\ e \in EncStates /\ j \in 1..Len(e.ins)
  /\ d.error = FALSE /\ Popped(Counted(d, bytes), bytes, e, j, c, m)
  /\ top = e.ins[Len(e.ins) - j + 1] /\ top.q = Prediction(m)

\* The decoder finds it.
PopsTo(bytes, e, j, c, m, d, top) ==
  LET g == DecodeBit(d, bytes)
  IN Popped(g, bytes, e, j - 1, c, Learn(m, top.d)) /\ g.bit = top.d

\* A bit comes back.
LEMMA PopStep ==
  ASSUME Sizes, NEW bytes, NEW e, NEW j, NEW c, NEW m, NEW d, NEW top, Pops(bytes, e, j, c, m, d, top)
  PROVE  PopsTo(bytes, e, j, c, m, d, top)
<1> SUFFICES ASSUME bytes \in Seq(0..(Byte - 1)), e \in EncStates, j \in 1..Len(e.ins),
                    d.error = FALSE, Popped(Counted(d, bytes), bytes, e, j, c, m),
                    top = e.ins[Len(e.ins) - j + 1], top.q = Prediction(m)
             PROVE  PopsTo(bytes, e, j, c, m, d, top)
  BY DEF Pops
<1>1. PICK ins : ins = e.ins
  OBVIOUS
<1>2. ins \in Seq(Inputs1) /\ j \in 1..Len(ins) /\ Len(ins) \in Nat /\ top = ins[Len(ins) - j + 1]
  BY <1>1 DEF EncStates
<1>3. PICK h : h = Counted(d, bytes)
  OBVIOUS
<1>4. PICK u : u = Pushed(ins)[j]
  OBVIOUS
<1>5. PICK v : v = Pushed(ins)[j - 1]
  OBVIOUS
<1>6. /\ h \in DecStates /\ h.error = FALSE /\ h.x = u.w /\ h.n = c /\ h.model = m
      /\ Written(bytes, h.pos, u.outs) /\ h.pos + Len(u.outs) = Len(e.out \o Block(e.ins))
  BY <1>1, <1>3, <1>4 DEF Popped
<1>7. PICK p : p = h.pos
  OBVIOUS
<1>8. p \in Nat
  BY <1>6, <1>7 DEF DecStates
<1>9. PICK x : x = u.w
  OBVIOUS
<1>10. PICK z : z = Undone(x, top.q, top.d)
  OBVIOUS
<1>11. Written(bytes, p, Pushed(ins)[j].outs) /\ x = Pushed(ins)[j].w
  BY <1>4, <1>6, <1>7, <1>9
<1>12. /\ BitOf(x, top.q) = top.d
       /\ \E r \in Nat : /\ Refill(bytes)[<<z, p>>] = <<Pushed(ins)[j - 1].w, r>>
                         /\ Written(bytes, r, Pushed(ins)[j - 1].outs)
                         /\ r + Len(Pushed(ins)[j - 1].outs) = p + Len(Pushed(ins)[j].outs)
  <2>1. Undoes(bytes, ins, j, p, top, x)
    BY <1>2, <1>8, <1>11 DEF Undoes
  <2>2. IsUndone(bytes, ins, j, p, top, x)
    BY <2>1, PopReturns
  <2> QED
    BY <1>10, <2>2 DEF IsUndone
<1>13. PICK r \in Nat : /\ Refill(bytes)[<<z, p>>] = <<v.w, r>> /\ Written(bytes, r, v.outs)
                        /\ r + Len(v.outs) = p + Len(u.outs)
  BY <1>4, <1>5, <1>12
<1>14. top \in Inputs1
  <2>1. Len(ins) - j + 1 \in 1..Len(ins)
    BY <1>2
  <2> QED
    BY <1>2, <2>1, Element
<1>15. PICK y : y = top.d
  OBVIOUS
<1>16. PICK q : q = top.q
  OBVIOUS
<1>17. PICK w : w = v.w
  OBVIOUS
<1>18. PICK g : g = DecodeBit(d, bytes)
  OBVIOUS
<1>19. w \in Nat /\ y \in 0..1
  <2>1. j - 1 \in 0..Len(ins)
    BY <1>2
  <2>2. v \in [w : Q..(Byte * Q - 1), outs : Seq(0..(Byte - 1))]
    BY <1>2, <1>5, <2>1, PushedIs
  <2>3. Q \in Nat
    BY SizesAre
  <2> QED
    BY <1>14, <1>15, <1>17, <2>2, <2>3 DEF Inputs1
<1>20. /\ g \in DecStates /\ g.x = w /\ g.n = h.n /\ g.pos = r /\ g.model = Learn(h.model, y)
       /\ g.bit = y /\ g.error = FALSE
  <2>1. q = Prediction(h.model) /\ BitOf(h.x, q) = y
    BY <1>6, <1>9, <1>12, <1>15, <1>16
  <2>2. Refill(bytes)[<<Undone(h.x, q, y), h.pos>>] = <<w, r>>
    BY <1>6, <1>7, <1>9, <1>10, <1>13, <1>15, <1>16, <1>17
  <2>3. Steps(d, bytes, h, q, y, w, r, g)
    BY <1>3, <1>6, <1>13, <1>18, <1>19, <2>1, <2>2 DEF Steps
  <2>4. IsNext(h, y, w, r, g)
    BY <2>3, StepReturns
  <2> QED
    BY <2>4 DEF IsNext
<1>21. Popped(g, bytes, e, j - 1, c, Learn(m, y))
  <2>1. g.pos + Len(v.outs) = Len(e.out \o Block(e.ins))
    BY <1>6, <1>7, <1>13, <1>20
  <2> QED
    BY <1>1, <1>5, <1>6, <1>13, <1>17, <1>20, <2>1 DEF Popped
<1> QED
  BY <1>15, <1>18, <1>20, <1>21 DEF PopsTo

\* Inside a block a bit is only counted.
LEMMA CountDown ==
  ASSUME NEW bytes, NEW e, NEW j, NEW c \in Nat, c > 1, NEW m, NEW d, Popped(d, bytes, e, j, c, m)
  PROVE  Popped(Counted(d, bytes), bytes, e, j, c - 1, m)
<1>1. PICK h : h = Counted(d, bytes)
  OBVIOUS
<1>2. d \in DecStates /\ d.error = FALSE /\ d.n = c
  BY DEF Popped
<1>3. h = [d EXCEPT !.n = c - 1]
  BY <1>1, <1>2 DEF Counted
<1>4. /\ h \in DecStates /\ h.n = c - 1 /\ h.x = d.x /\ h.pos = d.pos /\ h.model = d.model
      /\ h.error = d.error
  BY <1>2, <1>3 DEF DecStates
<1> QED
  BY <1>1, <1>4 DEF Popped

\* Where one block ends the next one is read.
LEMMA NewBlock ==
  ASSUME Sizes, NEW bytes \in Seq(0..(Byte - 1)), NEW e \in EncStates, NEW m, NEW d \in DecStates,
         d.error = FALSE, d.x = Q, d.n = 1, d.model = m, d.pos = Len(e.out),
         Written(bytes, Len(e.out), Block(e.ins))
  PROVE  Popped(Counted(d, bytes), bytes, e, Len(e.ins), B, m)
<1>1. PICK ins : ins = e.ins
  OBVIOUS
<1>2. ins \in Seq(Inputs1) /\ e.out \in Seq(0..(Byte - 1)) /\ Written(bytes, d.pos, Block(ins))
  BY <1>1 DEF EncStates
<1>3. PICK h : h = Header(d, bytes)
  OBVIOUS
<1>4. PICK u : u = Pushed(ins)[Len(ins)]
  OBVIOUS
<1>5. /\ h \in DecStates /\ h.x = u.w /\ h.n = B /\ h.pos = d.pos + 3 /\ h.error = FALSE
      /\ h.model = d.model /\ Written(bytes, d.pos + 3, u.outs) /\ Len(Block(ins)) = 3 + Len(u.outs)
  BY <1>2, <1>3, <1>4, HeaderReturns
<1>6. h = Counted(d, bytes)
  BY <1>3 DEF Counted
<1>7. h.pos + Len(u.outs) = Len(e.out \o Block(ins))
  <2>1. PICK b : b = Block(ins)
    OBVIOUS
  <2>2. b \in Seq(0..(Byte - 1))
    BY <1>2, <2>1, BlockIs
  <2>3. Len(e.out \o b) = Len(e.out) + Len(b)
    BY <1>2, <2>2
  <2>4. u.outs \in Seq(0..(Byte - 1))
    <3>1. Len(ins) \in 0..Len(ins)
      BY <1>2
    <3>2. u \in [w : Q..(Byte * Q - 1), outs : Seq(0..(Byte - 1))]
      BY <1>2, <1>4, <3>1, PushedIs
    <3> QED
      BY <3>2
  <2>5. PICK v : v = Len(u.outs)
    OBVIOUS
  <2>6. PICK l : l = Len(e.out)
    OBVIOUS
  <2>7. v \in Nat /\ l \in Nat
    BY <1>2, <2>4, <2>5, <2>6
  <2>8. h.pos = l + 3 /\ Len(b) = 3 + v
    BY <1>5, <2>1, <2>5, <2>6
  <2>9. h.pos + v = l + Len(b)
    BY <2>7, <2>8
  <2> QED
    BY <2>1, <2>3, <2>5, <2>6, <2>9
<1> QED
  BY <1>1, <1>4, <1>5, <1>6, <1>7 DEF Popped

\* The decoder is where the encoder began the block and has read all of it.
AllRead(d, e) == d.x = Q /\ d.pos = Len(e.out \o Block(e.ins))

\* At the end of a block the decoder is where the encoder began, and has read all
\* of it.
LEMMA AllPopped ==
  ASSUME Sizes, NEW bytes, NEW e \in EncStates, NEW c, NEW m, NEW d, Popped(d, bytes, e, 0, c, m)
  PROVE  AllRead(d, e)
<1>1. e.ins \in Seq(Inputs1)
  BY DEF EncStates
<1>2. Len(e.ins) \in Nat
  BY <1>1
<1>3. Pushed(e.ins)[0] = [w |-> Q, outs |-> <<>>]
  <2>1. 0 \in 0..Len(e.ins)
    BY <1>2
  <2>2. Pushed(e.ins)[0] = PushedStep(Pushed(e.ins), e.ins, 0)
    BY <1>2, <2>1, PushedAt
  <2> QED
    BY <2>2 DEF PushedStep
<1>4. Pushed(e.ins)[0].w = Q /\ Len(Pushed(e.ins)[0].outs) = 0
  BY <1>3
<1>5. PICK l : l = Len(e.out \o Block(e.ins))
  OBVIOUS
<1>6. d.x = Q /\ d.pos + 0 = l /\ d.pos \in Nat
  BY <1>4, <1>5 DEF Popped, DecStates
<1>7. d.pos = l
  BY <1>6
<1> QED
  BY <1>5, <1>6, <1>7 DEF AllRead

-----------------------------------------------------------------------------
(* All the blocks.                                                         *)

\* Bit e is the last of the block that bit k is in.
Ends(n, enc, k, e) ==
  /\ e \in k..n /\ (e = n \/ Len(enc[e].ins) = B)
  /\ e - Len(enc[e].ins) = k - Len(enc[k].ins)

\* Every bit is in a block that comes to an end.
LEMMA EndExists ==
  ASSUME Sizes, NEW n \in Nat \ {0}, NEW bit \in [1..n -> 0..1], NEW enc, EncodesAll(n, bit, enc)
  PROVE  \A k \in 1..n : \E e \in 1..n : Ends(n, enc, k, e)
<1> DEFINE Good(k) == \E e \in 1..n : Ends(n, enc, k, e)
           P == {m \in Nat : Good(n - m)}
<1>0. B \in Nat \ {0} /\ n - 1 \in Nat
  BY SizesAre
<1>1. 0 \in P
  <2>1. n - 0 = n /\ n \in 1..n /\ n \in n..n
    OBVIOUS
  <2>2. Ends(n, enc, n, n)
    BY <2>1 DEF Ends
  <2> QED
    BY <2>1, <2>2
<1>2. ASSUME NEW m \in 0..((n - 1) - 1), m \in P PROVE m + 1 \in P
  <2>1. PICK k : k = n - (m + 1)
    OBVIOUS
  <2>2. k \in 1..(n - 1) /\ n - m = k + 1 /\ m + 1 \in Nat /\ k + 1 \in 1..n /\ (k + 1) - 1 = k
    BY <1>0, <2>1
  <2>3. Good(k + 1)
    BY <1>2, <2>2
  <2>4. Takes(enc[k], enc[k + 1], bit[k + 1], k + 1)
    BY <2>2, EncoderSteps
  <2>5. CASE Len(enc[k].ins) = B
    <3>1. k \in k..n /\ k \in 1..n
      BY <2>2
    <3>2. Ends(n, enc, k, k)
      BY <2>5, <3>1 DEF Ends
    <3>3. Good(k)
      BY <3>1, <3>2
    <3> QED
      BY <2>1, <2>2, <3>3
  <2>6. CASE Len(enc[k].ins) # B
    <3>1. PICK e \in 1..n : Ends(n, enc, k + 1, e)
      BY <2>3
    <3>2. Len(enc[k].ins) \in Nat /\ Len(enc[k + 1].ins) = Len(enc[k].ins) + 1
      BY <1>0, <2>4, <2>6 DEF Takes
    <3>3. PICK l : l = Len(enc[k].ins)
      OBVIOUS
    <3>4. (k + 1) - (l + 1) = k - l /\ l \in Nat
      BY <2>2, <3>2, <3>3
    <3>5. e \in k..n
      BY <2>2, <3>1 DEF Ends
    <3>6. Ends(n, enc, k, e)
      BY <3>1, <3>2, <3>3, <3>4, <3>5 DEF Ends
    <3>7. Good(k)
      BY <3>6
    <3> QED
      BY <2>1, <2>2, <3>7
  <2> QED
    BY <2>5, <2>6
<1>3. \A m \in 0..(n - 1) : m \in P
  <2> HIDE DEF P
  <2> QED
    BY <1>0, <1>1, <1>2, CountInduction
<1>4. ASSUME NEW k \in 1..n PROVE Good(k)
  <2>1. n - k \in 0..(n - 1) /\ n - (n - k) = k
    OBVIOUS
  <2>2. Good(n - (n - k))
    BY <1>3, <2>1
  <2> QED
    BY <2>1, <2>2
<1> QED
  BY <1>4

\* In the block of bit k the encoder has written the same after every bit.
SameOut(n, enc, k) ==
  \A e \in k..n : e - Len(enc[e].ins) = k - Len(enc[k].ins) => enc[e].out = enc[k].out

\* Nothing is written inside a block.
LEMMA BlockOut ==
  ASSUME Sizes, NEW n \in Nat \ {0}, NEW bit \in [1..n -> 0..1], NEW enc, EncodesAll(n, bit, enc),
         NEW k \in 1..n
  PROVE  SameOut(n, enc, k)
<1> DEFINE Same(e) == e - Len(enc[e].ins) = k - Len(enc[k].ins) => enc[e].out = enc[k].out
           P == {m \in Nat : Same(k + m)}
<1>0. B \in Nat \ {0} /\ n - k \in Nat /\ k \in Nat
  BY SizesAre
<1>1. 0 \in P
  BY <1>0
<1>2. ASSUME NEW m \in 0..((n - k) - 1), m \in P PROVE m + 1 \in P
  <2>1. PICK e : e = k + m
    OBVIOUS
  <2>2. e \in k..(n - 1) /\ k + (m + 1) = e + 1 /\ m + 1 \in Nat /\ e + 1 \in 1..n /\ (e + 1) - 1 = e
    BY <1>0, <2>1
  <2>3. Same(e)
    BY <1>2, <2>1
  <2>4. Takes(enc[e], enc[e + 1], bit[e + 1], e + 1)
    BY <2>2, EncoderSteps
  <2>5. Takes(enc[k - 1], enc[k], bit[k], k)
    BY EncoderSteps
  <2>6. PICK l : l = Len(enc[k].ins)
    OBVIOUS
  <2>7. PICK v : v = Len(enc[e].ins)
    OBVIOUS
  <2>8. PICK j : j = Len(enc[e + 1].ins)
    OBVIOUS
  <2>9. l \in 1..B /\ v \in 0..B /\ j \in 1..B
    BY <2>4, <2>5, <2>6, <2>7, <2>8 DEF Takes
  <2>10. (v = B => j = 1) /\ (v # B => j = v + 1 /\ enc[e + 1].out = enc[e].out)
    BY <2>4, <2>7, <2>8 DEF Takes
  <2>11. ASSUME (e + 1) - j = k - l PROVE enc[e + 1].out = enc[k].out
    <3>1. v # B
      BY <1>0, <2>2, <2>9, <2>10, <2>11
    <3>2. e - v = k - l
      BY <1>0, <2>2, <2>9, <2>10, <2>11, <3>1
    <3> QED
      BY <2>3, <2>6, <2>7, <2>10, <3>1, <3>2
  <2>12. Same(e + 1)
    BY <2>6, <2>8, <2>11
  <2> QED
    BY <2>2, <2>12
<1>3. \A m \in 0..(n - k) : m \in P
  <2> HIDE DEF P
  <2> QED
    BY <1>0, <1>1, <1>2, CountInduction
<1>4. ASSUME NEW e \in k..n PROVE Same(e)
  <2>1. e - k \in 0..(n - k) /\ k + (e - k) = e
    BY <1>0
  <2>2. Same(k + (e - k))
    BY <1>3, <2>1
  <2> QED
    BY <2>1, <2>2
<1> QED
  BY <1>4 DEF SameOut

\* A sequence is written in itself.
LEMMA WrittenAll == ASSUME NEW S, NEW s \in Seq(S) PROVE Written(s, 0, s)
<1>1. Len(s) \in Nat
  OBVIOUS
<1>2. ASSUME NEW v \in 1..Len(s) PROVE 0 + v <= Len(s) /\ s[0 + v] = s[v]
  <2>1. 0 + v = v /\ v <= Len(s)
    BY <1>1
  <2> QED
    BY <2>1
<1> QED
  BY <1>2 DEF Written

\* What the encoder has written stays where it is, and each block follows it.
LEMMA OutStays ==
  ASSUME Sizes, NEW n \in Nat \ {0}, NEW bit \in [1..n -> 0..1], NEW enc, EncodesAll(n, bit, enc),
         NEW bytes, bytes = eflush(enc[n]).out
  PROVE  /\ bytes \in Seq(0..(Byte - 1)) /\ bytes = enc[n].out \o Block(enc[n].ins)
         /\ \A k \in 0..n : Written(bytes, 0, enc[k].out)
<1> DEFINE P == {m \in Nat : Written(bytes, 0, enc[n - m].out)}
           S == 0..(Byte - 1)
<1>0. B \in Nat \ {0} /\ n \in 1..n
  BY SizesAre
<1>1. Takes(enc[n - 1], enc[n], bit[n], n)
  BY <1>0, EncoderSteps
<1>2. PICK e : e = enc[n]
  OBVIOUS
<1>3. e \in EncStates
  BY <1>1, <1>2 DEF Takes
<1>4. PICK f : f = eflush(e)
  OBVIOUS
<1>5. f \in EncStates /\ f.out = e.out \o Block(e.ins)
  BY <1>3, <1>4, FlushIs
<1>6. bytes \in Seq(S) /\ bytes = e.out \o Block(e.ins)
  BY <1>2, <1>4, <1>5 DEF EncStates
<1>7. 0 \in P
  <2>1. PICK o : o = e.out
    OBVIOUS
  <2>2. PICK b : b = Block(e.ins)
    OBVIOUS
  <2>3. o \in Seq(S) /\ b \in Seq(S)
    BY <1>3, <2>1, <2>2, BlockIs DEF EncStates
  <2>4. Written(bytes, 0, o \o b)
    <3>1. bytes = o \o b
      BY <1>6, <2>1, <2>2
    <3>2. Written(bytes, 0, bytes)
      <4> HIDE DEF S
      <4> QED
        BY <1>6, WrittenAll
    <3> QED
      BY <3>1, <3>2
  <2>5. Written(bytes, 0, o)
    <3> HIDE DEF S
    <3> QED
      BY <2>3, <2>4, WrittenBoth
  <2>6. n - 0 = n
    OBVIOUS
  <2> QED
    BY <1>2, <2>1, <2>5, <2>6
<1>8. ASSUME NEW m \in 0..(n - 1), m \in P PROVE m + 1 \in P
  <2>1. PICK k : k = n - m
    OBVIOUS
  <2>2. k \in 1..n /\ n - (m + 1) = k - 1 /\ m + 1 \in Nat
    BY <2>1
  <2>3. Takes(enc[k - 1], enc[k], bit[k], k)
    BY <2>2, EncoderSteps
  <2>4. Written(bytes, 0, enc[k].out)
    BY <1>8, <2>1
  <2>5. Written(bytes, 0, enc[k - 1].out)
    <3>1. CASE Len(enc[k - 1].ins) # B
      BY <2>3, <2>4, <3>1 DEF Takes
    <3>2. CASE Len(enc[k - 1].ins) = B
      <4>1. PICK d : d = enc[k - 1]
        OBVIOUS
      <4>2. PICK o : o = d.out
        OBVIOUS
      <4>3. PICK b : b = Block(d.ins)
        OBVIOUS
      <4>4. d \in EncStates /\ enc[k].out = o \o b
        BY <2>3, <3>2, <4>1, <4>2, <4>3 DEF Takes
      <4>5. o \in Seq(S) /\ b \in Seq(S)
        BY <4>2, <4>3, <4>4, BlockIs DEF EncStates
      <4>6. Written(bytes, 0, o \o b)
        BY <2>4, <4>4
      <4>7. Written(bytes, 0, o)
        <5> HIDE DEF S
        <5> QED
          BY <4>5, <4>6, WrittenBoth
      <4> QED
        BY <4>1, <4>2, <4>7
    <3> QED
      BY <3>1, <3>2
  <2> QED
    BY <2>2, <2>5
<1>9. \A m \in 0..n : m \in P
  <2> HIDE DEF P
  <2> QED
    BY <1>7, <1>8, CountInduction
<1>10. ASSUME NEW k \in 0..n PROVE Written(bytes, 0, enc[k].out)
  <2>1. n - k \in 0..n /\ n - (n - k) = k
    OBVIOUS
  <2>2. Written(bytes, 0, enc[n - (n - k)].out)
    BY <1>9, <2>1
  <2> QED
    BY <2>1, <2>2
<1> QED
  BY <1>2, <1>6, <1>10

\* A block lies behind what was written before it.
LEMMA BlockWritten ==
  ASSUME Sizes, NEW n \in Nat \ {0}, NEW bit \in [1..n -> 0..1], NEW enc, EncodesAll(n, bit, enc),
         NEW bytes, bytes = eflush(enc[n]).out, NEW e \in 1..n, e = n \/ Len(enc[e].ins) = B
  PROVE  Written(bytes, Len(enc[e].out), Block(enc[e].ins))
<1> DEFINE S == 0..(Byte - 1)
<1>1. /\ bytes \in Seq(S) /\ bytes = enc[n].out \o Block(enc[n].ins)
      /\ \A k \in 0..n : Written(bytes, 0, enc[k].out)
  BY OutStays
<1>2. PICK o : o = enc[e].out
  OBVIOUS
<1>3. PICK b : b = Block(enc[e].ins)
  OBVIOUS
<1>4. o \in Seq(S) /\ b \in Seq(S)
  <2>1. PICK g : g = enc[e]
    OBVIOUS
  <2>2. g \in EncStates
    <3>1. Takes(enc[e - 1], enc[e], bit[e], e)
      BY EncoderSteps
    <3> QED
      BY <2>1, <3>1 DEF Takes
  <2> QED
    BY <1>2, <1>3, <2>1, <2>2, BlockIs DEF EncStates
<1>5. Written(bytes, 0, o \o b)
  <2>1. CASE e = n
    <3>1. Written(bytes, 0, bytes)
      <4> HIDE DEF S
      <4> QED
        BY <1>1, WrittenAll
    <3> QED
      BY <1>1, <1>2, <1>3, <2>1, <3>1
  <2>2. CASE e # n /\ Len(enc[e].ins) = B
    <3>1. e + 1 \in 1..n /\ e + 1 \in 0..n /\ (e + 1) - 1 = e
      BY <2>2
    <3>2. Takes(enc[e], enc[e + 1], bit[e + 1], e + 1)
      BY <3>1, EncoderSteps
    <3>3. enc[e + 1].out = o \o b
      BY <1>2, <1>3, <2>2, <3>2 DEF Takes
    <3> QED
      BY <1>1, <3>1, <3>3
  <2> QED
    BY <2>1, <2>2
<1>6. Written(bytes, 0 + Len(o), b) /\ Len(o) \in Nat
  <2>1. Len(o) \in Nat
    BY <1>4
  <2> HIDE DEF S
  <2>2. Written(bytes, 0 + Len(o), b)
    BY <1>4, <1>5, WrittenBoth
  <2> QED
    BY <2>1, <2>2
<1>7. 0 + Len(o) = Len(o)
  BY <1>6
<1> QED
  BY <1>2, <1>3, <1>6, <1>7

\* After k bits the decoder has bit k and the model that the encoder had, and what
\* is left of the block it is in lies before it.
DecoderAt(n, bit, enc, bytes, dec, k) ==
  \A e \in 1..n : Ends(n, enc, k, e) =>
    /\ dec[k].bit = bit[k]
    /\ Popped(dec[k], bytes, enc[e], e - k, B - Len(enc[k].ins) + 1, enc[k].model)

\* The next bit is counted, in its block that ends with bit e.
CountedAt(enc, bytes, dec, k, e) ==
  /\ dec[k].error = FALSE
  /\ Popped(Counted(dec[k], bytes), bytes, enc[e], e - k, B - Len(enc[k + 1].ins) + 1, enc[k].model)

\* Before the next bit comes back it is counted, and a block that is used up makes
\* place for the next one.
LEMMA CountReturns ==
  ASSUME Sizes, NEW n \in Nat \ {0}, NEW bit \in [1..n -> 0..1], NEW enc, EncodesAll(n, bit, enc),
         NEW bytes, bytes = eflush(enc[n]).out, NEW dec, DecodesAll(n, bytes, dec),
         NEW k \in 0..(n - 1), k # 0 => DecoderAt(n, bit, enc, bytes, dec, k)
  PROVE  \A e \in 1..n : Ends(n, enc, k + 1, e) => CountedAt(enc, bytes, dec, k, e)
<1> SUFFICES ASSUME NEW e \in 1..n, Ends(n, enc, k + 1, e) PROVE CountedAt(enc, bytes, dec, k, e)
  OBVIOUS
<1>0. B \in Nat \ {0} /\ k + 1 \in 1..n /\ (k + 1) - 1 = k /\ k \in Nat
  BY SizesAre
<1>1. bytes \in Seq(0..(Byte - 1))
  BY OutStays
<1>2. Takes(enc[k], enc[k + 1], bit[k + 1], k + 1)
  BY <1>0, EncoderSteps
<1>3. Takes(enc[e - 1], enc[e], bit[e], e)
  BY EncoderSteps
<1>4. PICK v : v = Len(enc[k].ins)
  OBVIOUS
<1>5. PICK j : j = Len(enc[k + 1].ins)
  OBVIOUS
<1>6. PICK l : l = Len(enc[e].ins)
  OBVIOUS
<1>7. /\ v \in 0..B /\ j \in 1..B /\ l \in 1..B /\ v <= k
      /\ v = B => j = 1 /\ enc[k + 1].out = enc[k].out \o Block(enc[k].ins)
      /\ v # B => j = v + 1 /\ enc[k + 1].out = enc[k].out
  BY <1>0, <1>2, <1>3, <1>4, <1>5, <1>6 DEF Takes
<1>8. e \in (k + 1)..n /\ (e = n \/ l = B) /\ e - l = (k + 1) - j
  BY <1>5, <1>6 DEF Ends
<1>9. PICK d : d = dec[k]
  OBVIOUS
<1>10. PICK g : g = enc[e]
  OBVIOUS
<1>11. g \in EncStates
  BY <1>3, <1>10 DEF Takes
<1>12. PICK m : m = enc[k].model
  OBVIOUS
\* inside a block
<1>20. CASE k # 0 /\ v # B
  <2>1. Ends(n, enc, k, e)
    <3>1. e \in k..n /\ e - l = k - v
      BY <1>0, <1>7, <1>8, <1>20
    <3> QED
      BY <1>4, <1>6, <1>8, <3>1 DEF Ends
  <2>2. Popped(d, bytes, g, e - k, B - v + 1, m)
    BY <1>4, <1>9, <1>10, <1>12, <1>20, <2>1 DEF DecoderAt
  <2>3. PICK c : c = B - v + 1
    OBVIOUS
  <2>4. c \in Nat /\ c > 1 /\ c - 1 = B - j + 1
    BY <1>0, <1>7, <1>20, <2>3
  <2>5. Popped(Counted(d, bytes), bytes, g, e - k, c - 1, m)
    BY <2>2, <2>3, <2>4, CountDown
  <2>6. d.error = FALSE
    BY <2>2 DEF Popped
  <2> QED
    BY <1>5, <1>9, <1>10, <1>12, <2>4, <2>5, <2>6 DEF CountedAt
\* the first bit of a block
<1>21. ASSUME j = 1, d \in DecStates, d.error = FALSE, d.x = Q, d.n = 1, d.model = m,
              d.pos = Len(enc[k + 1].out)
       PROVE  d.error = FALSE /\ Popped(Counted(d, bytes), bytes, g, e - k, B - j + 1, m)
  <2>1. enc[e].out = enc[k + 1].out
    <3>1. SameOut(n, enc, k + 1)
      BY <1>0, BlockOut
    <3>2. e \in (k + 1)..n /\ e - Len(enc[e].ins) = (k + 1) - Len(enc[k + 1].ins)
      BY <1>5, <1>6, <1>8
    <3> QED
      BY <3>1, <3>2 DEF SameOut
  <2>2. e = n \/ Len(enc[e].ins) = B
    BY <1>6, <1>8
  <2>3. Written(bytes, Len(enc[e].out), Block(enc[e].ins))
    BY <2>2, BlockWritten
  <2>4. d.pos = Len(g.out) /\ Written(bytes, Len(g.out), Block(g.ins))
    BY <1>10, <1>21, <2>1, <2>3
  <2>5. Popped(Counted(d, bytes), bytes, g, Len(g.ins), B, m)
    BY <1>1, <1>11, <1>21, <2>4, NewBlock
  <2>6. Len(g.ins) = e - k /\ B = B - j + 1
    BY <1>0, <1>6, <1>7, <1>8, <1>10, <1>21
  <2> QED
    BY <1>21, <2>5, <2>6
<1>22. CASE k = 0
  <2>1. enc[0] = Start /\ d = StartDecode(bytes)
    BY <1>9, <1>22 DEF EncodesAll, DecodesAll
  <2>2. /\ d \in DecStates /\ d.error = FALSE /\ d.x = Q /\ d.n = 1 /\ d.model = StartModel
        /\ d.pos = 0
    BY <2>1, StartModelIs, SizesAre DEF DecStates, StartDecode, StartModel
  <2>3. Start.ins = <<>> /\ Start.out = <<>> /\ Start.model = StartModel
    BY StartIs
  <2>4. v = 0 /\ m = StartModel /\ Len(enc[k].out) = 0
    BY <1>4, <1>12, <1>22, <2>1, <2>3
  <2>5. j = 1 /\ Len(enc[k + 1].out) = 0
    BY <1>0, <1>7, <2>4
  <2>6. d.error = FALSE /\ Popped(Counted(d, bytes), bytes, g, e - k, B - j + 1, m)
    BY <1>21, <2>2, <2>4, <2>5
  <2> QED
    BY <1>5, <1>9, <1>10, <1>12, <2>6 DEF CountedAt
<1>23. CASE k # 0 /\ v = B
  <2>1. k \in 1..n /\ k \in k..n
    BY <1>0, <1>23
  <2>2. Ends(n, enc, k, k)
    BY <1>4, <1>23, <2>1 DEF Ends
  <2>3. PICK f : f = enc[k]
    OBVIOUS
  <2>4. Popped(d, bytes, f, k - k, B - v + 1, m)
    BY <1>4, <1>9, <1>12, <1>23, <2>1, <2>2, <2>3 DEF DecoderAt
  <2>5. k - k = 0 /\ B - v + 1 = 1
    BY <1>0, <1>23
  <2>6. Popped(d, bytes, f, 0, 1, m)
    BY <2>4, <2>5
  <2>7. f \in EncStates
    BY <1>2, <2>3 DEF Takes
  <2>8. d.x = Q /\ d.pos = Len(f.out \o Block(f.ins))
    <3>1. AllRead(d, f)
      BY <2>6, <2>7, AllPopped
    <3> QED
      BY <3>1 DEF AllRead
  <2>9. d \in DecStates /\ d.error = FALSE /\ d.n = 1 /\ d.model = m
    BY <2>6 DEF Popped
  <2>10. j = 1 /\ d.pos = Len(enc[k + 1].out)
    BY <1>7, <1>23, <2>3, <2>8
  <2>11. d.error = FALSE /\ Popped(Counted(d, bytes), bytes, g, e - k, B - j + 1, m)
    BY <1>21, <2>8, <2>9, <2>10
  <2> QED
    BY <1>5, <1>9, <1>10, <1>12, <2>11 DEF CountedAt
<1> QED
  BY <1>20, <1>22, <1>23 DEF CountedAt

\* Every bit comes back.
LEMMA DecoderIs ==
  ASSUME Sizes, NEW n \in Nat \ {0}, NEW bit \in [1..n -> 0..1], NEW enc, EncodesAll(n, bit, enc),
         NEW bytes, bytes = eflush(enc[n]).out, NEW dec, DecodesAll(n, bytes, dec)
  PROVE  \A k \in 1..n : DecoderAt(n, bit, enc, bytes, dec, k)
<1> DEFINE Good(k) == k # 0 => DecoderAt(n, bit, enc, bytes, dec, k)
           P == {k \in Nat : Good(k)}
<1>1. 0 \in P
  OBVIOUS
<1>2. ASSUME NEW k \in 0..(n - 1), k \in P PROVE k + 1 \in P
  <2>0. B \in Nat \ {0} /\ k + 1 \in 1..n /\ (k + 1) - 1 = k /\ k \in Nat
    BY SizesAre
  <2>1. Good(k)
    BY <1>2
  <2>2. ASSUME NEW e \in 1..n, Ends(n, enc, k + 1, e)
        PROVE  /\ dec[k + 1].bit = bit[k + 1]
               /\ Popped(dec[k + 1], bytes, enc[e], e - (k + 1), B - Len(enc[k + 1].ins) + 1, enc[k + 1].model)
    <3> HIDE DEF P
    <3>1. /\ dec[k].error = FALSE
          /\ Popped(Counted(dec[k], bytes), bytes, enc[e], e - k, B - Len(enc[k + 1].ins) + 1, enc[k].model)
      <4>1. k # 0 => DecoderAt(n, bit, enc, bytes, dec, k)
        BY <2>1
      <4>2. \A f \in 1..n : Ends(n, enc, k + 1, f) => CountedAt(enc, bytes, dec, k, f)
        BY <4>1, CountReturns
      <4> QED
        BY <2>2, <4>2 DEF CountedAt
    <3>2. EncoderAt(e, bit, enc) /\ EncoderAt(k + 1, bit, enc)
      <4>1. e \in 0..n /\ k + 1 \in 0..n /\ n \in Nat
        BY <2>0
      <4> QED
        BY <4>1, EncoderIs
    <3>3. PICK g : g = enc[e]
      OBVIOUS
    <3>4. PICK l : l = Len(g.ins)
      OBVIOUS
    <3>5. PICK j : j = Len(enc[k + 1].ins)
      OBVIOUS
    <3>6. PICK m : m = enc[k].model
      OBVIOUS
    <3>7. PICK d : d = dec[k]
      OBVIOUS
    <3>8. PICK top : top = g.ins[j]
      OBVIOUS
    <3>9. /\ g \in EncStates /\ l \in 0..B
          /\ \A v \in 1..l : /\ g.ins[v].q = Prediction(enc[(e - l) + v - 1].model)
                             /\ g.ins[v].d = bit[(e - l) + v]
      BY <3>2, <3>3, <3>4 DEF EncoderAt
    <3>10. j \in 1..B
      BY <2>0, <3>2, <3>5 DEF EncoderAt
    <3>11. e \in (k + 1)..n /\ e - l = (k + 1) - j
      BY <2>2, <3>3, <3>4, <3>5 DEF Ends
    <3>12. /\ j \in 1..l /\ (e - l) + j - 1 = k /\ (e - l) + j = k + 1
           /\ e - k \in 1..l /\ l - (e - k) + 1 = j /\ (e - k) - 1 = e - (k + 1)
      <4>1. j \in Int /\ l \in Int /\ e \in Int /\ k \in Int /\ j >= 1 /\ e >= k + 1 /\ e - l = (k + 1) - j
        BY <2>0, <3>9, <3>10, <3>11
      <4>2. j <= l /\ e - k >= 1 /\ e - k <= l
        BY <4>1
      <4>3. (e - l) + j - 1 = k /\ (e - l) + j = k + 1 /\ l - (e - k) + 1 = j /\ (e - k) - 1 = e - (k + 1)
        BY <4>1
      <4> QED
        BY <4>1, <4>2, <4>3
    <3>13. top.q = Prediction(m) /\ top.d = bit[k + 1]
      BY <3>6, <3>8, <3>9, <3>12
    <3>14. PICK p : p = e - k
      OBVIOUS
    <3>15. PICK c : c = B - Len(enc[k + 1].ins) + 1
      OBVIOUS
    <3>16. Popped(Counted(d, bytes), bytes, g, p, c, m) /\ d.error = FALSE
      BY <3>1, <3>3, <3>6, <3>7, <3>14, <3>15
    <3>17. p \in 1..Len(g.ins) /\ top = g.ins[Len(g.ins) - p + 1]
      BY <3>4, <3>8, <3>12, <3>14
    <3>18. bytes \in Seq(0..(Byte - 1))
      BY OutStays
    <3>19. PICK h : h = DecodeBit(d, bytes)
      OBVIOUS
    <3>20. Popped(h, bytes, g, p - 1, c, Learn(m, top.d)) /\ h.bit = top.d
      <4>1. Pops(bytes, g, p, c, m, d, top)
        BY <3>9, <3>13, <3>16, <3>17, <3>18 DEF Pops
      <4>2. PopsTo(bytes, g, p, c, m, d, top)
        BY <4>1, PopStep
      <4> QED
        BY <3>19, <4>2 DEF PopsTo
    <3>21. h = dec[k + 1]
      BY <2>0, <3>7, <3>19 DEF DecodesAll
    <3>22. Learn(m, top.d) = enc[k + 1].model
      <4>1. Takes(enc[k], enc[k + 1], bit[k + 1], k + 1)
        BY <2>0, EncoderSteps
      <4> QED
        BY <3>6, <3>13, <4>1 DEF Takes
    <3> QED
      BY <3>3, <3>12, <3>13, <3>14, <3>15, <3>20, <3>21, <3>22
  <2>3. DecoderAt(n, bit, enc, bytes, dec, k + 1)
    BY <2>2 DEF DecoderAt
  <2> QED
    BY <2>0, <2>3
<1>3. \A k \in 0..n : k \in P
  <2> HIDE DEF P
  <2> QED
    BY <1>1, <1>2, CountInduction
<1> QED
  BY <1>3

\* encoder_decoder_fpaqc: whatever bits are coded, one block after the other, the
\* decoder finds each of them, never a wrong state, and predicts with the same
\* model; when it has the last bit it has read the last byte.
THEOREM BitsComeBack ==
  ASSUME Sizes, NEW n \in Nat \ {0}, NEW bit \in [1..n -> 0..1], NEW enc, EncodesAll(n, bit, enc),
         NEW bytes, bytes = eflush(enc[n]).out, NEW dec, DecodesAll(n, bytes, dec)
  PROVE  /\ \A k \in 1..n : dec[k].bit = bit[k] /\ dec[k].error = FALSE /\ dec[k].model = enc[k].model
         /\ dec[n].pos = Len(bytes)
<1>1. \A k \in 1..n : DecoderAt(n, bit, enc, bytes, dec, k)
  BY DecoderIs
<1>2. \A k \in 1..n : \E e \in 1..n : Ends(n, enc, k, e)
  BY EndExists
<1>3. ASSUME NEW k \in 1..n
      PROVE  dec[k].bit = bit[k] /\ dec[k].error = FALSE /\ dec[k].model = enc[k].model
  <2>1. PICK e \in 1..n : Ends(n, enc, k, e)
    BY <1>2
  <2>2. dec[k].bit = bit[k] /\ Popped(dec[k], bytes, enc[e], e - k, B - Len(enc[k].ins) + 1, enc[k].model)
    BY <1>1, <2>1 DEF DecoderAt
  <2> QED
    BY <2>2 DEF Popped
<1>4. dec[n].pos = Len(bytes)
  <2>1. n \in 1..n /\ n \in n..n /\ n - n = 0
    OBVIOUS
  <2>2. Ends(n, enc, n, n)
    BY <2>1 DEF Ends
  <2>3. Popped(dec[n], bytes, enc[n], n - n, B - Len(enc[n].ins) + 1, enc[n].model)
    BY <1>1, <2>1, <2>2 DEF DecoderAt
  <2>4. PICK e : e = enc[n]
    OBVIOUS
  <2>5. PICK c : c = B - Len(enc[n].ins) + 1
    OBVIOUS
  <2>6. PICK d : d = dec[n]
    OBVIOUS
  <2>7. Popped(d, bytes, e, 0, c, e.model)
    BY <2>1, <2>3, <2>4, <2>5, <2>6
  <2>8. e \in EncStates
    <3>1. Takes(enc[n - 1], enc[n], bit[n], n)
      BY <2>1, EncoderSteps
    <3> QED
      BY <2>4, <3>1 DEF Takes
  <2>9. d.pos = Len(e.out \o Block(e.ins))
    <3>1. PICK m : m = e.model
      OBVIOUS
    <3>2. Popped(d, bytes, e, 0, c, m)
      BY <2>7, <3>1
    <3>3. AllRead(d, e)
      BY <2>8, <3>2, AllPopped
    <3> QED
      BY <3>3 DEF AllRead
  <2>10. bytes = e.out \o Block(e.ins)
    BY <2>4, OutStays
  <2> QED
    BY <2>6, <2>9, <2>10
<1> QED
  BY <1>3, <1>4
=============================================================================

------------------------------ MODULE Wrappers ------------------------------
(***************************************************************************)
(* The switches of codcomp and coddecomp (src/plugin.cc 2470-4612): one    *)
(* case per codec around its library, and what becomp, bedecomp and        *)
(* memcheck make of what the case answers.  A file is a few chunks, each   *)
(* given to the codec in one call; BlockCodec models the cutting, TimeLoop *)
(* the repetition (a codec is a function of its input, so that it refuses  *)
(* a chunk every time or never).                                           *)
(*                                                                         *)
(* A library works or refuses.  What a case answers when its library       *)
(* refuses is a class:                                                     *)
(*   zero    the case turns the error into 0,                              *)
(*   minus   into -1 or the negated error: huge as an unsigned,            *)
(*   own     the library's own answer is passed on: 0 or an error code,    *)
(*   length  the error is dropped and a length variable returned,          *)
(*   const   a length that does not depend on the library,                 *)
(*   raw     the input is copied instead.                                  *)
(* A format is named after the codec, or after the library's function when *)
(* a case has several.  A parameter is the sequence of its letters.        *)
(* BPC and FIRETRAIL are left out: their decoder cases have no closing     *)
(* brace and cannot be compiled.                                           *)
(***************************************************************************)
EXTENDS Naturals, Sequences, FiniteSets

CONSTANTS
  Calls,             \* what the command line asks for: [id, lev, prm]
  Chunks             \* chunks of the file

ASSUME WrappersAssumption == Chunks \in Nat \ {0}

Letters(prm) == {prm[i] : i \in DOMAIN prm}
Has(prm, c) == c \in Letters(prm)

Entry == [zero |-> {}, minus |-> {}, own |-> {}, length |-> {}, const |-> {}, raw |-> {},
          work |-> {}]

-----------------------------------------------------------------------------
(* codcomp, by its headings: the class of every case, and those that use   *)
(* workmem.                                                                *)
AOCL == {"AOCL_LZ4", "AOCL_LZ4HC", "AOCL_LZMA", "AOCL_BZIP2", "AOCL_SNAPPY", "AOCL_ZLIB",
         "AOCL_ZSTD"}
BLOSC == {"BLOSC_LZ", "BLOSC_LZ4", "BLOSC_LZ4HC", "BLOSC_ZLIB", "BLOSC_ZSTD"}

CompA_C == [Entry EXCEPT
  !.zero   = {"ACEFAST", "ACE", "BROTLI", "BZIP3"},
  !.minus  = {"BZ2_NG", "BZIP2"},
  !.own    = AOCL \cup BLOSC \cup {"BALZ", "BCM", "BRIEFLZ", "CHAMELEON", "CRLZP", "CRUSH"},
  !.length = {"CSC"},
  !.work   = {"BRIEFLZ", "CHAMELEON"}]

CompD_K == [Entry EXCEPT
  !.zero   = {"GLZA"},
  !.minus  = {"DOBOZ"},
  !.own    = {"DENSITY", "FASTLZ", "FLZMA2", "GIPFELI", "GLYD", "GLYDP", "HEATSHRINK", "IC",
              "IGUANA", "KANZI"},
  !.length = {"ISA_L"}]

CompL_LZH == [Entry EXCEPT
  !.minus  = {"LZHAM"},
  !.own    = {"LIB", "LIBBSC", "LIBBSCC", "LIBBSCLZP", "LIBDEFLATE", "LIBLZF", "LIBSLZ",
              "LIBLZG", "LIZARD", "LZ4ULTRA", "CLICKHOUSE", "LZ4", "LZAV", "LZFSE", "LZFSEA"},
  !.const  = {"LIBBSCBWT", "ST"},
  !.work   = {"LZFSE", "LZFSEA"}]

LZO == {"LZO1b", "LZO1c", "LZO1f", "LZO1x", "LZO1y", "LZO1z", "LZO2a"}

CompLZJ_LZS == [Entry EXCEPT
  !.zero   = {"LZMA", "LZMAT"},
  !.own    = {"LZJODY", "LZOMA", "LZRAVEN", "LZSA", "LZSS1", "LZSS2", "LZSSE2", "LZSSE4", "LZSSE8"},
  !.length = LZO \cup {"LZLIB"},
  !.work   = LZO \cup {"LZRAVEN"}]

OPENZL == {"OPENZL_U8", "OPENZL_I8", "OPENZL_U16", "OPENZL_I16", "OPENZL_U32", "OPENZL_I32",
           "OPENZL_U64", "OPENZL_I64", "OPENZL_SERIAL", "OPENZL_GENERIC", "OPENZL_ZSTD",
           "OPENZL_LZ4", "OPENZL_CSV"}

CompM_O == [Entry EXCEPT
  !.zero   = {"MBROTLI", "MSCOMPRESS", "MZSTD"},
  !.own    = OPENZL \cup {"MEMLZ", "MISA77", "MISA77S", "MWLZ", "MZIP", "NZ1", "OODLE", "OODLE_ANS"},
  !.length = {"MINIZ", "OODLE_HUF"},
  !.const  = {"OPENZL_TP"}]

PCODEC == {"PCODECI8", "PCODECU8", "PCODECI16", "PCODECU16", "PCODECF16", "PCODECI32",
           "PCODECU32", "PCODECF32", "PCODECI64", "PCODECU64", "PCODECF64"}

CompP_T == [Entry EXCEPT
  !.zero   = {"TOVYCT"},
  !.own    = {"PITHY", "QUICKLZ", "SHOCO", "SMAZ", "SHRINKER", "SMALLZ4", "TCOBS", "TORNADO"},
  !.length = PCODEC \cup {"PULSAR", "PYSAP", "SNAPPY", "SNAPPY_C", "TAMP", "TSQ"},
  !.work   = {"QUICKLZ", "TAMP"}]

CompU_Z == [Entry EXCEPT
  !.zero   = {"WZIP", "ZXC"},
  !.own    = {"UNISHOX2", "UNISHOX3", "WFLZ", "WLZ4", "WLZ4FAST", "WLZ4HC", "WIMLIB", "WKDM",
              "XPACK", "XZ", "YALZ77", "YAPPY", "ZLIB_TURBO", "ZLING", "ZPAQ"},
  !.length = {"ZLIB", "ZLIB_NG", "ZLIB_RS", "ZOPFLI", "ZSTD"},
  !.work   = {"WFLZ"}]

B64  == {"B64_PLAIN", "B64_SSSE3", "B64_SSE41", "B64_AVX", "B64_AVX2"}
TB64 == {"TB64", "TB64S", "TB64X", "TB64AVX", "TB64AVX2", "TB64SSE"}

CompEncoding == [Entry EXCEPT
  !.own    = TB64 \cup {"RLES", "RLET", "RLEM", "HRLELE", "HRLEM", "HRLE", "HRLESH", "HRLEMMTF",
                       "FB64AVX2", "FB64CHROM", "FB64LINUX"},
  !.length = B64 \cup {"FB64KLOMP", "FB64PLAIN"},
  !.const  = {"SB64SSE"}]

CompEntropy == [Entry EXCEPT
  !.zero   = {"FASTARI"},
  !.own    = {"BRC", "AOM", "DAALA", "BCMEC", "FASTAC", "FASTHF", "FPAQC", "FPC", "FREQTAB",
              "GANSR", "GANSW", "MARLIN", "NANS", "NIBRANS", "PPMDEC", "POLHF", "RECIPARITH",
              "SHRC", "SHRCV", "SSERC", "SUBOTIN", "TORNADOHF"},
  !.length = {"FQZ0", "JAC", "FSC"},
  !.const  = {"DIVBWT", "MCPY", "LMCPY"},
  !.raw    = {"FSE", "FSEH"},
  !.work   = {"FASTARI", "MARLIN"}]

(* ZLIBH and ZRLE answer how much deflate wrote, or break out to 0. *)
CompLast == [Entry EXCEPT
  !.zero   = {"ZRLE", "PIVCOHUF"},
  !.own    = {"BWTSATAN", "TURBORC", "PHAZ"},
  !.length = {"ZLIBH"}]

Comp == {CompA_C, CompD_K, CompL_LZH, CompLZJ_LZS, CompM_O, CompP_T, CompU_Z, CompEncoding,
         CompEntropy, CompLast}

Class(id) ==
  CHOOSE class \in {"zero", "minus", "own", "length", "const", "raw"} :
    \E e \in Comp : id \in e[class]

CompWork == UNION {e.work : e \in Comp}

(* What becomp may see of a chunk its codec refused. *)
Answer(id) ==
  CASE Class(id) = "zero"   -> {"zero"}
    [] Class(id) = "minus"  -> {"huge"}
    [] Class(id) = "own"    -> {"zero", "huge"}
    [] Class(id) = "length" -> {"zero", "short", "full"}
    [] OTHER                -> {"full"}

-----------------------------------------------------------------------------
(* coddecomp, by its headings: the codecs it has a case for, those that use *)
(* workmem, and those that end the program when their library refuses.      *)
Case == [has |-> {}, work |-> {}, dies |-> {}]

DecompA_C == [Case EXCEPT
  !.has  = AOCL \cup BLOSC \cup {"ACEFAST", "ACE", "AOM", "BALZ", "BCM", "BRIEFLZ", "BROTLI",
           "BZ2_NG", "BZIP2", "BZIP3", "CHAMELEON", "CRLZP", "CSC", "CLICKHOUSE", "CRUSH"},
  !.work = {"CHAMELEON"},
  !.dies = {"CRLZP"}]

DecompD_K == [Case EXCEPT
  !.has  = {"DAALA", "DENSITY", "DOBOZ", "FASTARI", "FASTLZ", "FLZMA2", "GIPFELI", "GLZA", "GLYD",
           "GLYDP", "HEATSHRINK", "IC", "IGUANA", "ISA_L", "KANZI"},
  !.work = {"FASTARI"},
  !.dies = {"ISA_L"}]

DecompL_LZH == [Case EXCEPT
  !.has  = {"LIB", "LIBBSC", "LIBBSCC", "LIBDEFLATE", "LIBLZG", "LIBLZF", "LIZARD", "LZ4",
           "LZRAVEN", "LZ4ULTRA", "LZAV", "LZFSE", "LZFSEA", "LZJODY", "LZHAM", "LIBSLZ"},
  !.work = {"LZFSE", "LZFSEA"},
  !.dies = {"LZJODY"}]

(* The case of lzss is P_LZSS, which no entry of the registry has. *)
DecompLZL_LZS == [Case EXCEPT
  !.has  = LZO \cup {"LZLIB", "LZMA", "LZMAT", "LZOMA", "LZSA", "LZSSE2", "LZSSE4", "LZSSE8"}]

DecompM_O == [Case EXCEPT
  !.has  = OPENZL \cup {"MBROTLI", "MEMLZ", "MINIZ", "MISA77", "MISA77S", "MSCOMPRESS", "MWLZ",
           "MZIP", "MZSTD", "NZ1", "OODLE", "OODLE_HUF", "OODLE_ANS", "OPENZL_TP"}]

DecompP_T == [Case EXCEPT
  !.has  = PCODEC \cup {"PITHY", "PULSAR", "PYSAP", "QUICKLZ", "SMALLZ4", "SMAZ", "SHOCO",
           "SHRINKER", "SNAPPY", "SNAPPY_C", "TAMP", "TCOBS", "TORNADO", "TOVYCT", "TSQ"},
  !.work = {"QUICKLZ", "TAMP"}]

DecompU_Z == [Case EXCEPT
  !.has  = {"UNISHOX2", "UNISHOX3", "WFLZ", "WLZ4", "WLZ4FAST", "WLZ4HC", "WZIP", "WIMLIB",
           "WKDM", "XPACK", "XZ", "YALZ77", "YAPPY", "ZOPFLI", "ZLIB", "ZLIB_NG", "ZLIB_RS",
           "ZLIB_TURBO", "ZLING", "ZSTD", "ZXC", "ZPAQ"}]

DecompEncoding == [Case EXCEPT
  !.has  = B64 \cup TB64 \cup {"RLES", "RLET", "RLEM", "HRLELE", "HRLEM", "HRLE", "HRLESH",
           "HRLEMMTF", "DIVBWT", "LIBBSCBWT", "LIBBSCLZP", "ST", "BRC", "FB64AVX2", "FB64KLOMP",
           "FB64CHROM", "FB64LINUX", "FB64PLAIN", "SB64SSE"}]

DecompEntropy == [Case EXCEPT
  !.has  = {"MCPY", "LMCPY", "BCMEC", "FASTAC", "FASTHF", "FPC", "FSC", "FSE", "FSEH", "FQZ0",
           "JAC", "FPAQC", "FREQTAB", "MARLIN", "NANS", "NIBRANS", "PPMDEC", "POLHF",
           "RECIPARITH", "SHRCV", "SHRC", "GANSR", "GANSW", "SSERC", "SUBOTIN", "TORNADOHF"},
  !.work = {"MARLIN"}]

DecompLast == [Case EXCEPT
  !.has  = {"BWTSATAN", "TURBORC", "ZLIBH", "ZRLE", "PIVCOHUF", "PHAZ"}]

Decomp == {DecompA_C, DecompD_K, DecompL_LZH, DecompLZL_LZS, DecompM_O, DecompP_T, DecompU_Z,
           DecompEncoding, DecompEntropy, DecompLast}

DecompIds  == UNION {e.has : e \in Decomp}
DecompWork == UNION {e.work : e \in Decomp}
DecompDies == UNION {e.dies : e \in Decomp}

-----------------------------------------------------------------------------
(* The registry: what a codec on the command line may be.                  *)
PlugsA_W ==
  (AOCL \ {"AOCL_LZ4HC"}) \cup BLOSC \cup LZO \cup OPENZL \cup PCODEC \cup
  {"ACE", "ACEFAST", "BCM", "BPC", "BRIEFLZ", "BROTLI", "BWTSATAN", "BZ2_NG", "BZIP2",
   "BZIP3", "CHAMELEON", "CRLZP", "CSC", "CLICKHOUSE", "DENSITY", "DOBOZ", "FASTLZ",
   "FLZMA2", "GIPFELI", "GLZA", "GLYD", "GLYDP", "HEATSHRINK", "IC", "IGUANA", "ISA_L",
   "KANZI", "LIB", "LIBBSC", "LIBBSCC", "LIBDEFLATE", "LIBLZF", "LIBLZG", "LZRAVEN",
   "LIZARD", "LZ4", "LZ4ULTRA", "LZAV", "LZFSE", "LZFSEA", "LZJODY", "LZHAM", "LZLIB",
   "LZMAT", "LZMA", "LZOMA", "LZSA", "LZSSE2", "LZSSE4", "LZSSE8", "MBROTLI", "MEMLZ",
   "MINIZ", "MISA77", "MISA77S", "MSCOMPRESS", "MWLZ", "MZIP", "MZSTD", "NZ1",
   "OPENZL_TP", "PHAZ", "PITHY", "PULSAR", "PYSAP", "QUICKLZ", "FIRETRAIL", "SHRINKER",
   "SHOCO", "LIBSLZ", "SMAZ", "SNAPPY", "SNAPPY_C", "SMALLZ4", "TAMP", "TCOBS", "TORNADO",
   "TOVYCT", "TSQ", "UNISHOX2", "UNISHOX3", "WFLZ", "WLZ4", "WLZ4FAST", "WLZ4HC", "WZIP"}

PlugsX_Z ==
  {"XPACK", "XZ", "YALZ77", "YAPPY", "ZLIB", "ZLIB_NG", "ZLIB_RS", "ZLIB_TURBO", "ZLING",
   "ZOPFLI", "ZSTD", "ZXC", "ZPAQ", "MCPY", "LMCPY", "AOM", "DAALA", "BCMEC", "FPC",
   "FREQTAB", "FSC", "FSE", "FSEH", "FPAQC", "SHRC", "SHRCV", "FASTHF", "FASTARI",
   "FASTAC", "GANSR", "GANSW", "JAC", "FQZ0", "MARLIN", "NIBRANS", "OODLE", "OODLE_HUF",
   "OODLE_ANS", "PIVCOHUF", "POLHF", "PPMDEC", "RECIPARITH", "SSERC", "SUBOTIN",
   "TORNADOHF", "TURBORC", "ZLIBH", "ZRLE", "RLES", "RLET", "RLEM", "HRLELE", "HRLEM",
   "HRLE", "HRLESH", "HRLEMMTF", "DIVBWT", "LIBBSCBWT", "LIBBSCLZP", "ST", "BRC"}

Plugs == PlugsA_W \cup PlugsX_Z

\* plugreg lets no other codec on; a level is a number, a parameter its letters.
ASSUME CallAssumption ==
  Calls \subseteq [id : Plugs \ {"BPC", "FIRETRAIL"}, lev : Nat, prm : Seq(STRING)]

-----------------------------------------------------------------------------
(* The formats of the cases that have several.  None: the switch over the   *)
(* level has no entry, and the case answers 0.                              *)
None == <<"none">>

RlesFormat(lev)  == IF lev \in {0, 8, 16, 32, 64} THEN <<"rles", lev>> ELSE None
HrleFormat(lev)  == IF lev \in {8, 16, 24, 32, 48, 64} THEN <<"hrle", lev>> ELSE None

(* The width of a number is given by the first u: u1 is a byte, u2 stands for *)
(* the other machine's widths, and the default, u3 for what ends the program. *)
FirstU(prm, u) ==
  \E n \in DOMAIN prm : prm[n] = u /\ \A m \in 1..(n - 1) : prm[m] \notin {"u1", "u2", "u3"}

IcDies(prm) == FirstU(prm, "u3")

(* What encodes numbers wider than a byte leaves out the bytes of the chunk   *)
(* behind the last whole one, and refuses nothing.                            *)
CutsTail(c) ==
  \/ c.id = "IC" /\ ~FirstU(c.prm, "u1")
  \/ c.id \in PCODEC \ {"PCODECI8", "PCODECU8"}
  \/ c.id = "OPENZL_TP" /\ c.lev > 1

(* Decoders that do not restore all of what was encoded: two coders lose a    *)
(* chunk's end, lzjody's case copies a raw block with the header before it.   *)
StopsShort == {"FASTARI", "PPMDEC", "LZJODY"}

(* Level 8 has no break: what rcmsenc writes takes the place of it.  S asks  *)
(* the encoder for 16 bits, s the decoder.                                   *)
TurborcLevels == 1..14 \cup 17..20 \cup {56, 90}
Wide(lev) == lev \in {6, 7, 13, 14}

TurborcWrites(lev, prm) ==
  IF lev \notin TurborcLevels THEN None
  ELSE IF lev = 8 THEN <<"turborc", 9>>
  ELSE IF Wide(lev) /\ Has(prm, "S") THEN <<"turborc", lev, 16>> ELSE <<"turborc", lev>>

TurborcReads(lev, prm) ==
  IF lev \notin TurborcLevels THEN None
  ELSE IF Wide(lev) /\ Has(prm, "s") THEN <<"turborc", lev, 16>> ELSE <<"turborc", lev>>

Lz4Writes(prm) == IF Has(prm, "F") THEN <<"lz4 block">> ELSE <<"lz4 frame">>

(* Mutant: the decoder is not told. *)
Lz4ReadsFrame(prm) == <<"lz4 frame">>

Lz4Reads(prm) == IF Has(prm, "F") THEN <<"lz4 block">> ELSE <<"lz4 frame">>

(* With Z the case goes on into LZ4's; lz4ultra writes LZ4's formats. *)
Lz4ultraWrites(prm) ==
  IF Has(prm, "Z") THEN Lz4Writes(prm)
  ELSE IF Has(prm, "r") THEN <<"lz4 block">> ELSE <<"lz4 frame">>

(* With z it goes on into LZAV's, which stands after it. *)
Lz4ultraReads(prm) ==
  IF Has(prm, "z") THEN <<"LZAV">>
  ELSE IF Has(prm, "r") THEN <<"lz4 block">> ELSE <<"lz4 frame">>

(* The same letters of smallz4 lead into SNAPPY and into SMAZ. *)
Smallz4Writes(prm) == IF Has(prm, "Z") THEN <<"SNAPPY">> ELSE <<"lz4 frame">>
Smallz4Reads(prm)  == IF Has(prm, "z") THEN <<"SMAZ">> ELSE <<"lz4 frame">>

(* libdeflate and slz: the encoder looks for d, then for g, the decoder at   *)
(* the first letter.                                                         *)
DeflateWrites(prm) ==
  IF Has(prm, "d") THEN <<"deflate">> ELSE IF Has(prm, "g") THEN <<"gzip">> ELSE <<"zlib">>
DeflateReads(prm) ==
  IF prm # <<>> /\ prm[1] = "d" THEN <<"deflate">>
  ELSE IF prm # <<>> /\ prm[1] = "g" THEN <<"gzip">> ELSE <<"zlib">>

(* f2 stands for f and a number above 1, f1 for f and another or none: the   *)
(* encoder goes by the first, the decoder by there being one.  A block with  *)
(* a header says which version it is.                                        *)
LzsaSecond(prm) ==
  \E n \in DOMAIN prm : prm[n] = "f2" /\ \A m \in DOMAIN prm : m < n => prm[m] # "f1"
LzsaWrites(prm) ==
  IF Has(prm, "r") THEN <<"lzsa block", IF LzsaSecond(prm) THEN 2 ELSE 1>> ELSE <<"lzsa">>
LzsaReads(prm) ==
  IF Has(prm, "r") THEN <<"lzsa block", IF Has(prm, "f1") \/ Has(prm, "f2") THEN 2 ELSE 1>>
  ELSE <<"lzsa">>

(* The dictionary codstart makes is not used to encode. *)
ZstdReads(prm) == IF Has(prm, "D") THEN <<"ZSTD", "dictionary">> ELSE <<"ZSTD">>

Writes(c) ==
  CASE c.id = "RLES"      -> RlesFormat(c.lev)
    [] c.id = "HRLE"      -> HrleFormat(c.lev)
    [] c.id = "HRLEMMTF"  -> IF c.lev = 128 THEN <<"hrlemmtf">> ELSE None
    [] c.id \in {"DENSITY", "CHAMELEON", "BRC"} -> <<c.id, c.lev>>
    [] c.id = "TURBORC"   -> TurborcWrites(c.lev, c.prm)
    [] c.id \in {"LZ4", "CLICKHOUSE"} -> Lz4Writes(c.prm)
    [] c.id = "LZ4ULTRA"  -> Lz4ultraWrites(c.prm)
    [] c.id = "SMALLZ4"   -> Smallz4Writes(c.prm)
    [] c.id \in {"LIBDEFLATE", "LIBSLZ"} -> DeflateWrites(c.prm)
    [] c.id = "LZSA"      -> LzsaWrites(c.prm)
    [] OTHER              -> <<c.id>>

(* IGUANA's decoder on x86 calls the encoder, CRLZP's ends the program. *)
Reads(c) ==
  CASE c.id = "RLES"      -> RlesFormat(c.lev)
    [] c.id = "HRLE"      -> HrleFormat(c.lev)
    [] c.id = "HRLEMMTF"  -> IF c.lev = 128 THEN <<"hrlemmtf">> ELSE None
    [] c.id \in {"DENSITY", "CHAMELEON", "BRC"} -> <<c.id, c.lev>>
    [] c.id = "TURBORC"   -> TurborcReads(c.lev, c.prm)
    [] c.id = "LZ4"       -> Lz4Reads(c.prm)
    [] c.id = "CLICKHOUSE" -> <<"lz4 block">>
    [] c.id = "LZ4ULTRA"  -> Lz4ultraReads(c.prm)
    [] c.id = "SMALLZ4"   -> Smallz4Reads(c.prm)
    [] c.id \in {"LIBDEFLATE", "LIBSLZ"} -> DeflateReads(c.prm)
    [] c.id = "LZSA"      -> LzsaReads(c.prm)
    [] c.id = "ZSTD"      -> ZstdReads(c.prm)
    [] c.id \in {"IGUANA", "CRLZP"} \/ c.id \notin DecompIds -> None
    [] OTHER              -> <<c.id>>

(* Those that copy what they cannot shrink, and know it by its length. *)
Raw == <<"raw">>
CopiesFull(c) == c.id \in {"FSE", "FSEH"} \/ (c.id = "TURBORC" /\ c.lev < 100)

-----------------------------------------------------------------------------
VARIABLES
  call,              \* the codec, its level and parameter
  opt,               \* [mcpy, cmp]: -P and -C
  pc,                \* "comp", "store", "copy", "decomp", "check", "done"
  i,                 \* the chunk
  len,               \* what codcomp answered: "zero", "huge", "short", "full" (as long
                     \* as the chunk or longer)
  out,               \* what the output buffer holds: [fmt, of, whole], of the chunk it
                     \* came from, and whether of all of it
  cpz,               \* what the copy holds: "chunk", "complement", "other"
  err,               \* plug->err
  lost,              \* history: not all of this chunk can come back: it was refused or cut,
                     \* and not stored as it is, or its decoder stopped short
  ever,              \* history: some chunk was lost
  shows              \* the end: "good", "error", "exit" (-C3), "died"

vars == <<call, opt, pc, i, len, out, cpz, err, lost, ever, shows>>

Holds(fmt, n, whole) == [fmt |-> fmt, of |-> n, whole |-> whole]
Junk == Holds(<<"junk">>, 0, TRUE)
Formats == {Writes(c) : c \in Calls} \cup {Raw, Junk.fmt, <<"copy">>}

TypeOK ==
  /\ call \in Calls /\ opt \in [mcpy : BOOLEAN, cmp : 0..3]
  /\ pc \in {"comp", "store", "copy", "decomp", "check", "done"}
  /\ i \in 1..Chunks + 1 /\ (pc # "done" => i <= Chunks)
  /\ len \in {"zero", "huge", "short", "full"}
  /\ out.fmt \in Formats /\ out.of \in 0..Chunks /\ out.whole \in BOOLEAN
  /\ cpz \in {"chunk", "complement", "other"}
  /\ err \in BOOLEAN /\ lost \in BOOLEAN /\ ever \in BOOLEAN
  /\ shows \in {"running", "good", "error", "exit", "died"}

Init ==
  /\ call \in Calls /\ opt \in [mcpy : BOOLEAN, cmp : 0..3]
  /\ pc = "comp" /\ i = 1 /\ len = "zero" /\ out = Junk /\ cpz = "other"
  /\ err = FALSE /\ lost = FALSE /\ ever = FALSE /\ shows = "running"

Die == pc' = "done" /\ shows' = "died"

(* The library works.  What cannot be shrunk is as long as the chunk. *)
CompWorks ==
  /\ pc = "comp" /\ ~(call.id = "IC" /\ IcDies(call.prm)) /\ Writes(call) # None
  /\ len' \in {"short", "full"}
  /\ \E whole \in BOOLEAN :
       /\ whole \/ CutsTail(call)
       /\ out' = Holds(IF len' = "full" /\ CopiesFull(call) THEN Raw ELSE Writes(call), i, whole)
       /\ lost' = ~whole
  /\ pc' = "store"
  /\ UNCHANGED <<call, opt, i, cpz, err, ever, shows>>

(* It refuses, having written nothing or something; the transforms of bsc   *)
(* work in place on a copy of the chunk.                                    *)
InPlace == {"LIBBSCBWT", "ST"}

Left ==
  IF Class(call.id) = "raw" THEN {Holds(Raw, i, TRUE)}
  ELSE IF call.id \in InPlace THEN {Holds(<<"copy">>, i, TRUE), Junk} ELSE {out, Junk}

CompRefuses ==
  /\ pc = "comp" /\ ~(call.id = "IC" /\ IcDies(call.prm)) /\ Writes(call) # None
  /\ len' \in Answer(call.id) /\ out' \in Left
  /\ lost' = (Class(call.id) # "raw") /\ pc' = "store"
  /\ UNCHANGED <<call, opt, i, cpz, err, ever, shows>>

NoSuchLevel ==
  /\ pc = "comp" /\ ~(call.id = "IC" /\ IcDies(call.prm)) /\ Writes(call) = None
  /\ len' = "zero" /\ lost' = TRUE /\ pc' = "store"
  /\ UNCHANGED <<call, opt, i, out, cpz, err, ever, shows>>

CompDies ==
  /\ pc = "comp" /\ call.id = "IC" /\ IcDies(call.prm)
  /\ Die /\ UNCHANGED <<call, opt, i, len, out, cpz, err, lost, ever>>

NoGain == len # "short"

(* With -P what did not shrink, failures included, is stored as it is. *)
StoreAsIs ==
  /\ pc = "store" /\ opt.mcpy /\ NoGain
  /\ len' = "full" /\ out' = Holds(Raw, i, TRUE) /\ lost' = FALSE /\ pc' = "copy"
  /\ UNCHANGED <<call, opt, i, cpz, err, ever, shows>>

(* Without, 0 leaves the loop with a length of 0, ... *)
StoreNothing ==
  /\ pc = "store" /\ ~opt.mcpy /\ len = "zero"
  /\ pc' = "copy" /\ UNCHANGED <<call, opt, i, len, out, cpz, err, lost, ever, shows>>

(* ... and -1 is a length no buffer has. *)
StoreHuge ==
  /\ pc = "store" /\ ~opt.mcpy /\ len = "huge"
  /\ Die /\ UNCHANGED <<call, opt, i, len, out, cpz, err, lost, ever>>

Store ==
  /\ pc = "store" /\ (len = "short" \/ (len = "full" /\ ~opt.mcpy))
  /\ pc' = "copy" /\ UNCHANGED <<call, opt, i, len, out, cpz, err, lost, ever, shows>>

(* Mutant: the copy starts as the chunk itself. *)
FillSame == "chunk"

(* memrcpy: every byte of the copy differs from the chunk's. *)
Fill == "complement"

Copy ==
  /\ pc = "copy" /\ opt.cmp > 0
  /\ cpz' = Fill /\ pc' = "decomp"
  /\ UNCHANGED <<call, opt, i, len, out, err, lost, ever, shows>>

NoCopy ==
  /\ pc = "copy" /\ opt.cmp = 0
  /\ pc' = "check" /\ UNCHANGED <<call, opt, i, len, out, cpz, err, lost, ever, shows>>

(* The decoder is called unless the chunk was stored as it is; its answer   *)
(* is not looked at.                                                        *)
DecoderCalled == ~(opt.mcpy /\ len = "full")

Fits == out.of = i /\ out.fmt = IF len = "full" /\ CopiesFull(call) THEN Raw ELSE Reads(call)

DecompAsIs ==
  /\ pc = "decomp" /\ ~DecoderCalled
  /\ cpz' = (IF out = Holds(Raw, i, TRUE) THEN "chunk" ELSE "other") /\ pc' = "check"
  /\ UNCHANGED <<call, opt, i, len, out, err, lost, ever, shows>>

DecompWorks ==
  /\ pc = "decomp" /\ DecoderCalled /\ Fits /\ len # "zero" /\ out.whole
  /\ cpz' = "chunk" /\ pc' = "check"
  /\ UNCHANGED <<call, opt, i, len, out, err, lost, ever, shows>>

(* Only the head of the chunk comes back; behind it stays what the copy held. *)
DecompPart ==
  /\ pc = "decomp" /\ DecoderCalled /\ Fits /\ len # "zero"
  /\ ~out.whole \/ call.id \in StopsShort
  /\ cpz' = (IF cpz = "chunk" THEN cpz ELSE "other") /\ lost' = TRUE /\ pc' = "check"
  /\ UNCHANGED <<call, opt, i, len, out, err, ever, shows>>

(* What is not its format the library refuses, having written nothing or    *)
(* something; before that the transforms copy the chunk.                    *)
DecompRefuses ==
  /\ pc = "decomp" /\ DecoderCalled /\ ~(Fits /\ len # "zero") 
  /\ call.id \notin DecompDies \ {"LZJODY"}        \* which may also take junk for a raw block
  /\ cpz' \in {cpz, "other"} \cup (IF out = Holds(<<"copy">>, i, TRUE) THEN {"chunk"} ELSE {})
  /\ pc' = "check"
  /\ UNCHANGED <<call, opt, i, len, out, err, lost, ever, shows>>

DecompDiesOf ==
  /\ pc = "decomp" /\ DecoderCalled /\ ~(Fits /\ len # "zero") /\ call.id \in DecompDies
  /\ Die /\ UNCHANGED <<call, opt, i, len, out, cpz, err, lost, ever>>

(* Mutant: the last chunk decides. *)
KeepLast(e, differs) == differs

(* Line 1995. *)
Keep(e, differs) == e \/ differs

(* Mutant: one chunk too many. *)
LastChunkPast == i > Chunks

LastChunk == i = Chunks

(* memcheck compares above -C1 and ends the program above -C2. *)
Check ==
  /\ pc = "check"
  /\ err' = Keep(err, opt.cmp > 1 /\ cpz # "chunk")
  /\ ever' = (ever \/ lost)
  /\ IF opt.cmp > 2 /\ cpz # "chunk"
     THEN pc' = "done" /\ shows' = "exit" /\ UNCHANGED i
     ELSE /\ i' = i + 1
          /\ IF LastChunk THEN pc' = "done" /\ shows' = IF err' THEN "error" ELSE "good"
             ELSE pc' = "comp" /\ UNCHANGED shows
  /\ UNCHANGED <<call, opt, len, out, cpz, lost>>

Next ==
  \/ CompWorks \/ CompRefuses \/ NoSuchLevel \/ CompDies
  \/ StoreAsIs \/ StoreNothing \/ StoreHuge \/ Store
  \/ Copy \/ NoCopy \/ DecompAsIs \/ DecompWorks \/ DecompPart \/ DecompRefuses \/ DecompDiesOf
  \/ Check

Spec == Init /\ [][Next]_vars

-----------------------------------------------------------------------------
(* Codecs and parameters whose two cases do not agree. *)
Mispaired(c) ==
  LET p == Letters(c.prm)
      first == IF c.prm = <<>> THEN "" ELSE c.prm[1]
  IN \/ c.id \in {"CRLZP", "IGUANA"}
     \/ c.id = "CLICKHOUSE" /\ "F" \notin p
     \/ c.id = "LZ4ULTRA"   /\ ("z" \in p \/ ("Z" \in p /\ ("F" \in p) # ("r" \in p)))
     \/ c.id = "SMALLZ4"    /\ p \cap {"z", "Z"} # {}
     \/ c.id = "TURBORC"    /\ (c.lev = 8 \/ (Wide(c.lev) /\ ("s" \in p) # ("S" \in p)))
     \/ c.id \in {"LIBDEFLATE", "LIBSLZ"} /\ p \cap {"d", "g"} # {} /\ first \notin {"d", "g"}
     \/ c.id \in {"LIBDEFLATE", "LIBSLZ"} /\ first = "g" /\ "d" \in p
     \/ c.id = "LZSA"       /\ {"r", "f1"} \subseteq p /\ ~LzsaSecond(c.prm)
     \/ c.id = "ZSTD"       /\ "D" \in p

(* What codini gives work memory to, and what uses it without being given   *)
(* any: it finds the static 64 KB.                                          *)
WorkGiven == {"BRIEFLZ", "CHAMELEON", "DENSITY", "FASTARI", "LIBSLZ", "LZFSE", "LZFSEA", "LZO1b",
              "LZO1c", "LZRAVEN", "QUICKLZ", "TAMP", "WFLZ"}
Unready == {"LZO1f", "LZO1x", "LZO1y", "LZO1z", "LZO2a", "MARLIN"}

(* A chunk whose encoder worked is given to a decoder that reads what was   *)
(* written, and both find the work memory they use: for every codec, level  *)
(* and parameter but those listed, whose decoder never does.                *)
Served ==
  /\ pc = "decomp" /\ ~lost /\ DecoderCalled =>
       IF Mispaired(call) THEN Fits => out.fmt = Raw ELSE Fits
  /\ call.id \in CompWork \cup DecompWork => (call.id \in WorkGiven <=> call.id \notin Unready)

(* What the program says of a codec that is checked (-C2, the default, or   *)
(* more): good only if every byte of every chunk came back, however its     *)
(* library refused, wherever its case cut or its decoder stopped, and       *)
(* whatever the buffers held from the chunk before.  The transforms of bsc  *)
(* are the exception: refused by encoder and decoder, the chunk comes       *)
(* through untouched and is shown as transformed and restored.  And it is   *)
(* an error, or the end, only if something was lost: a chunk refused, a     *)
(* tail left out (by the calls of CutsTail), an end not restored (by the    *)
(* decoders of StopsShort), a call whose cases do not agree, or a width IC  *)
(* does not take.                                                           *)
Verdict ==
  pc = "done" /\ opt.cmp > 1 =>
    /\ shows = "good" /\ ever => call.id \in InPlace
    /\ shows # "good" => ever \/ lost \/ Mispaired(call) \/ IcDies(call.prm)
=============================================================================

------------------------------ MODULE CodecLife ------------------------------
(***************************************************************************)
(* What a codec is given and gives back: codini before a file, codstart    *)
(* and codend around encoder and decoder, codexit after the file           *)
(* (src/plugin.cc 2228-2455), and the state the wrappers themselves make   *)
(* on their first call.  All of it is static, shared by the codecs of a    *)
(* run.                                                                    *)
(*                                                                         *)
(* A codec is [kind, ask]: the case of codini's switch it stands for and   *)
(* the work memory its library asks for.  Kinds with a case that only      *)
(* sets workmemsize are "sized": BRIEFLZ, CHAMELEON, FASTARI, LZFSE,       *)
(* LZFSEA, LZO1b, LZO1c, LZRAVEN, QUICKLZ (the largest of its six          *)
(* settings), TAMP and WFLZ.  DENSITY and LIBSLZ have no break: they are   *)
(* given what FASTARI and LZFSE ask for.                                   *)
(***************************************************************************)
EXTENDS Naturals

CONSTANTS
  WorkStatic,        \* bytes of _workmem: 2^16
  FA_WORKMEM,        \* what FASTARI asks for
  ScratchSize        \* what LZFSE asks for

ASSUME LifeAssumption == WorkStatic \in Nat /\ FA_WORKMEM \in Nat /\ ScratchSize \in Nat

VARIABLES
  workmem,           \* "static" or "heap"
  worklen,           \* bytes workmem has
  workmemsize,
  dict,              \* of "c" (cdictPtr), "d" (ddictPtr): NULL or the codec it was made for
  handle,            \* aocl, env, wlz4st, wlz4hcst: which exist
  tables,            \* kinds whose static tables have been filled
  alive              \* neither codini nor codstart has ended the program

lifeVars == <<workmem, worklen, workmemsize, dict, handle, tables, alive>>

NULL == [kind |-> "NULL", ask |-> 0]
Handles == {"aocl", "env", "wlz4st", "wlz4hcst"}

LifeInit ==
  /\ workmem = "static" /\ worklen = WorkStatic /\ workmemsize = 0
  /\ dict = [c |-> NULL, d |-> NULL] /\ handle = {} /\ tables = {} /\ alive = TRUE

LifeTypeOK ==
  /\ workmem \in {"static", "heap"} /\ worklen \in Nat /\ workmemsize \in Nat
  /\ handle \subseteq Handles /\ alive \in BOOLEAN

(* The labels after case P_LZO1c are not cases: LZO1f, LZO1x, LZO1y, LZO1z *)
(* and LZO2a come to the end of the switch.  Nothing ever builds MARLIN's  *)
(* dictionary (3483) or creates FIRETRAIL's coders (2360).                 *)
Unprepared == {"lzolabel", "marlin", "firetrail"}

WorkSize(c) ==
  CASE c.kind = "sized"   -> c.ask
    [] c.kind = "density" -> FA_WORKMEM
    [] c.kind = "libslz"  -> ScratchSize
    [] OTHER              -> 0

(* aocl_llc_setup, snappy_init_env: taken here, given back by codexit. *)
SetUp(kind) == CASE kind = "aocl" -> {"aocl"} [] kind = "snappy_c" -> {"env"} [] OTHER -> {}

(* bsc_init, slz tables, lzo_init, the Oodle library, YappyFillTables and  *)
(* vrange_init: filled once, kept to the end.                              *)
Tables(kind) == IF kind \in {"libslz", "tables"} THEN {kind} ELSE {}

codini(c) ==
  /\ workmemsize' = WorkSize(c)
  /\ handle' = handle \cup SetUp(c.kind) /\ tables' = tables \cup Tables(c.kind)
  /\ UNCHANGED dict
  /\ \/ /\ workmemsize' <= WorkStatic /\ UNCHANGED <<workmem, worklen, alive>>
     \/ /\ workmemsize' > WorkStatic
        /\ workmem' = "heap" /\ worklen' = workmemsize' /\ UNCHANGED alive
     \/ /\ workmemsize' > WorkStatic \/ c.kind = "aocl"   \* calloc or the setup fails
        /\ alive' = FALSE /\ UNCHANGED <<workmem, worklen>>

(* The dictionary of a direction is made when it does not exist; if its    *)
(* file cannot be read the program ends.                                   *)
codstart(c, side) ==
  /\ IF c.kind = "zstd_dict" /\ dict[side] = NULL
     THEN \/ dict' = [dict EXCEPT ![side] = c] /\ UNCHANGED alive
          \/ alive' = FALSE /\ UNCHANGED dict
     ELSE UNCHANGED <<dict, alive>>
  /\ UNCHANGED <<workmem, worklen, workmemsize, handle, tables>>

(* WLZ4's states are made by the first call of codcomp that needs them; a  *)
(* wrapper that is refused its state returns 0.                            *)
FirstCall(c) ==
  /\ handle' = handle \cup (IF c.kind \in {"wlz4st", "wlz4hcst"} THEN {c.kind} ELSE {})
  /\ UNCHANGED <<workmem, worklen, workmemsize, dict, tables, alive>>

(* Mutant: the pointers stay when the dictionaries are freed for the       *)
(* codecs that made them only.                                             *)
codendKeeps(c) ==
  /\ dict' = IF c.kind = "zstd" THEN [s \in DOMAIN dict |-> NULL] ELSE dict
  /\ UNCHANGED <<workmem, worklen, workmemsize, handle, tables, alive>>

codend(c) ==
  /\ dict' = IF c.kind \in {"zstd", "zstd_dict"} THEN [s \in DOMAIN dict |-> NULL] ELSE dict
  /\ UNCHANGED <<workmem, worklen, workmemsize, handle, tables, alive>>

GivenBack(kind) ==
  CASE kind = "aocl" -> {"aocl"} [] kind = "snappy_c" -> {"env"}
    [] kind \in {"wlz4st", "wlz4hcst"} -> {kind} [] OTHER -> {}

(* Mutant: freed, but still pointed at. *)
codexitDangling(c) ==
  /\ IF workmem = "heap" THEN worklen' = 0 /\ UNCHANGED handle
     ELSE handle' = handle \ GivenBack(c.kind) /\ UNCHANGED worklen
  /\ UNCHANGED <<workmem, workmemsize, dict, tables, alive>>

(* Work memory that was allocated is freed; the handles are looked at only *)
(* when there was none.                                                    *)
codexit(c) ==
  /\ IF workmem = "heap"
     THEN workmem' = "static" /\ worklen' = WorkStatic /\ UNCHANGED handle
     ELSE handle' = handle \ GivenBack(c.kind) /\ UNCHANGED <<workmem, worklen>>
  /\ UNCHANGED <<workmemsize, dict, tables, alive>>

-----------------------------------------------------------------------------
(* What codcomp and coddecomp may count on while they run for c.  side is  *)
(* the direction.  DENSITY does not use the work memory it is given.       *)
Prepared(c, side) ==
  c.kind \notin Unprepared =>
    /\ c.ask <= worklen
    /\ SetUp(c.kind) \subseteq handle /\ Tables(c.kind) \subseteq tables
    /\ c.kind = "zstd_dict" => dict[side] = c

(* Between two files nothing is held but static memory and tables. *)
NothingHeld ==
  /\ workmem = "static" /\ worklen = WorkStatic
  /\ dict = [c |-> NULL, d |-> NULL] /\ handle = {}
=============================================================================

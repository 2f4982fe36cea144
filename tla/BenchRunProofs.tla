--------------------------- MODULE BenchRunProofs ---------------------------
(***************************************************************************)
(* For all command lines, codecs, files and results: the types of BenchRun, *)
(* that a codec finds what it needs and leaves nothing behind, that the     *)
(* counters of the malloc family are right whatever its threads do, and     *)
(* that what stands in the table is what the codec's chunks came to.        *)
(***************************************************************************)
EXTENDS BenchRun, DataInduction, SequenceTheorems

-----------------------------------------------------------------------------
(* Types.  A thread in the malloc family holds numbers; the counters are    *)
(* never negative because mem_sub stops at 0.                               *)

Ops   == {"idle", "malloc", "recount", "free", "realloc"}
Steps == {"load", "store", "compare", "keep", "system"}
ThreadOK ==
  thr \in [Thread -> [op : Ops, step : Steps, b : Block \cup {NoBlock}, n : Nat, reg : Nat]]
MemInv == MemTypeOK /\ ThreadOK

\* The larger of two numbers is a number, of an integer and 0 too.
LEMMA LargerNat == ASSUME NEW a \in Int, NEW b \in Nat PROVE Larger(a, b) \in Nat
BY DEF Larger

LEMMA IdleOK == Idle \in [op : Ops, step : Steps, b : Block \cup {NoBlock}, n : Nat, reg : Nat]
BY DEF Idle, Ops, Steps

LEMMA MemInitOK == MemInit => MemInv
BY IdleOK, MemAssumption DEF MemInit, MemInv, MemTypeOK, ThreadOK, Idle

\* Opening a window keeps the types.
LEMMA WindowOK == ASSUME MemInv, OpenWindow PROVE MemInv'
<1>1. /\ DOMAIN heap' \subseteq Block
      /\ heap' \in [DOMAIN heap' -> [size : Size, win : BOOLEAN]]
  BY DEF OpenWindow, MemInv, MemTypeOK
<1>2. UNCHANGED thr /\ used' \in Nat /\ peak' \in Nat /\ mark' \in Nat
  BY MemAssumption DEF OpenWindow, mempeakinit, stackini
<1> QED
  BY <1>1, <1>2 DEF MemInv, MemTypeOK, ThreadOK

LEMMA TouchOK == ASSUME NEW d \in Nat, MemInv, Touch(d) PROVE MemInv'
BY LargerNat DEF MemInv, MemTypeOK, ThreadOK, Touch

\* A call of the family begins with a block and a number.
LEMMA BeginOK == ASSUME NEW t \in Thread, MemInv, Begin(t) PROVE MemInv'
<1> USE DEF MemInv
<1>1. ASSUME NEW b \in Block, NEW n \in Size, malloc(t, b, n) PROVE MemInv'
  <2>1. thr' \in [Thread -> [op : Ops, step : Steps, b : Block \cup {NoBlock}, n : Nat, reg : Nat]]
    BY <1>1, MemAssumption DEF malloc, Enter, ThreadOK, Ops, Steps
  <2>2. DOMAIN heap' = DOMAIN heap \cup {b}
        /\ heap' \in [DOMAIN heap' -> [size : Size, win : BOOLEAN]]
    BY <1>1 DEF malloc, MemTypeOK
  <2> QED
    BY <1>1, <2>1, <2>2 DEF malloc, MemTypeOK, ThreadOK, Ops, Steps
<1>2. ASSUME NEW b \in Block, NEW op \in {"free", "realloc"}, free(t, b, op) PROVE MemInv'
  <2>1. heap[b].size \in Nat
    BY <1>2, MemAssumption DEF free, MemTypeOK
  <2>2. thr' \in [Thread -> [op : Ops, step : Steps, b : Block \cup {NoBlock}, n : Nat, reg : Nat]]
    BY <1>2, <2>1 DEF free, Enter, ThreadOK, Ops, Steps
  <2> QED
    BY <1>2, <2>2 DEF free, MemTypeOK, ThreadOK, Ops, Steps
<1>3. ASSUME NEW n \in Size, recount(t, n) PROVE MemInv'
  <2>1. thr' \in [Thread -> [op : Ops, step : Steps, b : Block \cup {NoBlock}, n : Nat, reg : Nat]]
    BY <1>3, MemAssumption DEF recount, Enter, ThreadOK, Ops, Steps
  <2> QED
    BY <1>3, <2>1 DEF recount, MemTypeOK, ThreadOK, Ops, Steps
<1> QED
  BY <1>1, <1>2, <1>3 DEF Begin

\* So does every step of one.
LEMMA GoOK == ASSUME NEW t \in Thread, MemInv, Go(t) PROVE MemInv'
<1> USE DEF MemInv
<1> DEFINE Frame == [op : Ops, step : Steps, b : Block \cup {NoBlock}, n : Nat, reg : Nat]
<1>0. thr \in [Thread -> Frame] /\ thr[t] \in Frame /\ used \in Nat /\ peak \in Nat
  BY DEF ThreadOK, MemTypeOK
<1>1. ASSUME thr' \in [Thread -> Frame], used' \in Nat, peak' \in Nat, UNCHANGED <<heap, mark>>
      PROVE MemInv'
  BY <1>1 DEF MemTypeOK, ThreadOK, Ops, Steps
<1>2. CASE Load(t)
  <2>1. thr' \in [Thread -> Frame]
    BY <1>0, <1>2 DEF Load, Steps
  <2> QED
    BY <1>0, <1>1, <1>2, <2>1 DEF Load
<1>3. CASE StoreAdd(t)
  <2>1. thr[t].reg + thr[t].n \in Nat
    BY <1>0
  <2>2. used' \in Nat /\ peak' \in Nat
    BY <1>0, <1>3, <2>1 DEF StoreAdd, mem_add
  <2>3. thr' \in [Thread -> Frame]
    BY <1>0, <1>3, <2>1 DEF StoreAdd, mem_add, Steps
  <2> QED
    BY <1>1, <1>3, <2>2, <2>3 DEF StoreAdd, Store
<1>4. CASE StoreSub(t)
  <2>1. thr[t].reg - thr[t].n \in Int
    BY <1>0
  <2>2. used' \in Nat /\ peak' \in Nat
    BY <1>0, <1>4, <2>1, LargerNat DEF StoreSub, mem_sub
  <2>3. thr' \in [Thread -> Frame]
    BY <1>0, <1>4 DEF StoreSub, Steps
  <2> QED
    BY <1>1, <1>4, <2>2, <2>3 DEF StoreSub, Store
<1>5. CASE Release(t)
  <2>1. thr' \in [Thread -> Frame]
    BY <1>0, <1>5, IdleOK DEF Release
  <2>2. /\ DOMAIN heap' \subseteq Block
        /\ heap' \in [DOMAIN heap' -> [size : Size, win : BOOLEAN]]
    BY <1>5 DEF Release, MemTypeOK
  <2> QED
    BY <1>5, <2>1, <2>2 DEF Release, MemTypeOK, ThreadOK, Ops, Steps
<1>6. ASSUME NEW n \in Size, Resize(t, n) PROVE MemInv'
  <2>1. thr' \in [Thread -> Frame]
    BY <1>0, <1>6, MemAssumption DEF Resize, Ops, Steps
  <2>2. /\ DOMAIN heap' \subseteq Block
        /\ heap' \in [DOMAIN heap' -> [size : Size, win : BOOLEAN]]
    BY <1>6 DEF Resize, MemTypeOK
  <2> QED
    BY <1>6, <2>1, <2>2 DEF Resize, MemTypeOK, ThreadOK, Ops, Steps
<1>7. CASE Refuse(t)
  <2>1. thr' \in [Thread -> Frame]
    BY <1>0, <1>7, IdleOK DEF Refuse
  <2> QED
    BY <1>0, <1>1, <1>7, <2>1 DEF Refuse
<1>8. CASE Compare(t)
  <2>1. thr' \in [Thread -> Frame]
    BY <1>0, <1>8, IdleOK DEF Compare, Steps
  <2> QED
    BY <1>0, <1>1, <1>8, <2>1 DEF Compare
<1>9. CASE Keep(t)
  <2>1. thr' \in [Thread -> Frame]
    BY <1>0, <1>9, IdleOK DEF Keep
  <2> QED
    BY <1>0, <1>1, <1>9, <2>1 DEF Keep
<1> QED
  BY <1>2, <1>3, <1>4, <1>5, <1>6, <1>7, <1>8, <1>9 DEF Go

-----------------------------------------------------------------------------
(* Where main is: a codec of the command line, and while a file is worked   *)
(* on one of its files.                                                     *)

InCodec == {"file", "ini", "read", "enc", "encRun", "cmp", "dec", "decRun", "close", "add"}
InFile  == InCodec \ {"file"}
Position ==
  /\ pc \in InCodec => k <= Len(argv.plug)
  /\ pc \in InFile => fno <= Len(argv.files)
  /\ ins \in Seq(Int)
TypeInv == TypeOK /\ MemInv /\ Position

\* What a command line gives: codecs that ask for a number of bytes, and files.
LEMMA LineOK == ASSUME NEW r \in Runs
                PROVE  /\ Len(r.plug) \in Nat \ {0} /\ Len(r.files) \in Nat \ {0}
                       /\ \A i \in 1..Len(r.plug) : r.plug[i] \in [kind : STRING, ask : Nat]
<1>1. r.plug \in Seq([kind : STRING, ask : Nat]) \ {<<>>} /\ r.files \in Seq(Nat) \ {<<>>}
  BY RunAssumption
<1>2. ASSUME NEW S, NEW s \in Seq(S) \ {<<>>} PROVE Len(s) \in Nat \ {0} /\ \A i \in 1..Len(s) : s[i] \in S
  OBVIOUS
<1> QED
  BY <1>1, <1>2

LEMMA CodecOK == ASSUME TypeInv, pc \in InCodec
                 PROVE  /\ Codec \in [kind : STRING, ask : Nat]
                        /\ Codec.kind # "sized" => Codec.ask <= WorkStatic
<1>1. argv \in Runs /\ Len(argv.plug) \in Nat /\ k \in 1..Len(argv.plug)
  BY LineOK DEF TypeInv, TypeOK, Position
<1>2. argv.plug \in Seq([kind : STRING, ask : Nat]) /\ k \in DOMAIN argv.plug
  BY <1>1, RunAssumption
<1>3. Codec \in [kind : STRING, ask : Nat]
  BY <1>1, LineOK DEF Codec
<1> QED
  BY <1>1, <1>2, <1>3, RunAssumption DEF Codec

LEMMA CountOK == ASSUME NEW s \in Seq(Int), NEW i \in 1..Len(s), NEW n \in Int
                 PROVE  [s EXCEPT ![i] = n] \in Seq(Int) /\ Len([s EXCEPT ![i] = n]) = Len(s)
BY ExceptSeq

\* What a codec asks for is a number, and all it sets up is a handle.
LEMMA WorkNat == ASSUME NEW c \in [kind : STRING, ask : Nat] PROVE WorkSize(c) \in Nat
BY LifeAssumption DEF WorkSize

LEMMA LifeOK ==
  ASSUME LifeTypeOK, NEW c \in [kind : STRING, ask : Nat]
  PROVE  /\ codini(c) => LifeTypeOK'
         /\ \A side \in {"c", "d"} : codstart(c, side) => LifeTypeOK'
         /\ FirstCall(c) => LifeTypeOK'
         /\ codend(c) => LifeTypeOK'
         /\ codexit(c) => LifeTypeOK'
<1> USE DEF LifeTypeOK
<1>1. codini(c) => LifeTypeOK'
  BY WorkNat DEF codini, SetUp, Handles
<1>2. \A side \in {"c", "d"} : codstart(c, side) => LifeTypeOK'
  BY DEF codstart
<1>3. FirstCall(c) => LifeTypeOK'
  BY DEF FirstCall, Handles
<1>4. codend(c) => LifeTypeOK'
  BY DEF codend
<1>5. codexit(c) => LifeTypeOK'
  BY LifeAssumption DEF codexit
<1> QED
  BY <1>1, <1>2, <1>3, <1>4, <1>5

\* The program starts with its types right.
LEMMA TypeInit == Init => TypeInv
<1> SUFFICES ASSUME Init PROVE TypeInv
  OBVIOUS
<1>1. MemInv
  BY MemInitOK DEF Init
<1>2. LifeTypeOK
  BY LifeAssumption DEF Init, LifeInit, LifeTypeOK
<1>3. Len(argv.plug) \in Nat \ {0} /\ Len(argv.files) \in Nat \ {0}
  BY LineOK DEF Init
<1> QED
  BY <1>1, <1>2, <1>3 DEF Init, TypeInv, TypeOK, MemInv, Position, InCodec, InFile

\* Every step keeps them.
LEMMA TypeNext == TypeInv /\ [Next]_vars => TypeInv'
<1> SUFFICES ASSUME TypeInv, [Next]_vars PROVE TypeInv'
  OBVIOUS
<1>0. /\ argv \in Runs /\ Len(argv.plug) \in Nat \ {0} /\ Len(argv.files) \in Nat \ {0}
      /\ k \in 1..Len(argv.plug) + 1 /\ fno \in 1..Len(argv.files) + 1
      /\ totinlen \in Nat /\ ins \in Seq(Int) /\ Len(ins) \in Nat
  BY LineOK DEF TypeInv, TypeOK, Position
<1> DEFINE Main ==
      /\ argv \in Runs /\ k \in 1..Len(argv.plug) + 1 /\ fno \in 1..Len(argv.files) + 1
      /\ pc \in InCodec \cup {"codec", "report", "exit"}
      /\ now \in Result \cup {None} /\ totinlen \in Nat
      /\ pc # "exit" => Len(ins) = IF pc \in {"codec", "report"} THEN k - 1 ELSE k
      /\ Position
<1> USE <1>0 DEF Position, InCodec, InFile
<1>a. MemInv /\ LifeTypeOK /\ Main
  BY DEF TypeInv, TypeOK
<1>b. MemInv' /\ LifeTypeOK' /\ Main' => TypeInv'
  BY DEF TypeInv, TypeOK, MemInv
<1>m. UNCHANGED memVars => MemInv'
  BY <1>a DEF memVars, MemInv, MemTypeOK, ThreadOK
<1>l. UNCHANGED lifeVars => LifeTypeOK'
  BY <1>a DEF lifeVars, LifeTypeOK
<1>c. pc \in InCodec => Codec \in [kind : STRING, ask : Nat]
  BY CodecOK
<1>r. \A r \in Result : r.deep \in Nat
  BY RunAssumption
<1>1. CASE StartCodec
  <2>1. MemInv' /\ LifeTypeOK'
    BY <1>a, <1>1, <1>m, <1>l DEF StartCodec, Fresh
  <2>2. Main'
    BY <1>a, <1>1 DEF StartCodec, Fresh
  <2> QED
    BY <1>b, <2>1, <2>2
<1>2. CASE EndCodecs
  <2>1. MemInv' /\ LifeTypeOK'
    BY <1>a, <1>2, <1>m, <1>l DEF EndCodecs
  <2>2. Main'
    BY <1>a, <1>2 DEF EndCodecs
  <2> QED
    BY <1>b, <2>1, <2>2
<1>3. CASE File
  <2>1. MemInv' /\ LifeTypeOK'
    BY <1>a, <1>3, <1>m, <1>l DEF File
  <2>2. ins' \in Seq(Int) /\ Len(ins') = Len(ins)
    <3>1. k \in 1..Len(ins) /\ -1 \in Int /\ ins' \in {ins, [ins EXCEPT ![k] = -1]}
      BY <1>a, <1>3 DEF File
    <3>2. ASSUME NEW n \in Int PROVE LET new == [ins EXCEPT ![k] = n] IN new \in Seq(Int) /\ Len(new) = Len(ins)
      BY <3>1, CountOK
    <3> QED
      BY <3>1, <3>2
  <2>3. Main'
    BY <1>a, <1>3, <2>2 DEF File
  <2> QED
    BY <1>b, <2>1, <2>3
<1>4. CASE EndFiles
  <2>1. MemInv' /\ LifeTypeOK'
    BY <1>a, <1>4, <1>m, <1>l DEF EndFiles
  <2>2. Main'
    BY <1>a, <1>4 DEF EndFiles
  <2> QED
    BY <1>b, <2>1, <2>2
<1>5. CASE Ini
  <2>1. MemInv' /\ LifeTypeOK'
    BY <1>a, <1>5, <1>m, <1>c, LifeOK DEF Ini
  <2>2. Main'
    BY <1>a, <1>5 DEF Ini
  <2> QED
    BY <1>b, <2>1, <2>2
<1>6. CASE Read
  <2>1. MemInv' /\ LifeTypeOK'
    BY <1>a, <1>6, <1>c, WindowOK, LifeOK DEF Read
  <2>2. ins' \in Seq(Int) /\ Len(ins') = Len(ins)
    <3>1. k \in 1..Len(ins) /\ ins[k] \in Int
      BY <1>a, <1>6 DEF Read
    <3>2. ins[k] + 1 \in Int
      BY <3>1
    <3>3. ins' \in {ins, [ins EXCEPT ![k] = ins[k] + 1]}
      BY <1>6 DEF Read
    <3>4. ASSUME NEW n \in Int PROVE LET new == [ins EXCEPT ![k] = n] IN new \in Seq(Int) /\ Len(new) = Len(ins)
      BY <3>1, CountOK
    <3> QED
      BY <3>2, <3>3, <3>4
  <2>3. Main'
    BY <1>a, <1>6, <2>2 DEF Read
  <2> QED
    BY <1>b, <2>1, <2>3
<1>7. CASE EndOfFile
  <2>1. MemInv' /\ LifeTypeOK'
    BY <1>a, <1>7, <1>m, <1>l DEF EndOfFile
  <2>2. Main'
    BY <1>a, <1>7 DEF EndOfFile
  <2> QED
    BY <1>b, <2>1, <2>2
<1>8. CASE CallEncoder
  <2>1. MemInv' /\ LifeTypeOK'
    BY <1>a, <1>8, <1>c, <1>r, TouchOK, LifeOK DEF CallEncoder
  <2>2. Main'
    BY <1>a, <1>8 DEF CallEncoder
  <2> QED
    BY <1>b, <2>1, <2>2
<1>9. CASE CallDecoder
  <2>1. MemInv' /\ LifeTypeOK'
    BY <1>a, <1>9, <1>l, <1>r, TouchOK DEF CallDecoder
  <2>2. Main'
    BY <1>a, <1>9 DEF CallDecoder
  <2> QED
    BY <1>b, <2>1, <2>2
<1>10. CASE Allocate
  <2>1. MemInv' /\ LifeTypeOK'
    BY <1>a, <1>10, <1>l, BeginOK, GoOK DEF Allocate
  <2>2. Main'
    BY <1>a, <1>10 DEF Allocate
  <2> QED
    BY <1>b, <2>1, <2>2
<1>11. CASE EndEncode
  <2>1. MemInv' /\ LifeTypeOK'
    BY <1>a, <1>11, <1>m, <1>c, LifeOK DEF EndEncode
  <2>2. Main'
    BY <1>a, <1>11 DEF EndEncode
  <2> QED
    BY <1>b, <2>1, <2>2
<1>12. CASE StartDecode
  <2>1. MemInv' /\ LifeTypeOK'
    BY <1>a, <1>12, <1>c, WindowOK, LifeOK DEF StartDecode
  <2>2. Main'
    BY <1>a, <1>12 DEF StartDecode
  <2> QED
    BY <1>b, <2>1, <2>2
<1>13. CASE EndDecode
  <2>1. MemInv' /\ LifeTypeOK'
    BY <1>a, <1>13, <1>m, <1>c, LifeOK DEF EndDecode
  <2>2. Main'
    BY <1>a, <1>13 DEF EndDecode
  <2> QED
    BY <1>b, <2>1, <2>2
<1>14. CASE CloseFile
  <2>1. MemInv' /\ LifeTypeOK'
    BY <1>a, <1>14, <1>m, <1>c, LifeOK DEF CloseFile
  <2>2. Main'
    BY <1>a, <1>14 DEF CloseFile
  <2> QED
    BY <1>b, <2>1, <2>2
<1>15. CASE AddFile
  <2>1. MemInv' /\ LifeTypeOK'
    BY <1>a, <1>15, <1>m, <1>l DEF AddFile
  <2>2. Main'
    BY <1>a, <1>15 DEF AddFile
  <2> QED
    BY <1>b, <2>1, <2>2
<1>16. CASE UNCHANGED vars
  <2>1. MemInv' /\ LifeTypeOK'
    BY <1>a, <1>16, <1>m, <1>l DEF vars, runVars
  <2>2. Main'
    BY <1>a, <1>16 DEF vars, runVars
  <2> QED
    BY <1>b, <2>1, <2>2
<1> QED
  BY <1>1, <1>2, <1>3, <1>4, <1>5, <1>6, <1>7, <1>8, <1>9, <1>10, <1>11, <1>12, <1>13,
     <1>14, <1>15, <1>16 DEF Next

(* Every variable of the benchmark loop keeps its type, however many codecs, *)
(* files and threads there are.                                              *)
THEOREM TypeCorrect == Spec => []TypeOK
<1>1. Spec => []TypeInv
  BY TypeInit, TypeNext, PTL DEF Spec
<1> QED
  BY <1>1, PTL DEF TypeInv

-----------------------------------------------------------------------------
(* The life of a codec.  Between files nothing is held.  From codini to     *)
(* codexit the work memory is the static one or exactly what was asked for, *)
(* the handles are those codexit gives back, and a dictionary exists only   *)
(* while the direction runs that it was made for.                           *)

Between == {"codec", "file", "ini", "add", "report"}
During  == {"read", "enc", "encRun", "cmp", "dec", "decRun", "close"}
NoDict  == [c |-> NULL, d |-> NULL]
DictOf(c) == [NoDict EXCEPT ![IF pc \in {"enc", "encRun"} THEN "c" ELSE "d"] = c]

WorkGiven(c) ==
  \/ WorkSize(c) <= WorkStatic /\ workmem = "static" /\ worklen = WorkStatic
  \/ WorkSize(c) > WorkStatic /\ workmem = "heap" /\ worklen = WorkSize(c)
HandlesGiven(c) ==
  SetUp(c.kind) \subseteq handle /\ handle \subseteq GivenBack(c.kind)
LifeInv ==
  /\ pc \in Between => NothingHeld
  /\ pc \in During => /\ WorkGiven(Codec) /\ HandlesGiven(Codec)
                      /\ Tables(Codec.kind) \subseteq tables
  /\ pc \in {"read", "cmp", "close"} => dict = NoDict
  /\ pc \in {"enc", "encRun", "dec", "decRun"} =>
       dict = IF Codec.kind = "zstd_dict" THEN DictOf(Codec) ELSE NoDict

\* A codec that is given work memory of its own has no handle.
LEMMA WorkOrHandle ==
  ASSUME NEW c \in [kind : STRING, ask : Nat], WorkSize(c) > WorkStatic
  PROVE  GivenBack(c.kind) = {}
BY LifeAssumption DEF WorkSize, GivenBack

\* codini sets a codec up, or ends the program.
LEMMA IniGives ==
  ASSUME NEW c \in [kind : STRING, ask : Nat], NothingHeld, codini(c), alive'
  PROVE  /\ WorkGiven(c)' /\ HandlesGiven(c)' /\ Tables(c.kind) \subseteq tables'
         /\ dict' = NoDict
<1>1. WorkGiven(c)'
  BY DEF codini, NothingHeld, WorkGiven
<1>2. HandlesGiven(c)'
  BY DEF codini, NothingHeld, HandlesGiven, SetUp, GivenBack
<1> QED
  BY <1>1, <1>2 DEF codini, NothingHeld, NoDict

\* codexit gives all of it back.
LEMMA ExitTakes ==
  ASSUME NEW c \in [kind : STRING, ask : Nat], WorkGiven(c), HandlesGiven(c), dict = NoDict,
         codexit(c)
  PROVE  NothingHeld'
<1>1. CASE workmem = "heap"
  <2>1. handle = {}
    BY <1>1, WorkOrHandle DEF WorkGiven, HandlesGiven
  <2> QED
    BY <1>1, <2>1 DEF codexit, NothingHeld, NoDict
<1>2. CASE workmem # "heap"
  BY <1>2 DEF codexit, NothingHeld, WorkGiven, HandlesGiven, NoDict
<1> QED
  BY <1>1, <1>2

\* Neither the dictionaries nor the first call change the rest.
LEMMA StaysGiven ==
  ASSUME NEW c \in [kind : STRING, ask : Nat], WorkGiven(c), HandlesGiven(c),
         Tables(c.kind) \subseteq tables, UNCHANGED <<workmem, worklen, tables>>,
         handle' \in {handle, handle \cup GivenBack(c.kind)}
  PROVE  WorkGiven(c)' /\ HandlesGiven(c)' /\ Tables(c.kind) \subseteq tables'
BY DEF WorkGiven, HandlesGiven

LEMMA LifeStart == Init => LifeInv
BY DEF Init, LifeInit, LifeInv, NothingHeld, Between, During

\* Every step of the loop keeps the life of the codec in order.
LEMMA LifeNext == TypeInv /\ LifeInv /\ [Next]_vars => LifeInv'
<1> SUFFICES ASSUME TypeInv, LifeInv, [Next]_vars PROVE LifeInv'
  OBVIOUS
<1>c. pc \in InCodec => Codec \in [kind : STRING, ask : Nat]
  BY CodecOK
<1>u. ASSUME UNCHANGED lifeVars
      PROVE  /\ NothingHeld => NothingHeld'
             /\ \A c : WorkGiven(c) => WorkGiven(c)'
             /\ \A c : HandlesGiven(c) => HandlesGiven(c)'
             /\ UNCHANGED <<dict, tables>>
  BY <1>u DEF lifeVars, NothingHeld, WorkGiven, HandlesGiven
<1> USE DEF Between, During, InCodec
<1>1. CASE StartCodec \/ EndCodecs \/ File \/ EndFiles \/ AddFile
  BY <1>1, <1>u DEF StartCodec, EndCodecs, File, EndFiles, AddFile, LifeInv
<1>2. CASE Ini
  <2>1. pc = "ini" /\ Codec' = Codec /\ NothingHeld /\ codini(Codec)
        /\ pc' = IF alive' THEN "read" ELSE "exit"
    BY <1>2 DEF Ini, LifeInv, Codec
  <2> QED
    BY <1>c, <2>1, IniGives DEF LifeInv
<1>3. CASE Read \/ StartDecode
  <2>1. ASSUME NEW side \in {"c", "d"}, codstart(Codec, side), dict = NoDict, pc \in During,
               pc' \in {IF alive' THEN (IF side = "c" THEN "enc" ELSE "dec") ELSE "exit"},
               UNCHANGED <<argv, k>>
        PROVE  LifeInv'
    <3>1. Codec' = Codec /\ Codec \in [kind : STRING, ask : Nat]
      BY <1>c, <2>1 DEF Codec
    <3>2. UNCHANGED <<workmem, worklen, tables, handle>>
      BY <2>1 DEF codstart
    <3>3. WorkGiven(Codec)' /\ HandlesGiven(Codec)' /\ Tables(Codec.kind) \subseteq tables'
      BY <2>1, <3>1, <3>2, StaysGiven DEF LifeInv, WorkGiven, HandlesGiven
    <3>4. alive' => dict' = IF Codec.kind = "zstd_dict" THEN [NoDict EXCEPT ![side] = Codec]
                            ELSE NoDict
      <4>1. dict[side] = NULL
        BY <2>1 DEF NoDict
      <4>2. CASE Codec.kind = "zstd_dict"
        BY <2>1, <4>1, <4>2, Zenon DEF codstart
      <4>3. CASE Codec.kind # "zstd_dict"
        BY <2>1, <4>3 DEF codstart
      <4> QED
        BY <4>2, <4>3
    <3> QED
      BY <2>1, <3>1, <3>3, <3>4 DEF LifeInv, DictOf
  <2> QED
    BY <1>3, <2>1 DEF Read, StartDecode, LifeInv
<1>4. CASE EndOfFile \/ CallDecoder \/ Allocate
  <2>1. Codec' = Codec /\ UNCHANGED lifeVars
    BY <1>4 DEF EndOfFile, CallDecoder, Allocate, Codec
  <2> QED
    BY <1>4, <1>u, <2>1 DEF EndOfFile, CallDecoder, Allocate, LifeInv, DictOf
<1>5. CASE CallEncoder
  <2>1. Codec' = Codec /\ pc = "enc" /\ pc' = "encRun" /\ UNCHANGED <<workmem, worklen, tables, dict>>
    BY <1>5 DEF CallEncoder, FirstCall, Codec
  <2>2. handle' \in {handle, handle \cup GivenBack(Codec.kind)}
    BY <1>5 DEF CallEncoder, FirstCall, GivenBack
  <2> QED
    BY <1>c, <2>1, <2>2, StaysGiven DEF LifeInv, DictOf, WorkGiven, HandlesGiven
<1>6. CASE EndEncode \/ EndDecode
  <2>1. Codec' = Codec /\ pc \in {"encRun", "decRun"} /\ pc' \in {"cmp", "read"} /\ codend(Codec)
    BY <1>6 DEF EndEncode, EndDecode, Codec
  <2>2. DOMAIN dict = {"c", "d"} /\ (Codec.kind # "zstd_dict" => dict = NoDict)
    BY <2>1 DEF LifeInv, NoDict, DictOf
  <2>3. dict' = NoDict
    <3>1. [d \in {"c", "d"} |-> NULL] = NoDict
      BY DEF NoDict
    <3> QED
      BY <2>1, <2>2, <3>1 DEF codend
  <2>4. UNCHANGED <<workmem, worklen, tables, handle>>
    BY <2>1 DEF codend
  <2> QED
    BY <2>1, <2>3, <2>4 DEF LifeInv, WorkGiven, HandlesGiven
<1>7. CASE CloseFile
  <2>1. pc = "close" /\ pc' = "add" /\ codexit(Codec)
    BY <1>7 DEF CloseFile
  <2> QED
    BY <1>c, <2>1, ExitTakes DEF LifeInv
<1>8. CASE UNCHANGED vars
  BY <1>8, <1>u DEF vars, runVars, LifeInv, Codec, DictOf
<1> QED
  BY <1>1, <1>2, <1>3, <1>4, <1>5, <1>6, <1>7, <1>8 DEF Next

LEMMA LifeAlways == Spec => [](TypeInv /\ LifeInv)
BY TypeInit, TypeNext, LifeStart, LifeNext, PTL DEF Spec

(* Between two files and between two codecs neither work memory nor handle   *)
(* nor dictionary is held, for every list of codecs and files and however a  *)
(* codec's calls went.                                                       *)
THEOREM NothingIsLeft == Spec => []NothingLeft
<1>1. LifeInv => NothingLeft
  BY DEF LifeInv, NothingLeft, Between
<1> QED
  BY <1>1, LifeAlways, PTL

(* While a codec runs it has the work memory it asked for, its handles, its  *)
(* tables and, with a dictionary, the one that was made for it.              *)
THEOREM CodecsArePrepared == Spec => []CodecIsPrepared
<1>1. TypeInv /\ LifeInv => CodecIsPrepared
  <2> SUFFICES ASSUME TypeInv, LifeInv, pc \in {"enc", "encRun", "dec", "decRun"}
               PROVE  Prepared(Codec, IF pc \in {"enc", "encRun"} THEN "c" ELSE "d")
    BY DEF CodecIsPrepared
  <2>1. /\ Codec \in [kind : STRING, ask : Nat]
        /\ Codec.kind # "sized" => Codec.ask <= WorkStatic
    BY CodecOK DEF InCodec
  <2>2. WorkGiven(Codec) /\ HandlesGiven(Codec) /\ Tables(Codec.kind) \subseteq tables
    BY DEF LifeInv, During
  <2>3. Codec.ask <= worklen
    BY <2>1, <2>2, LifeAssumption, WorkNat DEF WorkGiven, WorkSize
  <2>4. Codec.kind = "zstd_dict" => dict[IF pc \in {"enc", "encRun"} THEN "c" ELSE "d"] = Codec
    BY DEF LifeInv, DictOf, NoDict
  <2> QED
    BY <2>2, <2>3, <2>4 DEF Prepared, HandlesGiven
<1> QED
  BY <1>1, LifeAlways, PTL

-----------------------------------------------------------------------------
(* The sums.  While a file is worked on, what the codec did is what plugt    *)
(* has of the files before plus what plug has of this one; the first error   *)
(* stays in plug from file to file.                                          *)

Fields == [len : Nat, tc : Nat, td : Nat, memc : Nat, memd : Nat, stkc : Nat, stkd : Nat, err : Nat]
\* A record of numbers, but for the memory: what top comes to is a sum over a set.
RealOK == real \in [in : Nat, len : Nat, tc : Nat, td : Nat, err : Nat,
                    memc : {real.memc}, memd : {real.memd}, nowc : {real.nowc},
                    nowd : {real.nowd}, lastc : {real.lastc}, lastd : {real.lastd}]
SumInv ==
  /\ p \in Fields /\ g \in Fields /\ RealOK
  /\ pc \in InCodec => p.err = real.err
  /\ pc = "file" => SumsOfCodec
  /\ pc \in InFile => /\ real.len = g.len + p.len /\ real.tc = g.tc + p.tc
                      /\ real.td = g.td + p.td /\ g.err \in {0, real.err}

\* Results and peaks are numbers.
LEMMA NumbersOK ==
  ASSUME TypeInv
  PROVE  /\ now.len \in Nat /\ now.tc \in Nat /\ now.td \in Nat /\ now.err \in Nat
         /\ mempeak \in Nat /\ stackpeak \in Nat
<1>1. now.len \in Nat /\ now.tc \in Nat /\ now.td \in Nat /\ now.err \in Nat
  BY RunAssumption DEF TypeInv, TypeOK, None
<1> QED
  BY <1>1 DEF TypeInv, TypeOK, MemTypeOK, mempeak, stackpeak

LEMMA ResetOK ==
  ASSUME NEW q \in Fields
  PROVE  /\ Reset(q) \in Fields /\ Zero \in Fields
         /\ Reset(q).len = 0 /\ Reset(q).tc = 0 /\ Reset(q).td = 0 /\ Reset(q).err = q.err
BY DEF Reset, Zero, Fields

LEMMA SumUpOK ==
  ASSUME NEW a \in Fields, NEW q \in Fields
  PROVE  /\ SumUp(a, q) \in Fields
         /\ SumUp(a, q).len = a.len + q.len /\ SumUp(a, q).tc = a.tc + q.tc
         /\ SumUp(a, q).td = a.td + q.td /\ SumUp(a, q).err = FirstOf(a.err, q.err)
<1>1. /\ Larger(a.memc, q.memc) \in Nat /\ Larger(a.memd, q.memd) \in Nat
      /\ Larger(a.stkc, q.stkc) \in Nat /\ Larger(a.stkd, q.stkd) \in Nat
      /\ FirstOf(a.err, q.err) \in Nat /\ a.len + q.len \in Nat /\ a.tc + q.tc \in Nat
      /\ a.td + q.td \in Nat
  BY DEF Fields, Larger, FirstOf
<1> QED
  BY <1>1 DEF SumUp, Fields

LEMMA SumStart == Init => SumInv
BY DEF Init, SumInv, RealOK, Fields, Zero, NoReal, InCodec, InFile

\* What encoder and decoder add to plug they add to what the codec did.
LEMMA ChunkAdds ==
  ASSUME TypeInv, SumInv, EndEncode \/ EndDecode PROVE SumInv'
<1>1. pc \in InFile /\ pc' \in InFile /\ pc' # "file" /\ UNCHANGED g
  BY DEF EndEncode, EndDecode, InFile, InCodec
<1>2. CASE EndEncode
  <2>0. /\ p.len + now.len \in Nat /\ p.tc + now.tc \in Nat /\ real.len + now.len \in Nat
        /\ real.tc + now.tc \in Nat /\ mempeak \in Nat /\ stackpeak \in Nat
    BY NumbersOK DEF SumInv, Fields, RealOK
  <2>1. p' \in Fields /\ p'.len = p.len + now.len /\ p'.tc = p.tc + now.tc /\ p'.td = p.td
        /\ p'.err = p.err
    BY <1>2, <2>0 DEF EndEncode, SumInv, Fields
  <2>2. RealOK' /\ real'.len = real.len + now.len /\ real'.tc = real.tc + now.tc
        /\ real'.td = real.td /\ real'.err = real.err
    BY <1>2, <2>0 DEF EndEncode, SumInv, RealOK
  <2> QED
    BY <1>1, <2>1, <2>2, NumbersOK DEF SumInv, Fields, RealOK, InFile
<1>3. CASE EndDecode
  <2>0. /\ p.td + now.td \in Nat /\ real.td + now.td \in Nat /\ mempeak \in Nat /\ stackpeak \in Nat
    BY NumbersOK DEF SumInv, Fields, RealOK
  <2>1. FirstOf(p.err, now.err) \in Nat /\ p.err = real.err /\ (p.err # 0 => FirstOf(p.err, now.err) = p.err)
    BY <1>1, NumbersOK DEF SumInv, Fields, FirstOf, InFile
  <2>2. p' \in Fields /\ p'.len = p.len /\ p'.tc = p.tc /\ p'.td = p.td + now.td
        /\ p'.err = FirstOf(p.err, now.err)
    BY <1>3, <2>0, <2>1 DEF EndDecode, SumInv, Fields
  <2>3. RealOK' /\ real'.len = real.len /\ real'.tc = real.tc
        /\ real'.td = real.td + now.td /\ real'.err = FirstOf(p.err, now.err)
    BY <1>3, <2>0, <2>1 DEF EndDecode, SumInv, RealOK
  <2> QED
    BY <1>1, <2>1, <2>2, <2>3, NumbersOK DEF SumInv, Fields, RealOK, InFile
<1> QED
  BY <1>2, <1>3

LEMMA SumNext == TypeInv /\ SumInv /\ [Next]_vars => SumInv'
<1> SUFFICES ASSUME TypeInv, SumInv, [Next]_vars PROVE SumInv'
  OBVIOUS
<1> USE DEF InCodec, InFile
<1>1. CASE StartCodec
  <2>1. p' = Zero /\ g' = Zero /\ real' = NoReal /\ pc' = "file"
    BY <1>1 DEF StartCodec, Fresh
  <2> QED
    BY <2>1 DEF SumInv, SumsOfCodec, RealOK, Fields, Zero, NoReal
<1>2. CASE File
  <2>1. p' = Reset(p) /\ UNCHANGED g /\ pc = "file" /\ pc' \in {"ini", "add"}
        /\ real' = [real EXCEPT !.nowc = 0, !.nowd = 0]
    BY <1>2 DEF File
  <2>2. RealOK' /\ real'.len = real.len /\ real'.tc = real.tc /\ real'.td = real.td
        /\ real'.err = real.err
    BY <2>1 DEF SumInv, RealOK
  <2> QED
    BY <2>1, <2>2, ResetOK DEF SumInv, SumsOfCodec, Fields
<1>3. CASE EndEncode \/ EndDecode
  BY <1>3, ChunkAdds
<1>4. CASE AddFile
  <2>1. g' = SumUp(g, p) /\ UNCHANGED p /\ pc = "add" /\ pc' = "file"
        /\ real' = [real EXCEPT !.lastc = Larger(@, real.nowc), !.lastd = Larger(@, real.nowd)]
    BY <1>4 DEF AddFile
  <2>2. SumUp(g, p).err = real.err
    BY <2>1, SumUpOK DEF SumInv, Fields, FirstOf
  <2>3. RealOK' /\ real'.len = real.len /\ real'.tc = real.tc /\ real'.td = real.td
        /\ real'.err = real.err
    BY <2>1 DEF SumInv, RealOK
  <2> QED
    BY <2>1, <2>2, <2>3, SumUpOK DEF SumInv, SumsOfCodec
<1>5. CASE Read
  <2>1. real' = [real EXCEPT !.in = @ + 1] /\ UNCHANGED <<p, g>> /\ pc = "read" /\ pc' \in {"enc", "exit"}
    BY <1>5 DEF Read
  <2>2. RealOK' /\ real'.len = real.len /\ real'.tc = real.tc /\ real'.td = real.td
        /\ real'.err = real.err
    BY <2>1 DEF SumInv, RealOK
  <2> QED
    BY <2>1, <2>2 DEF SumInv
<1>6. CASE EndCodecs \/ EndFiles
  BY <1>6 DEF EndCodecs, EndFiles, SumInv, RealOK
<1>7. CASE Ini \/ EndOfFile \/ CallEncoder \/ CallDecoder \/ Allocate \/ StartDecode \/ CloseFile
  <2>1. UNCHANGED <<p, g, real>> /\ pc \in InFile /\ pc' \in InFile \cup {"exit"}
    BY <1>7 DEF Ini, EndOfFile, CallEncoder, CallDecoder, Allocate, StartDecode, CloseFile
  <2> QED
    BY <2>1 DEF SumInv, RealOK
<1>8. CASE UNCHANGED vars
  BY <1>8 DEF vars, runVars, SumInv, SumsOfCodec, RealOK
<1> QED
  BY <1>1, <1>2, <1>3, <1>4, <1>5, <1>6, <1>7, <1>8 DEF Next

(* After every file, lengths and times of the codec's row are the sums over   *)
(* all chunks of all files up to it, and its error is the first there was.    *)
LEMMA RowsAreSums == Spec => []SumsOfCodec
<1>1. SumInv => SumsOfCodec
  BY DEF SumInv, SumsOfCodec
<1>2. Spec => [](TypeInv /\ SumInv)
  BY TypeInit, TypeNext, SumStart, SumNext, PTL DEF Spec
<1> QED
  BY <1>1, <1>2, PTL

-----------------------------------------------------------------------------
(* The counters.  A block counts from the store of mem_add to the store of  *)
(* mem_sub.  A thread that works on a block has it for itself; as long as   *)
(* no update was lost what a thread loaded is still what the counter says.  *)
(* A thread that counts what a failed posix_memalign left has no block.     *)
(* Between the store and the peak a thread has a sum that was once there.   *)

Busy(t) == thr[t].op # "idle"
Holds(t) == Busy(t) /\ thr[t].op # "recount"
Uncounted(t) == \/ thr[t].op = "malloc" /\ thr[t].step \in {"load", "store"}
                \/ thr[t].step = "system"
Own(t) ==
  /\ Busy(t) <=> thr[t] # Idle
  /\ Busy(t) /\ thr[t].op = "recount" => again /\ thr[t].step # "system"
  /\ Holds(t) => /\ thr[t].b \in DOMAIN heap /\ heap[thr[t].b].size = thr[t].n
                 /\ thr[t].op = "malloc" => heap[thr[t].b].win /\ thr[t].step # "system"
                 /\ ~skewed => heap[thr[t].b].win
  /\ Busy(t) /\ ~raced /\ thr[t].step = "store" => thr[t].reg = used
Apart(t, u) == Busy(t) /\ Busy(u) => shared /\ (Holds(t) /\ Holds(u) => thr[t].b # thr[u].b)
OwnerInv == /\ \A t \in Thread : Own(t)
            /\ \A t \in Thread : \A u \in Thread \ {t} : Apart(t, u)

Mine == {b \in DOMAIN heap : heap[b].win}
Counted == {b \in Mine : \A t \in Thread : Busy(t) /\ Uncounted(t) => thr[t].b # b}
InUse == SumOf(Sizes(heap), Counted)
CountInv ==
  /\ top \in Nat /\ Live(heap) <= top /\ mark = reached
  /\ ~shared => ~raced
  /\ ~raced /\ ~again => used <= InUse /\ peak <= top
  /\ ~shared /\ ~skewed /\ ~again =>
       /\ used = InUse /\ top = Larger(peak, Live(heap))
       /\ (\A t \in Thread : thr[t].op # "malloc") => Live(heap) <= peak
Adding(t) == thr[t].step \in {"compare", "keep"}
SumOK(t) ==
  Adding(t) =>
    /\ ~raced /\ ~again => thr[t].reg <= top
    /\ ~shared /\ ~skewed /\ ~again =>
         /\ thr[t].reg = used
         /\ thr[t].step = "keep" => thr[t].reg > peak
PeakInv == \A t \in Thread : SumOK(t) /\ (Adding(t) => Busy(t) /\ Allocates(t))

LEMMA HeapIs ==
  ASSUME MemInv
  PROVE  /\ IsFiniteSet(DOMAIN heap) /\ IsFiniteSet(Mine) /\ IsFiniteSet(Counted)
         /\ Counted \subseteq Mine /\ Mine \subseteq DOMAIN heap
         /\ \A b \in DOMAIN heap : Sizes(heap)[b] = heap[b].size /\ heap[b].size \in Nat
         /\ Live(heap) = SumOf(Sizes(heap), Mine) /\ Live(heap) \in Nat
         /\ InUse \in Nat /\ InUse <= Live(heap)
         /\ used \in Nat /\ peak \in Nat
<1>1. IsFiniteSet(DOMAIN heap)
  BY MemAssumption, FS_Subset DEF MemInv, MemTypeOK
<1>2. Counted \subseteq Mine /\ Mine \subseteq DOMAIN heap
  BY DEF Counted, Mine
<1>3. IsFiniteSet(Mine) /\ IsFiniteSet(Counted)
  BY <1>1, <1>2, FS_Subset
<1>4. \A b \in DOMAIN heap : Sizes(heap)[b] = heap[b].size /\ heap[b].size \in Nat
  BY MemAssumption DEF MemInv, MemTypeOK, Sizes
<1>5. Live(heap) = SumOf(Sizes(heap), Mine)
  BY DEF Live, SumOf, Mine
<1>6. \A b \in Mine : Sizes(heap)[b] \in Nat
  BY <1>2, <1>4
<1>7. SumOf(Sizes(heap), Mine) \in Nat
  BY <1>3, <1>6, SumOfNaturals
<1>8. InUse \in Nat
  BY <1>2, <1>3, <1>6, SumOfNaturals DEF InUse
<1>9. InUse <= SumOf(Sizes(heap), Mine)
  BY <1>2, <1>3, <1>6, SumOfPart DEF InUse
<1> QED
  BY <1>1, <1>2, <1>3, <1>4, <1>5, <1>7, <1>8, <1>9 DEF MemInv, MemTypeOK

\* A step of thread t leaves the blocks of the others alone.
LEMMA OthersOwn ==
  ASSUME OwnerInv, NEW t \in Thread,
         \A u \in Thread \ {t} : thr'[u] = thr[u],
         \A u \in Thread \ {t} : Holds(u) => thr[u].b \in DOMAIN heap' /\ heap'[thr[u].b] = heap[thr[u].b],
         skewed => skewed', raced => raced', shared => shared', again => again',
         used' = used \/ raced' \/ \A u \in Thread \ {t} : Busy(u) => thr[u].step # "store",
         Own(t)',
         \A u \in Thread \ {t} : Busy(u) /\ thr'[t].op # "idle" =>
           shared' /\ (Holds(u) /\ thr'[t].op # "recount" => thr'[t].b # thr[u].b)
  PROVE  OwnerInv'
<1>1. ASSUME NEW u \in Thread \ {t} PROVE Own(u)'
  BY <1>1 DEF OwnerInv, Own, Busy, Holds
<1>2. ASSUME NEW u \in Thread, NEW v \in Thread \ {u} PROVE Apart(u, v)'
  <2>1. CASE u # t /\ v # t
    BY <1>2, <2>1 DEF OwnerInv, Apart, Busy, Holds
  <2>2. CASE u = t
    BY <1>2, <2>2 DEF Apart, Busy, Holds
  <2>3. CASE v = t
    BY <1>2, <2>3 DEF Apart, Busy, Holds
  <2> QED
    BY <2>1, <2>2, <2>3
<1> QED
  BY <1>1, <1>2 DEF OwnerInv

\* Nor does it touch the sums of the others.
LEMMA OthersSums ==
  ASSUME PeakInv, NEW t \in Thread,
         \A u \in Thread \ {t} : thr'[u] = thr[u],
         raced => raced', again => again', ~raced' /\ ~again' => top <= top',
         top \in Nat, top' \in Nat, MemInv,
         \A u \in Thread \ {t} : Busy(u) => shared',
         SumOK(t)', Adding(t)' => (Busy(t) /\ Allocates(t))'
  PROVE  PeakInv'
<1>1. ASSUME NEW u \in Thread \ {t}, thr'[u].step \in {"compare", "keep"}
      PROVE  /\ shared' /\ (~raced' /\ ~again' => thr'[u].reg <= top')
             /\ thr'[u].op # "idle" /\ thr'[u].op \in {"malloc", "recount"}
  <2>1. /\ thr'[u] = thr[u] /\ thr[u].reg \in Nat /\ Adding(u)
    BY <1>1 DEF MemInv, ThreadOK, Adding
  <2>2. Busy(u) /\ Allocates(u) /\ (~raced /\ ~again => thr[u].reg <= top)
    BY <2>1 DEF PeakInv, SumOK
  <2>3. shared' /\ thr[u].op # "idle" /\ thr[u].op \in {"malloc", "recount"}
    BY <2>2 DEF Busy, Allocates
  <2> QED
    BY <2>1, <2>2, <2>3
<1>2. ASSUME NEW u \in Thread \ {t} PROVE SumOK(u)' /\ (Adding(u)' => (Busy(u) /\ Allocates(u))')
  BY <1>1 DEF SumOK, Adding, Busy, Allocates
<1> QED
  BY <1>2 DEF PeakInv

\* A thread that has no sum has none to be wrong.
LEMMA NoSum ==
  ASSUME NEW t \in Thread, thr'[t].step \notin {"compare", "keep"}
  PROVE  SumOK(t)' /\ (Adding(t)' => (Busy(t) /\ Allocates(t))')
BY DEF SumOK, Adding

\* What counts after a step of thread t.
LEMMA CountedMoves ==
  ASSUME NEW t \in Thread, \A u \in Thread \ {t} : thr'[u] = thr[u]
  PROVE  \A b : b \in Counted' <=>
           /\ b \in DOMAIN heap' /\ heap'[b].win
           /\ /\ thr'[t].op # "idle"
              /\ \/ thr'[t].op = "malloc" /\ thr'[t].step \in {"load", "store"}
                 \/ thr'[t].step = "system"
              => thr'[t].b # b
           /\ \A u \in Thread \ {t} : Busy(u) /\ Uncounted(u) => thr[u].b # b
BY DEF Counted, Mine, Busy, Uncounted

LEMMA CountedIs ==
  ASSUME NEW t \in Thread
  PROVE  \A b : b \in Counted <=>
           /\ b \in DOMAIN heap /\ heap[b].win
           /\ Busy(t) /\ Uncounted(t) => thr[t].b # b
           /\ \A u \in Thread \ {t} : Busy(u) /\ Uncounted(u) => thr[u].b # b
BY DEF Counted, Mine

\* The same blocks with the same sizes come to the same.
LEMMA InUseSame ==
  ASSUME MemInv, MemInv', Counted' = Counted, \A b \in Counted : heap'[b].size = heap[b].size
  PROVE  InUse' = InUse
<1>1. Counted \subseteq DOMAIN heap /\ Counted \subseteq DOMAIN heap' /\ IsFiniteSet(Counted)
  <2>1. Counted' \subseteq DOMAIN heap'
    BY DEF Counted, Mine
  <2>2. Counted \subseteq DOMAIN heap /\ IsFiniteSet(Counted)
    BY HeapIs
  <2> QED
    BY <2>1, <2>2
<1>2. \A b \in Counted : Sizes(heap)[b] \in Int /\ Sizes(heap')[b] = Sizes(heap)[b]
  BY <1>1, HeapIs DEF Sizes
<1>3. SumOf(Sizes(heap'), Counted) = SumOf(Sizes(heap), Counted)
  BY <1>1, <1>2, SumAgrees
<1> QED
  BY <1>3 DEF InUse

LEMMA HeapIsNext ==
  ASSUME MemInv'
  PROVE  /\ Live(heap') \in Nat /\ InUse' \in Nat /\ InUse' <= Live(heap')
         /\ Live(heap') = SumOf(Sizes(heap'), Mine')
         /\ used' \in Nat /\ peak' \in Nat
<1>1. MemInv' => (/\ Live(heap) \in Nat /\ InUse \in Nat /\ InUse <= Live(heap)
                  /\ Live(heap) = SumOf(Sizes(heap), Mine)
                  /\ used \in Nat /\ peak \in Nat)'
  BY HeapIs, PTL
<1> QED
  BY <1>1

LEMMA LargerIs ==
  ASSUME NEW x \in Int, NEW y \in Int
  PROVE  /\ Larger(x, y) \in Int /\ x <= Larger(x, y) /\ y <= Larger(x, y)
         /\ Larger(x, y) \in {x, y}
         /\ (x \in Nat => Larger(x, y) \in Nat)
BY DEF Larger

-----------------------------------------------------------------------------
(* Every step of the malloc family keeps the account.                       *)

\* What a thread inside the family knows of the others.
Others(t) ==
  \A u \in Thread \ {t} :
    /\ Busy(u) => shared
    /\ Holds(u) => Busy(u) /\ thr[u].b \in DOMAIN heap
    /\ Holds(u) /\ Holds(t) => thr[u].b # thr[t].b
LEMMA Company ==
  ASSUME NEW t \in Thread, OwnerInv, Busy(t)
  PROVE  Own(t) /\ Others(t)
BY DEF OwnerInv, Own, Apart, Holds, Others

LEMMA MallocCounts ==
  ASSUME NEW t \in Thread, NEW b \in Block, NEW n \in Size,
         MemInv, MemInv', OwnerInv, CountInv, PeakInv, malloc(t, b, n)
  PROVE  OwnerInv' /\ CountInv' /\ PeakInv'
<1>1. /\ thr[t] = Idle /\ ~Busy(t) /\ b \notin DOMAIN heap
      /\ thr' = [thr EXCEPT ![t] = [op |-> "malloc", step |-> "load", b |-> b, n |-> n, reg |-> 0]]
      /\ shared' = (shared \/ \E u \in Thread \ {t} : thr[u] # Idle)
      /\ heap' = [c \in DOMAIN heap \cup {b} |-> IF c = b THEN [size |-> n, win |-> TRUE] ELSE heap[c]]
      /\ top' = Larger(top, Live(heap'))
      /\ UNCHANGED <<used, peak, mark, raced, skewed, again, reached>>
  BY DEF malloc, Enter, Busy, Idle
<1>2. /\ thr'[t] = [op |-> "malloc", step |-> "load", b |-> b, n |-> n, reg |-> 0]
      /\ \A u \in Thread \ {t} : thr'[u] = thr[u]
  BY <1>1 DEF MemInv, ThreadOK
<1>3. DOMAIN heap' = DOMAIN heap \cup {b} /\ heap'[b].size = n /\ heap'[b].win
      /\ \A c \in DOMAIN heap : heap'[c] = heap[c]
  BY <1>1
<1>4. \A u \in Thread \ {t} : Busy(u) =>
        shared' /\ (Holds(u) => thr[u].b \in DOMAIN heap /\ thr[u].b # b)
  BY <1>1 DEF OwnerInv, Own, Holds, Busy
<1>5. OwnerInv'
  <2>1. Own(t)'
    BY <1>1, <1>2, <1>3 DEF Own, Busy, Idle, Holds
  <2>2. \A u \in Thread \ {t} : Holds(u) => thr[u].b \in DOMAIN heap' /\ heap'[thr[u].b] = heap[thr[u].b]
    BY <1>3, <1>4 DEF Holds
  <2>3. \A u \in Thread \ {t} : Busy(u) /\ thr'[t].op # "idle" =>
        shared' /\ (Holds(u) /\ thr'[t].op # "recount" => thr'[t].b # thr[u].b)
    BY <1>2, <1>4
  <2>4. (skewed => skewed') /\ (raced => raced') /\ (again => again') /\ (shared => shared') /\ used' = used
    BY <1>1
  <2> QED
    BY <1>2, <2>1, <2>2, <2>3, <2>4, OthersOwn
<1>6. Counted' = Counted
  <2>1. thr'[t].b = b /\ thr'[t].op = "malloc" /\ thr'[t].step = "load"
    BY <1>2
  <2>2. ASSUME NEW c PROVE c \in Counted' <=> c \in Counted
    <3>1. c # b => (c \in DOMAIN heap' <=> c \in DOMAIN heap)
                  /\ (c \in DOMAIN heap => heap'[c] = heap[c])
      BY <1>3
    <3>2. b \notin Counted /\ b \notin Counted'
      <4>1. b \notin Counted
        BY <1>1, CountedIs
      <4>2. b \notin Counted'
        BY <1>2, <2>1, CountedMoves
      <4> QED
        BY <4>1, <4>2
    <3>3. c # b => (c \in Counted' <=>
                      /\ c \in DOMAIN heap /\ heap[c].win
                      /\ \A u \in Thread \ {t} : Busy(u) /\ Uncounted(u) => thr[u].b # c)
      BY <1>2, <2>1, <3>1, CountedMoves
    <3> QED
      BY <1>1, <3>2, <3>3, CountedIs
  <2> QED
    BY <2>2
<1>7. InUse' = InUse
  <2>1. \A c \in Counted : heap'[c].size = heap[c].size
    BY <1>3, HeapIs
  <2> QED
    BY <1>6, <2>1, InUseSame
<1>8. top' \in Nat /\ Live(heap') <= top' /\ top <= top'
  BY <1>1, HeapIsNext, LargerIs DEF CountInv
<1>9. ASSUME ~shared', ~skewed', ~again' PROVE top' = Larger(peak', Live(heap'))
  <2>1. ~shared /\ ~skewed /\ ~again /\ \A u \in Thread : thr[u].op # "malloc"
    BY <1>1, <1>4, <1>9 DEF Busy
  <2>2. top = Larger(peak, Live(heap)) /\ Live(heap) <= peak
    BY <2>1 DEF CountInv
  <2>3. top = peak
    BY <2>2, HeapIs DEF Larger
  <2> QED
    BY <1>1, <2>3
<1>10. thr'[t].op = "malloc"
  BY <1>2
<1>11. /\ mark' = reached' /\ (~shared' => ~raced') /\ (~raced' /\ ~again' => used' <= InUse' /\ peak' <= top')
  <2>1. mark = reached /\ (~shared => ~raced) /\ (~raced /\ ~again => used <= InUse /\ peak <= top)
        /\ top \in Nat /\ peak \in Nat
    BY HeapIs DEF CountInv
  <2>2. ~shared' => ~shared
    BY <1>1
  <2>3. peak <= top => peak <= top'
    BY <1>8, <2>1
  <2> QED
    BY <1>1, <1>7, <2>1, <2>2, <2>3
<1>12. ~shared' /\ ~skewed' /\ ~again' => used' = InUse'
  BY <1>1, <1>7 DEF CountInv
<1>13. CountInv'
  BY <1>5, <1>8, <1>9, <1>10, <1>11, <1>12 DEF CountInv
<1>14. PeakInv'
  <2>1. thr'[t].step \notin {"compare", "keep"}
    BY <1>2
  <2> QED
    BY <1>1, <1>2, <1>4, <1>8, <2>1, NoSum, OthersSums DEF CountInv
<1> QED
  BY <1>5, <1>13, <1>14

LEMMA FreeCounts ==
  ASSUME NEW t \in Thread, NEW b \in Block, NEW op \in {"free", "realloc"},
         MemInv, MemInv', OwnerInv, CountInv, PeakInv, free(t, b, op)
  PROVE  OwnerInv' /\ CountInv' /\ PeakInv'
<1>1. /\ thr[t] = Idle /\ ~Busy(t) /\ b \in DOMAIN heap
      /\ \A u \in Thread : thr[u] # Idle => thr[u].b # b
      /\ thr' = [thr EXCEPT ![t] = [op |-> op, step |-> "load", b |-> b, n |-> heap[b].size, reg |-> 0]]
      /\ shared' = (shared \/ \E u \in Thread \ {t} : thr[u] # Idle)
      /\ skewed' = (skewed \/ ~heap[b].win)
      /\ UNCHANGED <<used, peak, heap, mark, top, raced, again, reached>>
  BY DEF free, Enter, Busy, Idle, Owned
<1>2. /\ thr'[t] = [op |-> op, step |-> "load", b |-> b, n |-> heap[b].size, reg |-> 0]
      /\ \A u \in Thread \ {t} : thr'[u] = thr[u]
  BY <1>1 DEF MemInv, ThreadOK
<1>4. \A u \in Thread \ {t} : Busy(u) =>
        shared' /\ (Holds(u) => thr[u].b \in DOMAIN heap /\ thr[u].b # b)
  BY <1>1 DEF OwnerInv, Own, Holds, Busy
<1>5. OwnerInv'
  <2>1. Own(t)'
    <3>1. thr'[t].op = op /\ thr'[t].b = b /\ thr'[t].n = heap[b].size /\ thr'[t].step = "load"
      BY <1>2
    <3>2. thr'[t].op # "idle" /\ thr'[t].op # "malloc" /\ thr'[t].op # "recount" /\ thr'[t] # Idle
      BY <3>1 DEF Idle
    <3> QED
      BY <1>1, <3>1, <3>2 DEF Own, Busy, Holds
  <2>2. \A u \in Thread \ {t} : Holds(u) => thr[u].b \in DOMAIN heap' /\ heap'[thr[u].b] = heap[thr[u].b]
    BY <1>1, <1>4 DEF Holds
  <2>3. \A u \in Thread \ {t} : Busy(u) /\ thr'[t].op # "idle" =>
        shared' /\ (Holds(u) /\ thr'[t].op # "recount" => thr'[t].b # thr[u].b)
    BY <1>2, <1>4
  <2>4. (skewed => skewed') /\ (raced => raced') /\ (again => again') /\ (shared => shared') /\ used' = used
    BY <1>1
  <2> QED
    BY <1>2, <2>1, <2>2, <2>3, <2>4, OthersOwn
<1>6. Counted' = Counted
  <2>1. thr'[t].op # "malloc" /\ thr'[t].step # "system"
    BY <1>2
  <2>2. \A c : c \in Counted' <=> c \in Counted
    BY <1>1, <1>2, <2>1, CountedMoves, CountedIs
  <2> QED
    BY <2>2
<1>7. InUse' = InUse
  BY <1>1, <1>6, InUseSame
<1>8. ~shared' /\ ~skewed' /\ ~again' => ~shared /\ ~skewed /\ \A u \in Thread : thr[u].op # "malloc"
  BY <1>1, <1>4 DEF Busy
<1>9. CountInv'
  BY <1>1, <1>5, <1>7, <1>8 DEF CountInv
<1>10. PeakInv'
  <2>1. thr'[t].step \notin {"compare", "keep"} /\ top \in Nat
    BY <1>2 DEF CountInv
  <2> QED
    BY <1>1, <1>2, <1>4, <2>1, NoSum, OthersSums
<1> QED
  BY <1>5, <1>9, <1>10

LEMMA LoadCounts ==
  ASSUME NEW t \in Thread, MemInv, MemInv', OwnerInv, CountInv, PeakInv, Load(t)
  PROVE  OwnerInv' /\ CountInv' /\ PeakInv'
<1>1. /\ Busy(t) /\ thr[t].step = "load" /\ thr' = [thr EXCEPT ![t].step = "store", ![t].reg = used]
      /\ UNCHANGED <<used, peak, heap, mark, top, shared, raced, skewed, again, reached>>
  BY DEF Load, Busy
<1>2. /\ thr'[t].op = thr[t].op /\ thr'[t].b = thr[t].b /\ thr'[t].n = thr[t].n
      /\ thr'[t].step = "store" /\ thr'[t].reg = used
      /\ \A u \in Thread \ {t} : thr'[u] = thr[u]
  BY <1>1 DEF MemInv, ThreadOK
<1>3. Own(t) /\ Others(t)
  BY <1>1, Company
<1>5. OwnerInv'
  <2>1. Own(t)'
    <3>1. thr'[t] # Idle
      <4>1. Idle.op = "idle"
        BY DEF Idle
      <4> QED
        BY <1>1, <1>2, <4>1 DEF Busy
    <3> QED
      BY <1>1, <1>2, <1>3, <3>1 DEF Own, Busy, Holds
  <2>2. \A u \in Thread \ {t} : Holds(u) => Busy(u) /\ thr[u].b \in DOMAIN heap
    BY <1>3 DEF Others
  <2>3. \A u \in Thread \ {t} : Busy(u) =>
          shared /\ (Holds(u) /\ thr'[t].op # "recount" => thr'[t].b # thr[u].b)
    <3>1. thr'[t].op # "recount" => Holds(t)
      BY <1>1, <1>2 DEF Holds
    <3>2. shared' = shared /\ thr'[t].b = thr[t].b
      BY <1>1, <1>2
    <3> QED
      BY <1>3, <3>1, <3>2 DEF Others
  <2> QED
    BY <1>1, <1>2, <2>1, <2>2, <2>3, OthersOwn
<1>6. Counted' = Counted
  <2>1. thr[t].op # "idle" /\ thr[t].step = "load" /\ thr'[t].step = "store"
    BY <1>1, <1>2 DEF Busy
  <2>2. \A c : c \in Counted <=>
          /\ c \in DOMAIN heap /\ heap[c].win
          /\ thr[t].op = "malloc" => thr[t].b # c
          /\ \A u \in Thread \ {t} : Busy(u) /\ Uncounted(u) => thr[u].b # c
    BY <2>1, CountedIs DEF Busy, Uncounted
  <2>3. \A c : c \in Counted' <=>
          /\ c \in DOMAIN heap /\ heap[c].win
          /\ thr[t].op = "malloc" => thr[t].b # c
          /\ \A u \in Thread \ {t} : Busy(u) /\ Uncounted(u) => thr[u].b # c
    <3>1. heap' = heap /\ thr'[t].op = thr[t].op /\ thr'[t].b = thr[t].b
          /\ \A u \in Thread \ {t} : thr'[u] = thr[u]
      BY <1>1, <1>2
    <3> QED
      BY <2>1, <3>1, CountedMoves
  <2> QED
    BY <2>2, <2>3
<1>7. InUse' = InUse
  BY <1>1, <1>6, InUseSame
<1>8. (\A u \in Thread : thr'[u].op # "malloc") => \A u \in Thread : thr[u].op # "malloc"
  BY <1>2
<1>9. CountInv'
  BY <1>1, <1>5, <1>7, <1>8 DEF CountInv
<1>10. PeakInv'
  <2>1. thr'[t].step \notin {"compare", "keep"} /\ top \in Nat
    BY <1>2 DEF CountInv
  <2> QED
    <3>1. \A u \in Thread \ {t} : Busy(u) => shared'
      BY <1>1, <1>3 DEF Others
    <3>2. /\ raced => raced'
          /\ again => again'
          /\ top' = top
      BY <1>1
    <3> QED
      BY <1>2, <2>1, <3>1, <3>2, NoSum, OthersSums
<1> QED
  BY <1>5, <1>9, <1>10

\* A store without a race stores what the counter said, and a store without
\* company has none.
LEMMA StoreKnows ==
  ASSUME NEW t \in Thread, OwnerInv, CountInv, PeakInv, Store(t)
  PROVE  /\ Busy(t) /\ thr[t].step = "store"
         /\ ~raced' => ~raced /\ thr[t].reg = used
         /\ raced' \/ \A u \in Thread \ {t} : Busy(u) => thr[u].step # "store"
         /\ ~shared => ~raced'
         /\ raced => raced'
<1>1. Own(t) /\ \A u \in Thread \ {t} : Apart(t, u)
  BY DEF OwnerInv
<1> QED
  BY <1>1 DEF Store, Busy, Own, Apart, CountInv

LEMMA AddCounts ==
  ASSUME NEW t \in Thread, MemInv, MemInv', OwnerInv, CountInv, PeakInv, StoreAdd(t),
         thr[t].op = "malloc"
  PROVE  OwnerInv' /\ CountInv' /\ PeakInv'
<1> DEFINE b == thr[t].b
           n == thr[t].n
<1>1. /\ Store(t) /\ Busy(t) /\ thr[t].op = "malloc" /\ thr[t].step = "store" /\ Holds(t)
      /\ thr' = [thr EXCEPT ![t].step = "compare", ![t].reg = @ + n]
      /\ used' = thr[t].reg + n
      /\ UNCHANGED <<peak, heap, mark, top, shared, skewed, again, reached>>
  BY DEF StoreAdd, Store, mem_add, Busy, Holds
<1>2. /\ thr'[t].op = "malloc" /\ thr'[t].b = b /\ thr'[t].n = n /\ thr'[t].step = "compare"
      /\ thr'[t].reg = used' /\ \A u \in Thread \ {t} : thr'[u] = thr[u]
  BY <1>1 DEF MemInv, ThreadOK
<1>3. Own(t) /\ Others(t)
  BY <1>1, Company
<1>4. /\ b \in DOMAIN heap /\ heap[b].size = n /\ heap[b].win
      /\ \A u \in Thread \ {t} : Busy(u) =>
           shared /\ (Holds(u) => thr[u].b \in DOMAIN heap /\ thr[u].b # b)
  BY <1>1, <1>3 DEF Own, Others
<1>5. OwnerInv'
  <2>1. Own(t)'
    <3>1. thr'[t] # Idle
      <4>1. Idle.op = "idle"
        BY DEF Idle
      <4> QED
        BY <1>2, <4>1
    <3> QED
      BY <1>1, <1>2, <1>4, <3>1 DEF Own, Busy, Holds
  <2>2. \A u \in Thread \ {t} : Holds(u) => Busy(u) /\ thr[u].b \in DOMAIN heap
    BY <1>4 DEF Holds
  <2>3. /\ raced' \/ \A u \in Thread \ {t} : Busy(u) => thr[u].step # "store"
        /\ raced => raced'
    BY <1>1, StoreKnows
  <2>4. \A u \in Thread \ {t} : Busy(u) =>
          shared' /\ (Holds(u) /\ thr'[t].op # "recount" => thr'[t].b # thr[u].b)
    BY <1>1, <1>2, <1>4
  <2> QED
    BY <1>1, <1>2, <2>1, <2>2, <2>3, <2>4, OthersOwn
<1>6. b \notin Counted /\ Counted' = Counted \cup {b}
  <2>1. b \notin Counted
    BY <1>1, CountedIs DEF Uncounted
  <2>2. \A c : c \in Counted' <=> c \in Counted \/ c = b
    <3>1. \A u \in Thread \ {t} : Busy(u) /\ Uncounted(u) => thr[u].b # b
      <4>1. \A u \in Thread \ {t} : Busy(u) /\ Uncounted(u) => Holds(u)
        BY DEF OwnerInv, Own, Holds, Uncounted
      <4> QED
        BY <1>4, <4>1
    <3>2. /\ heap' = heap /\ thr'[t].step = "compare"
          /\ Busy(t) /\ Uncounted(t) /\ thr[t].b = b
      BY <1>1, <1>2 DEF Uncounted
    <3> QED
      BY <1>2, <1>4, <3>1, <3>2, CountedMoves, CountedIs
  <2> QED
    BY <2>1, <2>2
<1>7. InUse' = InUse + n
  <2>1. /\ IsFiniteSet(Counted) /\ Sizes(heap)[b] \in Int /\ Sizes(heap)[b] = n
        /\ \A c \in Counted : Sizes(heap)[c] \in Int
    BY <1>4, HeapIs
  <2>2. SumOf(Sizes(heap), Counted \cup {b}) = Sizes(heap)[b] + SumOf(Sizes(heap), Counted)
    BY <1>6, <2>1, SumTakesIn
  <2>3. InUse' = SumOf(Sizes(heap), Counted \cup {b})
    BY <1>1, <1>6 DEF InUse, Sizes
  <2> QED
    BY <2>1, <2>2, <2>3, HeapIs DEF InUse
<1>8. n \in Nat /\ top \in Nat /\ Live(heap) <= top /\ InUse' <= Live(heap) /\ peak \in Nat /\ used \in Nat
      /\ InUse \in Nat /\ Live(heap) \in Nat
  BY <1>1, <1>4, HeapIs, HeapIsNext DEF CountInv
<1>9. ~raced' /\ ~again' => used' <= InUse' /\ peak' <= top' /\ used' <= top'
  <2> SUFFICES ASSUME ~raced', ~again' PROVE used' <= InUse' /\ peak' <= top' /\ used' <= top'
    OBVIOUS
  <2>1. used' = used + n /\ used <= InUse /\ peak <= top
    BY <1>1, StoreKnows DEF CountInv
  <2> HIDE DEF n
  <2>2. used' <= InUse' /\ used' <= top
    BY <1>7, <1>8, <2>1
  <2> QED
    BY <1>1, <2>1, <2>2
<1>10. ~shared' /\ ~skewed' /\ ~again' => used' = InUse' /\ top' = Larger(peak', Live(heap'))
  <2> SUFFICES ASSUME ~shared', ~skewed', ~again'
               PROVE  used' = InUse' /\ top' = Larger(peak', Live(heap'))
    OBVIOUS
  <2>1. used' = used + n /\ used = InUse /\ top = Larger(peak, Live(heap))
    BY <1>1, StoreKnows DEF CountInv
  <2> HIDE DEF n
  <2> QED
    BY <1>1, <1>7, <2>1
<1>11. ~shared => ~raced'
  BY <1>1, StoreKnows
<1>12. CountInv'
  BY <1>1, <1>2, <1>5, <1>8, <1>9, <1>10, <1>11 DEF CountInv
<1>13. PeakInv'
  <2>1. SumOK(t)' /\ (Busy(t) /\ Allocates(t))'
    BY <1>1, <1>2, <1>9 DEF SumOK, Adding, Busy, Allocates
  <2>2. raced => raced'
    BY <1>1, StoreKnows
  <2> QED
    <3>1. \A u \in Thread \ {t} : Busy(u) => shared'
      BY <1>1, <1>4
    <3>2. /\ again => again'
          /\ top' = top
      BY <1>1
    <3> QED
      BY <1>2, <1>8, <2>1, <2>2, <3>1, <3>2, OthersSums
<1> QED
  BY <1>5, <1>12, <1>13

\* What a failed posix_memalign adds is no block: nothing is said of the counters.
LEMMA AgainCounts ==
  ASSUME NEW t \in Thread, MemInv, MemInv', OwnerInv, CountInv, PeakInv,
         \/ \E n \in Size : recount(t, n)
         \/ thr[t].op = "recount" /\ (StoreAdd(t) \/ Compare(t) \/ Keep(t))
  PROVE  OwnerInv' /\ CountInv' /\ PeakInv'
<1>1. /\ again' /\ UNCHANGED <<heap, mark, top, skewed, reached>>
      /\ \A u \in Thread \ {t} : thr'[u] = thr[u]
      /\ \/ thr'[t] = Idle
         \/ thr'[t].op = "recount" /\ thr'[t].step \in {"load", "compare", "keep"}
  <2>1. Own(t)
    BY DEF OwnerInv
  <2>2. CASE \E n \in Size : recount(t, n)
    BY <2>2 DEF recount, Enter, MemInv, ThreadOK
  <2>3. CASE thr[t].op = "recount" /\ (StoreAdd(t) \/ Compare(t) \/ Keep(t))
    <3>1. again
      BY <2>1, <2>3 DEF Own, Busy
    <3> QED
      BY <2>3, <3>1 DEF StoreAdd, Store, mem_add, Compare, Keep, MemInv, ThreadOK
  <2> QED
    BY <2>2, <2>3
<1>2. /\ shared => shared'
      /\ raced => raced'
      /\ ~shared => ~raced'
      /\ \A u \in Thread \ {t} : Busy(u) => shared' /\ (Holds(u) => thr[u].b \in DOMAIN heap)
      /\ used' = used \/ raced' \/ \A u \in Thread \ {t} : Busy(u) => thr[u].step # "store"
  <2>1. \A u \in Thread : Busy(u) <=> thr[u] # Idle
    BY DEF OwnerInv, Own
  <2>2. \A u \in Thread : Holds(u) => thr[u].b \in DOMAIN heap
    BY DEF OwnerInv, Own
  <2>3. ~shared => ~raced
    BY DEF CountInv
  <2>4. CASE \E n \in Size : recount(t, n)
    <3>1. PICK n \in Size : recount(t, n)
      BY <2>4
    <3>2. /\ shared' = (shared \/ \E u \in Thread \ {t} : thr[u] # Idle)
          /\ UNCHANGED <<used, raced>>
      BY <3>1 DEF recount, Enter
    <3> QED
      BY <2>1, <2>2, <2>3, <3>2
  <2>5. CASE thr[t].op = "recount" /\ StoreAdd(t)
    <3>1. Busy(t) /\ Store(t) /\ shared' = shared
      BY <2>5 DEF StoreAdd, Store, Busy
    <3> QED
      BY <2>2, <3>1, StoreKnows, Company DEF Others
  <2>6. CASE thr[t].op = "recount" /\ (Compare(t) \/ Keep(t))
    <3>1. Busy(t) /\ UNCHANGED <<used, shared, raced>>
      BY <2>6 DEF Compare, Keep, Busy
    <3> QED
      BY <2>2, <2>3, <3>1, Company DEF Others
  <2> QED
    BY <2>4, <2>5, <2>6
<1>3. OwnerInv'
  <2>1. Own(t)'
    BY <1>1 DEF Own, Busy, Holds, Idle
  <2>2. \A u \in Thread \ {t} : Holds(u) => Busy(u)
    BY DEF Holds
  <2>3. thr'[t].op = "recount" \/ thr'[t].op = "idle"
    BY <1>1 DEF Idle
  <2> QED
    BY <1>1, <1>2, <2>1, <2>2, <2>3, OthersOwn
<1>4. top' \in Nat /\ Live(heap') <= top' /\ mark' = reached' /\ (~shared' => ~raced')
  BY <1>1, <1>2 DEF CountInv
<1>5. CountInv'
  BY <1>1, <1>4 DEF CountInv
<1>6. PeakInv'
  <2>1. SumOK(t)'
    BY <1>1 DEF SumOK
  <2>2. Adding(t)' => (Busy(t) /\ Allocates(t))'
    BY <1>1 DEF Adding, Busy, Allocates, Idle
  <2>3. top \in Nat /\ top' = top
    BY <1>1 DEF CountInv
  <2> QED
    BY <1>1, <1>2, <2>1, <2>2, <2>3, OthersSums
<1> QED
  BY <1>3, <1>5, <1>6

\* While no other thread is inside, a thread with a sum has all there is.
LEMMA SumIsAll ==
  ASSUME NEW t \in Thread, MemInv, OwnerInv, CountInv, PeakInv, Adding(t),
         ~shared, ~skewed, ~again
  PROVE  thr[t].reg = Live(heap) /\ top = Larger(peak, thr[t].reg)
<1>1. Busy(t) /\ thr[t].reg = used /\ ~Uncounted(t)
  <2>1. Busy(t) /\ thr[t].reg = used
    BY DEF PeakInv, SumOK
  <2> QED
    BY <2>1 DEF Adding, Uncounted
<1>2. \A u \in Thread \ {t} : ~Busy(u)
  BY <1>1, Company DEF Others
<1>3. \A c : c \in Counted <=> c \in Mine
  BY <1>1, <1>2, CountedIs DEF Mine
<1>4. Counted = Mine
  BY <1>3
<1> QED
  BY <1>1, <1>4, HeapIs DEF CountInv, InUse

\* Comparing with the peak and storing it.
LEMMA PeakCounts ==
  ASSUME NEW t \in Thread, MemInv, MemInv', OwnerInv, CountInv, PeakInv,
         Compare(t) \/ Keep(t), thr[t].op = "malloc"
  PROVE  OwnerInv' /\ CountInv' /\ PeakInv'
<1>1. /\ Busy(t) /\ Holds(t) /\ Adding(t) /\ thr[t].step # "system"
      /\ UNCHANGED <<used, heap, mark, top, shared, raced, skewed, again, reached>>
      /\ \A u \in Thread \ {t} : thr'[u] = thr[u]
      /\ \/ /\ thr[t].step = "compare" /\ thr[t].reg > peak /\ peak' = peak
            /\ thr'[t].op = thr[t].op /\ thr'[t].b = thr[t].b /\ thr'[t].n = thr[t].n
            /\ thr'[t].reg = thr[t].reg /\ thr'[t].step = "keep"
         \/ thr[t].step = "compare" /\ ~(thr[t].reg > peak) /\ peak' = peak /\ thr'[t] = Idle
         \/ thr[t].step = "keep" /\ peak' = thr[t].reg /\ thr'[t] = Idle
  BY DEF Compare, Keep, Busy, Holds, Adding, MemInv, ThreadOK
<1>2. /\ Own(t)
      /\ \A u \in Thread \ {t} : Busy(u) =>
           shared /\ (Holds(u) => thr[u].b \in DOMAIN heap /\ thr[u].b # thr[t].b)
  BY <1>1, Company DEF Others
<1>3. OwnerInv'
  <2>1. Own(t)'
    <3>1. CASE thr'[t] = Idle
      BY <3>1 DEF Own, Busy, Holds, Idle
    <3>2. CASE thr'[t] # Idle
      BY <1>1, <1>2, <3>2 DEF Own, Busy, Holds
    <3> QED
      BY <3>1, <3>2
  <2>2. \A u \in Thread \ {t} : Holds(u) => Busy(u)
    BY DEF Holds
  <2>3. \A u \in Thread \ {t} : Busy(u) /\ thr'[t].op # "idle" =>
          shared' /\ (Holds(u) /\ thr'[t].op # "recount" => thr'[t].b # thr[u].b)
    BY <1>1, <1>2 DEF Idle
  <2> QED
    BY <1>1, <1>2, <2>1, <2>2, <2>3, OthersOwn
<1>4. Counted' = Counted
  <2>1. ~Uncounted(t) /\ (thr'[t].step \notin {"load", "store", "system"} \/ thr'[t].op = "idle")
    BY <1>1 DEF Uncounted, Adding, Idle
  <2>2. \A c : c \in Counted <=>
          /\ c \in DOMAIN heap /\ heap[c].win
          /\ \A u \in Thread \ {t} : Busy(u) /\ Uncounted(u) => thr[u].b # c
    BY <2>1, CountedIs
  <2>3. \A c : c \in Counted' <=>
          /\ c \in DOMAIN heap /\ heap[c].win
          /\ \A u \in Thread \ {t} : Busy(u) /\ Uncounted(u) => thr[u].b # c
    <3>1. heap' = heap /\ \A u \in Thread \ {t} : thr'[u] = thr[u]
      BY <1>1
    <3> QED
      BY <2>1, <3>1, CountedMoves
  <2> QED
    BY <2>2, <2>3
<1>5. InUse' = InUse
  BY <1>1, <1>4, InUseSame
<1>6. /\ top \in Nat /\ peak \in Nat /\ used \in Nat /\ thr[t].reg \in Nat
      /\ Live(heap) \in Nat
  BY HeapIs DEF CountInv, MemInv, ThreadOK
<1>7. ~raced /\ ~again => used <= InUse /\ peak <= top /\ thr[t].reg <= top
  BY <1>1 DEF CountInv, PeakInv, SumOK
<1>8. ~raced' /\ ~again' => used' <= InUse' /\ peak' <= top'
  BY <1>1, <1>5, <1>7
<1>9. ~shared /\ ~skewed /\ ~again =>
        /\ used = InUse /\ thr[t].reg = Live(heap) /\ top = Larger(peak, thr[t].reg)
        /\ thr[t].reg = used
        /\ thr[t].step = "keep" => thr[t].reg > peak
  <2>1. ~shared /\ ~skewed /\ ~again =>
          thr[t].reg = used /\ (thr[t].step = "keep" => thr[t].reg > peak)
    BY <1>1 DEF PeakInv, SumOK
  <2>2. ~shared /\ ~skewed /\ ~again => thr[t].reg = Live(heap) /\ top = Larger(peak, thr[t].reg)
    BY <1>1, SumIsAll
  <2>3. ~shared /\ ~skewed /\ ~again => used = InUse
    BY DEF CountInv
  <2> QED
    BY <2>1, <2>2, <2>3
<1>10. ~shared' /\ ~skewed' /\ ~again' =>
         /\ used' = InUse' /\ top' = Larger(peak', Live(heap'))
         /\ (\A u \in Thread : thr'[u].op # "malloc") => Live(heap') <= peak'
  <2> SUFFICES ASSUME ~shared', ~skewed', ~again'
               PROVE  /\ used' = InUse' /\ top' = Larger(peak', Live(heap'))
                      /\ (\A u \in Thread : thr'[u].op # "malloc") => Live(heap') <= peak'
    OBVIOUS
  <2>1. /\ used = InUse /\ thr[t].reg = Live(heap) /\ top = Larger(peak, thr[t].reg)
        /\ thr[t].step = "keep" => thr[t].reg > peak
    BY <1>1, <1>9
  <2>2. thr'[t].op # "malloc" => Live(heap') <= peak'
    BY <1>1, <1>6, <2>1
  <2>3. top' = Larger(peak', Live(heap'))
    BY <1>1, <1>6, <2>1 DEF Larger
  <2> QED
    BY <1>1, <1>5, <2>1, <2>2, <2>3
<1>11. CountInv'
  <2>1. top' \in Nat /\ Live(heap') <= top' /\ mark' = reached' /\ (~shared' => ~raced')
    BY <1>1 DEF CountInv
  <2> QED
    BY <1>8, <1>10, <2>1 DEF CountInv
<1>12. PeakInv'
  <2>1. SumOK(t)' /\ (Adding(t)' => (Busy(t) /\ Allocates(t))')
    <3>1. CASE thr'[t] = Idle
      BY <3>1, NoSum DEF Idle
    <3>2. CASE thr'[t] # Idle
      BY <1>1, <1>7, <1>9, <3>2 DEF SumOK, Adding, Busy, Allocates
    <3> QED
      BY <3>1, <3>2
  <2> QED
    BY <1>1, <1>2, <1>6, <2>1, OthersSums
<1> QED
  BY <1>3, <1>11, <1>12

LEMMA TakesOff ==
  ASSUME NEW x \in Nat, NEW n \in Nat, NEW y, y = x + n PROVE Larger(y - n, 0) = x
BY DEF Larger

LEMMA SubCounts ==
  ASSUME NEW t \in Thread, MemInv, MemInv', OwnerInv, CountInv, PeakInv, StoreSub(t)
  PROVE  OwnerInv' /\ CountInv' /\ PeakInv'
<1> DEFINE b == thr[t].b
           n == thr[t].n
           rest == Counted \ {b}
<1>1. /\ Store(t) /\ Busy(t) /\ Holds(t) /\ thr[t].op \in {"free", "realloc"} /\ thr[t].op # "malloc"
      /\ thr' = [thr EXCEPT ![t].step = "system"]
      /\ used' = Larger(thr[t].reg - n, 0)
      /\ UNCHANGED <<peak, heap, mark, top, shared, skewed, again, reached>>
  BY DEF StoreSub, Store, mem_sub, Busy, Holds
<1>2. /\ thr'[t].op = thr[t].op /\ thr'[t].b = b /\ thr'[t].n = n /\ thr'[t].step = "system"
      /\ \A u \in Thread \ {t} : thr'[u] = thr[u]
  BY <1>1 DEF MemInv, ThreadOK
<1>3. Own(t) /\ Others(t)
  BY <1>1, Company
<1>4. /\ b \in DOMAIN heap /\ heap[b].size = n /\ (~skewed => heap[b].win)
      /\ \A u \in Thread \ {t} : Busy(u) =>
           shared /\ (Holds(u) => thr[u].b \in DOMAIN heap /\ thr[u].b # b)
  BY <1>1, <1>3 DEF Own, Others
<1>5. OwnerInv'
  <2>1. Own(t)'
    <3>1. thr'[t].op # "idle" /\ thr'[t].op # "malloc" /\ thr'[t].op # "recount"
      BY <1>1, <1>2
    <3>2. thr'[t] # Idle
      <4>1. Idle.op = "idle"
        BY DEF Idle
      <4> QED
        BY <3>1, <4>1
    <3> QED
      BY <1>1, <1>2, <1>4, <3>1, <3>2 DEF Own, Busy, Holds
  <2>2. \A u \in Thread \ {t} : Holds(u) => thr[u].b \in DOMAIN heap' /\ heap'[thr[u].b] = heap[thr[u].b]
    BY <1>1, <1>4 DEF Holds
  <2>3. \A u \in Thread \ {t} : Busy(u) /\ thr'[t].op # "idle" =>
        shared' /\ (Holds(u) /\ thr'[t].op # "recount" => thr'[t].b # thr[u].b)
    BY <1>1, <1>2, <1>4
  <2>4. (skewed => skewed') /\ (raced => raced') /\ (again => again') /\ (shared => shared')
        /\ (raced' \/ \A u \in Thread \ {t} : Busy(u) => thr[u].step # "store")
    BY <1>1, StoreKnows
  <2> QED
    BY <1>2, <2>1, <2>2, <2>3, <2>4, OthersOwn
<1>6. Counted' = rest
  <2>1. thr[t].op # "idle" /\ thr[t].op # "malloc" /\ thr[t].step # "system" /\ thr'[t].op # "idle"
    BY <1>1, <1>2, StoreKnows DEF Busy
  <2>2. \A c : c \in Counted <=>
          /\ c \in DOMAIN heap /\ heap[c].win
          /\ \A u \in Thread \ {t} : Busy(u) /\ Uncounted(u) => thr[u].b # c
    BY <2>1, CountedIs DEF Uncounted
  <2>3. \A c : c \in Counted' <=>
          /\ c \in DOMAIN heap /\ heap[c].win /\ b # c
          /\ \A u \in Thread \ {t} : Busy(u) /\ Uncounted(u) => thr[u].b # c
    <3>1. heap' = heap
      BY <1>1
    <3> QED
      BY <1>2, <2>1, <3>1, CountedMoves
  <2> QED
    BY <2>2, <2>3
<1>7. b \in Counted <=> heap[b].win
  <2>1. ~Uncounted(t)
    BY <1>1, StoreKnows DEF Uncounted
  <2>2. \A u \in Thread \ {t} : Busy(u) /\ Uncounted(u) => Holds(u)
    BY DEF OwnerInv, Own, Holds, Uncounted
  <2>3. \A u \in Thread \ {t} : Busy(u) /\ Uncounted(u) => thr[u].b # b
    BY <1>4, <2>2
  <2> QED
    BY <1>4, <2>1, <2>3, CountedIs
<1>8. /\ n \in Nat /\ top \in Nat /\ peak \in Nat /\ used \in Nat /\ InUse \in Nat /\ InUse' \in Nat
  BY <1>4, HeapIs, HeapIsNext DEF CountInv
<1>9. InUse = InUse' + (IF heap[b].win THEN n ELSE 0)
  <2>1. InUse' = SumOf(Sizes(heap), rest)
    BY <1>1, <1>6 DEF InUse, Sizes
  <2>2. CASE heap[b].win
    <3>1. /\ IsFiniteSet(Counted) /\ b \in Counted /\ Sizes(heap)[b] = n
          /\ \A c \in Counted : Sizes(heap)[c] \in Int
      BY <1>4, <1>7, <2>2, HeapIs
    <3>2. SumOf(Sizes(heap), Counted) = Sizes(heap)[b] + SumOf(Sizes(heap), rest)
      BY <3>1, SumTakesOut
    <3> HIDE DEF n, rest
    <3> QED
      BY <1>8, <2>1, <2>2, <3>1, <3>2 DEF InUse
  <2>3. CASE ~heap[b].win
    <3>1. rest = Counted
      BY <1>7, <2>3
    <3> HIDE DEF rest
    <3> QED
      BY <1>8, <2>1, <2>3, <3>1 DEF InUse
  <2> QED
    BY <2>2, <2>3
<1>10. ~raced' => used' = Larger(used - n, 0)
  BY <1>1, StoreKnows
<1>11. ~raced' /\ ~again' => used' <= InUse' /\ peak' <= top'
  <2> SUFFICES ASSUME ~raced', ~again' PROVE used' <= InUse' /\ peak' <= top'
    OBVIOUS
  <2>1. used <= InUse /\ peak <= top
    BY StoreKnows, <1>1 DEF CountInv
  <2> HIDE DEF n
  <2> QED
    BY <1>1, <1>8, <1>9, <1>10, <2>1 DEF Larger
<1>12. ASSUME ~shared', ~skewed', ~again'
       PROVE  used' = InUse' /\ top' = Larger(peak', Live(heap')) /\ Live(heap') <= peak'
  <2>1. /\ used = InUse /\ top = Larger(peak, Live(heap)) /\ ~raced' /\ heap[b].win
        /\ \A u \in Thread : thr[u].op # "malloc"
    BY <1>1, <1>4, <1>12, StoreKnows DEF CountInv, Busy
  <2>2. Live(heap) <= peak
    BY <1>1, <1>12, <2>1 DEF CountInv
  <2>3. used' = InUse'
    <3>1. InUse = InUse' + n
      BY <1>9, <2>1
    <3>2. used' = Larger(used - n, 0) /\ used = InUse
      BY <1>10, <2>1
    <3>3. InUse' \in Nat /\ n \in Nat
      BY <1>8
    <3> HIDE DEF n
    <3>4. Larger(InUse - n, 0) = InUse'
      BY <3>1, <3>3, TakesOff
    <3> QED
      BY <3>2, <3>4
  <2> QED
    BY <1>1, <2>1, <2>2, <2>3
<1>13. ~shared => ~raced'
  BY <1>1, StoreKnows
<1>14. CountInv'
  BY <1>1, <1>5, <1>11, <1>12, <1>13 DEF CountInv
<1>15. PeakInv'
  <2>1. thr'[t].step \notin {"compare", "keep"} /\ (raced => raced')
    BY <1>1, <1>2, StoreKnows
  <2> QED
    BY <1>1, <1>2, <1>4, <1>8, <2>1, NoSum, OthersSums
<1> QED
  BY <1>5, <1>14, <1>15

LEMMA ReleaseCounts ==
  ASSUME NEW t \in Thread, MemInv, MemInv', OwnerInv, CountInv, PeakInv, Release(t)
  PROVE  OwnerInv' /\ CountInv' /\ PeakInv'
<1> DEFINE b == thr[t].b
<1>1. /\ Busy(t) /\ Holds(t) /\ thr[t].op = "free" /\ thr[t].step = "system" /\ Uncounted(t)
      /\ heap' = [c \in DOMAIN heap \ {b} |-> heap[c]] /\ thr' = [thr EXCEPT ![t] = Idle]
      /\ UNCHANGED <<used, peak, mark, top, shared, raced, skewed, again, reached>>
  BY DEF Release, Busy, Holds, Uncounted
<1>2. thr'[t] = Idle /\ thr'[t].op = "idle" /\ \A u \in Thread \ {t} : thr'[u] = thr[u]
  BY <1>1 DEF MemInv, ThreadOK, Idle
<1>3. Own(t) /\ Others(t)
  BY <1>1, Company
<1>4. /\ DOMAIN heap' = DOMAIN heap \ {b} /\ \A c \in DOMAIN heap' : heap'[c] = heap[c]
      /\ \A u \in Thread \ {t} : Busy(u) => shared /\ (Holds(u) => thr[u].b \in DOMAIN heap')
  BY <1>1, <1>3 DEF Own, Others
<1>5. OwnerInv'
  <2>1. Own(t)'
    BY <1>2 DEF Own, Busy, Idle, Holds
  <2>2. \A u \in Thread \ {t} : Holds(u) => thr[u].b \in DOMAIN heap' /\ heap'[thr[u].b] = heap[thr[u].b]
    BY <1>4 DEF Holds
  <2> QED
    BY <1>1, <1>2, <2>1, <2>2, OthersOwn
<1>6. Counted' = Counted
  <2>1. \A c : c \in Counted <=>
          /\ c \in DOMAIN heap /\ heap[c].win /\ b # c
          /\ \A u \in Thread \ {t} : Busy(u) /\ Uncounted(u) => thr[u].b # c
    BY <1>1, CountedIs
  <2>2. \A c : c \in Counted' <=>
          /\ c \in DOMAIN heap' /\ heap'[c].win
          /\ \A u \in Thread \ {t} : Busy(u) /\ Uncounted(u) => thr[u].b # c
    BY <1>2, CountedMoves
  <2>3. \A c : c \in DOMAIN heap' /\ heap'[c].win <=> c \in DOMAIN heap /\ heap[c].win /\ b # c
    BY <1>4
  <2> QED
    BY <2>1, <2>2, <2>3
<1>7. InUse' = InUse
  <2>1. \A c \in Counted : c \in DOMAIN heap'
    BY <1>6 DEF Counted, Mine
  <2> QED
    BY <1>4, <1>6, <2>1, InUseSame
<1>8. Live(heap') <= Live(heap)
  <2>1. Mine' \in SUBSET Mine /\ \A c \in Mine' : c \in DOMAIN heap' /\ c \in DOMAIN heap
    BY <1>4 DEF Mine
  <2>2. /\ IsFiniteSet(Mine) /\ IsFiniteSet(Mine') /\ \A c \in Mine : Sizes(heap)[c] \in Nat
    BY <2>1, HeapIs, FS_Subset
  <2>3. \A c \in Mine' : Sizes(heap)[c] \in Int /\ Sizes(heap')[c] = Sizes(heap)[c]
    BY <1>4, <2>1, <2>2 DEF Sizes
  <2>4. SumOf(Sizes(heap'), Mine') = SumOf(Sizes(heap), Mine')
    BY <2>2, <2>3, SumAgrees
  <2>5. SumOf(Sizes(heap), Mine') <= SumOf(Sizes(heap), Mine)
    BY <2>1, <2>2, SumOfPart
  <2> QED
    BY <2>4, <2>5, HeapIs, HeapIsNext
<1>9. /\ Live(heap) \in Nat /\ Live(heap') \in Nat /\ peak \in Nat /\ top \in Nat /\ Live(heap) <= top
  BY HeapIs, HeapIsNext DEF CountInv
<1>10. Live(heap') <= top'
  BY <1>1, <1>8, <1>9
<1>11. ASSUME ~shared', ~skewed', ~again'
       PROVE  used' = InUse' /\ top' = Larger(peak', Live(heap')) /\ Live(heap') <= peak'
  <2>1. /\ used = InUse /\ top = Larger(peak, Live(heap))
        /\ \A u \in Thread : thr[u].op # "malloc"
    BY <1>1, <1>4, <1>11 DEF CountInv, Busy
  <2>2. Live(heap) <= peak
    BY <1>1, <1>11, <2>1 DEF CountInv
  <2> QED
    BY <1>1, <1>7, <1>8, <1>9, <2>1, <2>2 DEF Larger
<1>12. top' \in Nat /\ mark' = reached' /\ (~shared' => ~raced') /\ (~raced' /\ ~again' => used' <= InUse' /\ peak' <= top')
  BY <1>1, <1>7 DEF CountInv
<1>13. CountInv'
  BY <1>5, <1>10, <1>11, <1>12 DEF CountInv
<1>14. PeakInv'
  <2>1. thr'[t].step \notin {"compare", "keep"}
    BY <1>2 DEF Idle
  <2> QED
    BY <1>1, <1>2, <1>4, <1>9, <2>1, NoSum, OthersSums
<1> QED
  BY <1>5, <1>13, <1>14

LEMMA ResizeCounts ==
  ASSUME NEW t \in Thread, NEW n \in Size, MemInv, MemInv', OwnerInv, CountInv, PeakInv, Resize(t, n)
  PROVE  OwnerInv' /\ CountInv' /\ PeakInv'
<1> DEFINE b == thr[t].b
<1>1. /\ Busy(t) /\ Holds(t) /\ thr[t].op = "realloc" /\ thr[t].step = "system" /\ Uncounted(t)
      /\ heap' = [heap EXCEPT ![b] = [size |-> n, win |-> TRUE]]
      /\ top' = Larger(top, Live(heap'))
      /\ thr' = [thr EXCEPT ![t].op = "malloc", ![t].step = "load", ![t].n = n]
      /\ UNCHANGED <<used, peak, mark, shared, raced, skewed, again, reached>>
  BY DEF Resize, Busy, Holds, Uncounted
<1>2. /\ thr'[t].op = "malloc" /\ thr'[t].b = b /\ thr'[t].n = n /\ thr'[t].step = "load"
      /\ \A u \in Thread \ {t} : thr'[u] = thr[u]
  BY <1>1 DEF MemInv, ThreadOK
<1>3. Own(t) /\ Others(t)
  BY <1>1, Company
<1>4. /\ b \in DOMAIN heap /\ DOMAIN heap' = DOMAIN heap /\ heap'[b].size = n /\ heap'[b].win
      /\ \A c \in DOMAIN heap : c # b => heap'[c] = heap[c]
      /\ \A u \in Thread \ {t} : Busy(u) =>
           shared /\ (Holds(u) => thr[u].b \in DOMAIN heap /\ thr[u].b # b)
  BY <1>1, <1>3 DEF Own, Others
<1>5. OwnerInv'
  <2>1. Own(t)'
    <3>1. thr'[t] # Idle
      <4>1. Idle.op = "idle"
        BY DEF Idle
      <4> QED
        BY <1>2, <4>1
    <3> QED
      BY <1>2, <1>4, <3>1 DEF Own, Busy, Holds
  <2>2. \A u \in Thread \ {t} : Holds(u) => thr[u].b \in DOMAIN heap' /\ heap'[thr[u].b] = heap[thr[u].b]
    BY <1>4 DEF Holds
  <2>3. \A u \in Thread \ {t} : Busy(u) /\ thr'[t].op # "idle" =>
        shared' /\ (Holds(u) /\ thr'[t].op # "recount" => thr'[t].b # thr[u].b)
    BY <1>1, <1>2, <1>4
  <2> QED
    BY <1>1, <1>2, <2>1, <2>2, <2>3, OthersOwn
<1>6. Counted' = Counted
  <2>1. \A c : c \in Counted <=>
          /\ c \in DOMAIN heap /\ heap[c].win /\ b # c
          /\ \A u \in Thread \ {t} : Busy(u) /\ Uncounted(u) => thr[u].b # c
    BY <1>1, CountedIs
  <2>2. \A c : c \in Counted' <=>
          /\ c \in DOMAIN heap' /\ heap'[c].win /\ b # c
          /\ \A u \in Thread \ {t} : Busy(u) /\ Uncounted(u) => thr[u].b # c
    BY <1>2, CountedMoves
  <2>3. \A c : c \in DOMAIN heap' /\ heap'[c].win /\ b # c <=> c \in DOMAIN heap /\ heap[c].win /\ b # c
    BY <1>4
  <2> QED
    BY <2>1, <2>2, <2>3
<1>7. InUse' = InUse
  <2>1. \A c \in Counted : c # b /\ c \in DOMAIN heap
    BY <1>1, CountedIs
  <2> QED
    BY <1>4, <1>6, <2>1, InUseSame
<1>8. top' \in Nat /\ Live(heap') <= top' /\ top <= top' /\ Live(heap') \in Nat /\ Live(heap) \in Nat
      /\ peak \in Nat /\ top \in Nat
  BY <1>1, HeapIs, HeapIsNext, LargerIs DEF CountInv
<1>9. ASSUME ~shared', ~skewed', ~again' PROVE used' = InUse' /\ top' = Larger(peak', Live(heap'))
  <2>1. /\ used = InUse /\ top = Larger(peak, Live(heap))
        /\ \A u \in Thread : thr[u].op # "malloc"
    BY <1>1, <1>4, <1>9 DEF CountInv, Busy
  <2>2. Live(heap) <= peak
    BY <1>1, <1>9, <2>1 DEF CountInv
  <2>3. top = peak
    BY <1>8, <2>1, <2>2 DEF Larger
  <2> QED
    BY <1>1, <1>7, <2>1, <2>3
<1>10. ~raced' /\ ~again' => used' <= InUse' /\ peak' <= top'
  <2>1. ~raced /\ ~again => used <= InUse /\ peak <= top
    BY DEF CountInv
  <2>2. peak <= top => peak <= top'
    BY <1>8
  <2> QED
    BY <1>1, <1>7, <2>1, <2>2
<1>11. mark' = reached' /\ (~shared' => ~raced')
  BY <1>1 DEF CountInv
<1>12. CountInv'
  BY <1>2, <1>5, <1>8, <1>9, <1>10, <1>11 DEF CountInv
<1>13. PeakInv'
  <2>1. thr'[t].step \notin {"compare", "keep"}
    BY <1>2
  <2> QED
    BY <1>1, <1>2, <1>4, <1>8, <2>1, NoSum, OthersSums
<1> QED
  BY <1>5, <1>12, <1>13

LEMMA RefuseCounts ==
  ASSUME NEW t \in Thread, MemInv, MemInv', OwnerInv, CountInv, PeakInv, Refuse(t)
  PROVE  OwnerInv' /\ CountInv' /\ PeakInv'
<1>1. /\ Busy(t) /\ thr' = [thr EXCEPT ![t] = Idle] /\ skewed'
      /\ UNCHANGED <<used, peak, heap, mark, top, shared, raced, again, reached>>
  BY DEF Refuse, Busy
<1>2. thr'[t] = Idle /\ thr'[t].op = "idle" /\ \A u \in Thread \ {t} : thr'[u] = thr[u]
  BY <1>1 DEF MemInv, ThreadOK, Idle
<1>3. \A u \in Thread \ {t} : Own(u)
  BY DEF OwnerInv
<1>4. OwnerInv'
  <2>1. Own(t)'
    BY <1>2 DEF Own, Busy, Idle, Holds
  <2>2. \A u \in Thread \ {t} : Holds(u) => thr[u].b \in DOMAIN heap' /\ heap'[thr[u].b] = heap[thr[u].b]
    BY <1>1, <1>3 DEF Own, Holds
  <2> QED
    BY <1>1, <1>2, <2>1, <2>2, OthersOwn
<1>5. InUse <= InUse'
  <2>1. \A c : c \in Counted => c \in Counted'
    BY <1>1, <1>2, CountedMoves, CountedIs
  <2>2. Counted' \subseteq Mine
    BY <1>1 DEF Counted, Mine
  <2>3. IsFiniteSet(Counted') /\ Counted \in SUBSET Counted' /\ \A c \in Counted' : Sizes(heap)[c] \in Nat
    BY <2>1, <2>2, HeapIs, FS_Subset
  <2>4. SumOf(Sizes(heap), Counted) <= SumOf(Sizes(heap), Counted')
    BY <2>3, SumOfPart
  <2> QED
    BY <1>1, <2>4 DEF InUse, Sizes
<1>6. ~raced' /\ ~again' => used' <= InUse' /\ peak' <= top'
  <2>1. ~raced /\ ~again => used <= InUse /\ peak <= top
    BY DEF CountInv
  <2>2. used <= InUse => used <= InUse'
    BY <1>5, HeapIs, HeapIsNext
  <2> QED
    BY <1>1, <2>1, <2>2
<1>7. CountInv'
  BY <1>1, <1>4, <1>6 DEF CountInv
<1>8. PeakInv'
  <2>1. thr'[t].step \notin {"compare", "keep"} /\ top \in Nat
    BY <1>2 DEF CountInv, Idle
  <2> QED
    <3>1. \A u \in Thread \ {t} : Busy(u) => shared'
      BY <1>1, Company DEF Others
    <3> QED
      BY <1>1, <1>2, <2>1, <3>1, NoSum, OthersSums
<1> QED
  BY <1>4, <1>7, <1>8

LEMMA WindowCounts ==
  ASSUME MemInv, MemInv', OwnerInv, CountInv, PeakInv, OpenWindow
  PROVE  OwnerInv' /\ CountInv' /\ PeakInv'
<1>1. /\ \A t \in Thread : thr[t] = Idle /\ ~Busy(t)
      /\ used' = 0 /\ peak' = 0 /\ mark' = StackHere /\ reached' = StackHere
      /\ top' = 0 /\ ~shared' /\ ~raced' /\ ~skewed' /\ ~again' /\ thr' = thr
      /\ heap' = [b \in DOMAIN heap |-> [heap[b] EXCEPT !.win = FALSE]]
  BY DEF OpenWindow, Quiet, mempeakinit, stackini, Busy, Idle
<1>2. \A t \in Thread : thr'[t] = Idle /\ thr'[t].op = "idle"
  BY <1>1 DEF Busy
<1>3. OwnerInv'
  <2>1. \A t \in Thread : Own(t)'
    BY <1>2 DEF Own, Busy, Holds
  <2>2. \A t \in Thread : \A u \in Thread \ {t} : Apart(t, u)'
    BY <1>2 DEF Apart, Busy
  <2> QED
    BY <2>1, <2>2 DEF OwnerInv
<1>4. Mine' = {} /\ Counted' = {}
  <2>1. \A b \in DOMAIN heap' : heap'[b].win = FALSE
    BY <1>1 DEF MemInv, MemTypeOK
  <2>2. \A b : b \notin Mine' /\ b \notin Counted'
    BY <2>1 DEF Mine, Counted
  <2> QED
    BY <2>2
<1>5. InUse' = 0 /\ Live(heap') = 0
  BY <1>4, SumOfNone, HeapIsNext DEF InUse
<1>6. PeakInv'
  BY <1>2 DEF PeakInv, SumOK, Adding, Idle
<1> QED
  BY <1>1, <1>3, <1>5, <1>6 DEF CountInv, Larger

LEMMA TouchCounts ==
  ASSUME NEW d \in Nat, MemInv, MemInv', OwnerInv, CountInv, PeakInv, Touch(d)
  PROVE  OwnerInv' /\ CountInv' /\ PeakInv'
<1>1. /\ reached' = Larger(reached, d) /\ mark' = Larger(mark, d)
      /\ UNCHANGED <<used, peak, heap, thr, top, shared, raced, skewed, again>>
  BY DEF Touch
<1>2. OwnerInv'
  BY <1>1 DEF OwnerInv, Own, Apart, Busy, Holds
<1>3. Counted' = Counted
  BY <1>1 DEF Counted, Mine, Busy, Uncounted
<1>4. InUse' = InUse
  BY <1>1, <1>3, InUseSame
<1>5. PeakInv'
  BY <1>1 DEF PeakInv, SumOK, Adding, Busy, Allocates
<1> QED
  BY <1>1, <1>2, <1>4, <1>5 DEF CountInv

AllocInv == OwnerInv /\ CountInv /\ PeakInv

LEMMA MemStays == ASSUME AllocInv, UNCHANGED memVars PROVE AllocInv'
<1>1. UNCHANGED <<used, peak, heap, thr, mark, top, shared, raced, skewed, again, reached>>
  BY DEF memVars
<1>2. OwnerInv'
  BY <1>1 DEF AllocInv, OwnerInv, Own, Apart, Busy, Holds
<1>3. Counted' = Counted
  BY <1>1 DEF Counted, Mine, Busy, Uncounted
<1>4. InUse' = InUse
  BY <1>1, <1>3 DEF InUse
<1>5. PeakInv'
  BY <1>1 DEF AllocInv, PeakInv, SumOK, Adding, Busy, Allocates
<1> QED
  BY <1>1, <1>2, <1>4, <1>5 DEF AllocInv, CountInv

LEMMA GoCounts ==
  ASSUME NEW t \in Thread, MemInv, MemInv', AllocInv, Begin(t) \/ Go(t)
  PROVE  AllocInv'
<1>0. OwnerInv /\ CountInv /\ PeakInv
  BY DEF AllocInv
<1>1. CASE Begin(t)
  <2>1. CASE \E b \in Block : \E n \in Size : malloc(t, b, n)
    BY <1>0, <2>1, MallocCounts DEF AllocInv
  <2>2. CASE \E b \in Block : \E op \in {"free", "realloc"} : free(t, b, op)
    BY <1>0, <2>2, FreeCounts DEF AllocInv
  <2>3. CASE \E n \in Size : recount(t, n)
    BY <1>0, <2>3, AgainCounts DEF AllocInv
  <2> QED
    BY <1>1, <2>1, <2>2, <2>3 DEF Begin
<1>2. CASE StoreAdd(t) \/ Compare(t) \/ Keep(t)
  <2>1. thr[t].op \in {"malloc", "recount"}
    BY <1>2 DEF StoreAdd, Compare, Keep, Allocates
  <2> QED
    BY <1>0, <1>2, <2>1, AddCounts, PeakCounts, AgainCounts DEF AllocInv
<1>3. CASE Load(t) \/ StoreSub(t) \/ Release(t) \/ (\E n \in Size : Resize(t, n)) \/ Refuse(t)
  BY <1>0, <1>3, LoadCounts, SubCounts, ReleaseCounts, ResizeCounts, RefuseCounts DEF AllocInv
<1> QED
  BY <1>1, <1>2, <1>3 DEF Go

\* What the counters say when no thread is inside the family.
LEMMA QuietCounts == ASSUME MemInv, AllocInv PROVE CountersHold
<1>1. ASSUME Quiet PROVE InUse = Live(heap) /\ \A t \in Thread : thr[t].op # "malloc"
  <2>1. \A t \in Thread : ~Busy(t) /\ thr[t].op # "malloc"
    BY <1>1 DEF Quiet, Busy, Idle
  <2>2. \A b : b \in Counted <=> b \in Mine
    BY <2>1 DEF Counted
  <2>3. Counted = Mine
    BY <2>2
  <2> QED
    BY <2>1, <2>3, HeapIs DEF InUse
<1>2. ASSUME Quiet, ~shared, ~skewed, ~again PROVE used = Live(heap) /\ peak = top
  <2>1. used = Live(heap) /\ top = Larger(peak, Live(heap)) /\ Live(heap) <= peak
    BY <1>1, <1>2 DEF AllocInv, CountInv
  <2> QED
    BY <2>1, HeapIs DEF Larger
<1>3. Quiet /\ ~raced /\ ~again => used <= Live(heap) /\ peak <= top
  BY <1>1 DEF AllocInv, CountInv
<1>4. mark = reached
  BY DEF AllocInv, CountInv
<1> QED
  BY <1>2, <1>3, <1>4 DEF CountersHold, stackpeak

LEMMA AllocStart == Init => AllocInv
<1> SUFFICES ASSUME Init PROVE AllocInv
  OBVIOUS
<1>1. /\ used = 0 /\ peak = 0 /\ heap = <<>> /\ (\A t \in Thread : thr[t] = Idle /\ thr[t].op = "idle")
      /\ mark = reached /\ top = 0 /\ ~shared /\ ~raced /\ ~skewed /\ ~again
  BY DEF Init, MemInit, Idle
<1>2. DOMAIN heap = {}
  BY <1>1
<1>3. OwnerInv
  BY <1>1 DEF OwnerInv, Own, Apart, Busy, Holds
<1>4. Mine = {} /\ Counted = {}
  BY <1>2 DEF Mine, Counted
<1>5. InUse = 0 /\ Live(heap) = 0
  <2>1. Live(heap) = SumOf(Sizes(heap), Mine)
    BY DEF Live, SumOf, Mine
  <2> QED
    BY <1>4, <2>1, SumOfNone DEF InUse
<1>6. PeakInv
  BY <1>1 DEF PeakInv, SumOK, Adding, Idle
<1> QED
  BY <1>1, <1>3, <1>5, <1>6 DEF AllocInv, CountInv, Larger

LEMMA AllocNext == TypeInv /\ TypeInv' /\ AllocInv /\ [Next]_vars => AllocInv'
<1> SUFFICES ASSUME TypeInv, TypeInv', AllocInv, [Next]_vars PROVE AllocInv'
  OBVIOUS
<1>0. MemInv /\ MemInv' /\ OwnerInv /\ CountInv /\ PeakInv /\ \A r \in Result : r.deep \in Nat
  BY RunAssumption DEF TypeInv, AllocInv
<1>1. CASE Read \/ StartDecode
  BY <1>0, <1>1, WindowCounts DEF Read, StartDecode, AllocInv
<1>2. CASE CallEncoder
  <2>1. now' \in Result /\ Touch(now'.deep)
    BY <1>2 DEF CallEncoder
  <2> QED
    BY <1>0, <2>1, TouchCounts DEF AllocInv
<1>3. CASE CallDecoder
  <2>1. \E r \in Result : Touch(r.deep)
    BY <1>3 DEF CallDecoder
  <2> QED
    BY <1>0, <2>1, TouchCounts DEF AllocInv
<1>4. CASE Allocate
  <2>1. \E t \in Thread : Begin(t) \/ Go(t)
    BY <1>4 DEF Allocate
  <2> QED
    BY <1>0, <2>1, GoCounts
<1>5. CASE UNCHANGED memVars
  BY <1>5, MemStays
<1> QED
  BY <1>1, <1>2, <1>3, <1>4, <1>5
  DEF Next, vars, StartCodec, EndCodecs, File, EndFiles, Ini, EndOfFile, EndEncode, EndDecode,
      CloseFile, AddFile

LEMMA AllocAlways == Spec => [](TypeInv /\ AllocInv)
<1>1. Spec => []TypeInv
  BY TypeInit, TypeNext, PTL DEF Spec
<1> QED
  BY <1>1, AllocStart, AllocNext, PTL DEF Spec

(* Whatever the threads of a codec allocate, free and reallocate, in any     *)
(* order: without a lost update, and unless a posix_memalign that failed was *)
(* counted, the counters never say more than there is; and alone, with its   *)
(* own blocks, a codec is measured to the byte.                              *)
THEOREM CountersAreRight == Spec => []CountersHold
<1>1. TypeInv /\ AllocInv => CountersHold
  BY QuietCounts DEF TypeInv
<1> QED
  BY <1>1, AllocAlways, PTL

-----------------------------------------------------------------------------
(* The memory of a codec.  plug has the peak of the last window of a file,  *)
(* plugt the largest of the files before; with one chunk a file they are    *)
(* all windows there were.                                                  *)

Amounts == /\ real.memc \in Nat /\ real.memd \in Nat /\ real.nowc \in Nat
           /\ real.nowd \in Nat /\ real.lastc \in Nat /\ real.lastd \in Nat
Bounded == /\ g.memc <= real.memc /\ p.memc <= real.memc
           /\ g.memd <= real.memd /\ p.memd <= real.memd
LastOnes == /\ p.memc = real.nowc /\ p.memd = real.nowd
            /\ g.memc = real.lastc /\ g.memd = real.lastd
AllOfThem == real.memc = Larger(g.memc, p.memc) /\ real.memd = Larger(g.memd, p.memd)
MemoryInv ==
  /\ Amounts /\ chunk \in Nat
  /\ MemoryOfCodec
  /\ pc \in InFile => /\ clean => Bounded
                      /\ plain => LastOnes
                      /\ plain /\ OneChunk => AllOfThem
  /\ pc = "ini" => chunk = 0
  /\ \/ pc \in {"ini", "read"} /\ chunk = 0
     \/ pc \in {"enc", "encRun"} /\ chunk = 1
     => p.memc = 0 /\ p.memd = 0
  /\ pc \in {"cmp", "dec", "decRun"} /\ chunk = 1 => p.memd = 0
  /\ pc \in {"enc", "encRun", "cmp", "dec", "decRun"} => chunk \in 1..argv.files[fno]

LEMMA LargerOfNats ==
  ASSUME NEW x \in Nat, NEW y \in Nat
  PROVE  /\ Larger(x, y) \in Nat /\ x <= Larger(x, y) /\ y <= Larger(x, y)
         /\ Larger(x, 0) = x /\ Larger(0, x) = x
         /\ \A z \in Nat : x <= z /\ y <= z => Larger(x, y) <= z
BY DEF Larger

\* What a window adds: the peak to plug, what there was to the codec's account.
LEMMA WindowAdds ==
  ASSUME NEW G \in Nat, NEW P \in Nat, NEW R \in Nat, NEW pk \in Nat, NEW tp \in Nat
  PROVE  /\ G <= R /\ pk <= tp => G <= Larger(R, tp) /\ pk <= Larger(R, tp)
         /\ R = Larger(G, 0) /\ pk = tp => Larger(R, tp) = Larger(G, pk)
BY DEF Larger

LEMMA MemoryStart == Init => MemoryInv
BY DEF Init, MemoryInv, Amounts, NoReal, Zero, InCodec, InFile, MemoryOfCodec

LEMMA PeaksAre ==
  ASSUME TypeInv, AllocInv, SumInv, Quiet
  PROVE  /\ peak \in Nat /\ top \in Nat /\ (~raced /\ ~again => peak <= top)
         /\ (~shared /\ ~skewed /\ ~again => peak = top)
         /\ p.memc \in Nat /\ p.memd \in Nat /\ g.memc \in Nat /\ g.memd \in Nat
<1>1. CountersHold /\ peak \in Nat /\ top \in Nat
  BY QuietCounts, HeapIs DEF TypeInv, AllocInv, CountInv
<1> QED
  BY <1>1 DEF CountersHold, SumInv, Fields

\* Files of one chunk: the chunk at hand is the first.
LEMMA FirstChunk ==
  ASSUME TypeInv, MemoryInv, OneChunk, pc \in {"encRun", "decRun"} PROVE chunk = 1
<1>1. chunk \in 1..argv.files[fno]
  BY DEF MemoryInv
<1>2. fno \in DOMAIN argv.files /\ argv.files[fno] \in Nat
  <2>1. argv.files \in Seq(Nat) /\ fno \in 1..Len(argv.files)
    BY RunAssumption DEF TypeInv, TypeOK, Position, InFile, InCodec
  <2> QED
    BY <2>1
<1> QED
  BY <1>1, <1>2 DEF OneChunk

LEMMA MemoryNext == TypeInv /\ AllocInv /\ SumInv /\ MemoryInv /\ [Next]_vars => MemoryInv'
<1> SUFFICES ASSUME TypeInv, AllocInv, SumInv, MemoryInv, [Next]_vars PROVE MemoryInv'
  OBVIOUS
<1> USE DEF InFile, InCodec
<1>0. /\ p.memc \in Nat /\ p.memd \in Nat /\ g.memc \in Nat /\ g.memd \in Nat
      /\ Amounts /\ chunk \in Nat
  BY DEF SumInv, Fields, MemoryInv
<1>1. CASE StartCodec
  <2>1. real' = NoReal /\ g' = Zero /\ p' = Zero /\ pc' = "file" /\ UNCHANGED chunk
    BY <1>1 DEF StartCodec, Fresh
  <2> QED
    BY <1>0, <2>1 DEF MemoryInv, Amounts, MemoryOfCodec, NoReal, Zero
<1>2. CASE File
  <2>1. p' = Reset(p) /\ chunk' = 0 /\ UNCHANGED <<argv, g, plain, clean>> /\ pc = "file"
        /\ pc' \in {"ini", "add"} /\ real' = [real EXCEPT !.nowc = 0, !.nowd = 0]
    BY <1>2 DEF File
  <2>2. p'.memc = 0 /\ p'.memd = 0
    BY <2>1 DEF Reset, Zero
  <2>3. Larger(g.memc, 0) = g.memc /\ Larger(g.memd, 0) = g.memd
    BY <1>0, LargerOfNats
  <2>4. /\ real'.nowc = 0 /\ real'.nowd = 0 /\ real'.memc = real.memc /\ real'.memd = real.memd
        /\ real'.lastc = real.lastc /\ real'.lastd = real.lastd
    BY <2>1 DEF SumInv, RealOK
  <2>5. Amounts'
    BY <1>0, <2>4 DEF Amounts
  <2>6. (clean' => Bounded') /\ (plain' => LastOnes') /\ (plain' /\ OneChunk' => AllOfThem')
    BY <1>0, <2>1, <2>2, <2>3, <2>4
    DEF MemoryInv, MemoryOfCodec, Amounts, Bounded, LastOnes, AllOfThem, OneChunk
  <2> QED
    BY <2>1, <2>2, <2>5, <2>6 DEF MemoryInv, MemoryOfCodec
<1>3. CASE Read
  <2>1. real' = [real EXCEPT !.in = @ + 1] /\ chunk' = chunk + 1 /\ pc = "read" /\ pc' \in {"enc", "exit"}
        /\ UNCHANGED <<argv, fno, p, g, plain, clean>> /\ chunk < argv.files[fno]
    BY <1>3 DEF Read
  <2>2. /\ real'.memc = real.memc /\ real'.memd = real.memd /\ real'.nowc = real.nowc
        /\ real'.nowd = real.nowd /\ real'.lastc = real.lastc /\ real'.lastd = real.lastd
    BY <2>1 DEF SumInv, RealOK
  <2>3. Amounts' /\ (Bounded => Bounded') /\ (LastOnes => LastOnes') /\ (AllOfThem => AllOfThem')
        /\ OneChunk' = OneChunk
    BY <1>0, <2>1, <2>2 DEF Amounts, Bounded, LastOnes, AllOfThem, OneChunk
  <2>4. argv.files[fno] \in Nat
    <3>1. argv.files \in Seq(Nat) /\ fno \in 1..Len(argv.files)
      BY <2>1, RunAssumption DEF TypeInv, TypeOK, Position
    <3> QED
      BY <3>1
  <2>5. chunk' \in 1..argv.files[fno]
    BY <1>0, <2>1, <2>4
  <2> QED
    BY <1>0, <2>1, <2>3, <2>5 DEF MemoryInv, MemoryOfCodec
<1>4. CASE EndEncode
  <2>1. /\ Quiet /\ pc = "encRun" /\ pc' \in {"cmp", "read"} /\ UNCHANGED <<argv, fno, g, chunk>>
        /\ p' = [p EXCEPT !.len = @ + now.len, !.tc = @ + now.tc, !.memc = peak, !.stkc = stackpeak]
        /\ real' = [real EXCEPT !.len = @ + now.len, !.tc = @ + now.tc,
                                !.memc = Larger(@, top), !.nowc = top]
        /\ plain' = (plain /\ ~shared /\ ~skewed /\ ~again) /\ clean' = (clean /\ ~raced /\ ~again)
    BY <1>4 DEF EndEncode, WindowWas, mempeak
  <2>2. /\ p'.memc = peak /\ p'.memd = p.memd /\ real'.memc = Larger(real.memc, top) /\ real'.memd = real.memd
        /\ real'.nowc = top /\ real'.nowd = real.nowd
        /\ real'.lastc = real.lastc /\ real'.lastd = real.lastd
    BY <2>1 DEF SumInv, Fields, RealOK
  <2>3. /\ peak \in Nat /\ top \in Nat /\ (clean' => peak <= top) /\ (plain' => peak = top)
    BY <2>1, PeaksAre
  <2>4. Amounts'
    <3>1. real.memc \in Nat
      BY <1>0 DEF Amounts
    <3>2. Larger(real.memc, top) \in Nat
      BY <2>3, <3>1, LargerOfNats
    <3> QED
      BY <1>0, <2>2, <2>3, <3>2 DEF Amounts
  <2>5. ASSUME clean' PROVE Bounded'
    <3>1. Bounded /\ peak <= top /\ real.memc \in Nat
      BY <1>0, <2>1, <2>3, <2>5 DEF MemoryInv, Amounts
    <3>2. g.memc <= Larger(real.memc, top) /\ peak <= Larger(real.memc, top)
      BY <1>0, <2>3, <3>1, WindowAdds DEF Bounded
    <3> QED
      BY <2>1, <2>2, <3>1, <3>2 DEF Bounded
  <2>6. ASSUME plain' PROVE LastOnes'
    BY <2>1, <2>2, <2>3, <2>6 DEF MemoryInv, LastOnes
  <2>7. ASSUME plain', OneChunk' PROVE AllOfThem'
    <3>1. plain /\ OneChunk /\ peak = top /\ real.memc \in Nat
      BY <1>0, <2>1, <2>3, <2>7 DEF OneChunk, Amounts
    <3>2. chunk = 1
      BY <2>1, <3>1, FirstChunk
    <3>3. p.memc = 0 /\ real.memc = Larger(g.memc, 0) /\ real.memd = Larger(g.memd, p.memd)
      BY <2>1, <3>1, <3>2 DEF MemoryInv, AllOfThem
    <3>4. Larger(real.memc, top) = Larger(g.memc, peak)
      BY <1>0, <2>3, <3>1, <3>3, WindowAdds
    <3> QED
      BY <2>1, <2>2, <3>3, <3>4 DEF AllOfThem
  <2>8. (chunk' = 1 => p'.memd = 0) /\ chunk' # 0 /\ chunk' \in 1..argv'.files[fno']
    BY <2>1, <2>2 DEF MemoryInv
  <2> QED
    BY <1>0, <2>1, <2>4, <2>5, <2>6, <2>7, <2>8 DEF MemoryInv, MemoryOfCodec
<1>5. CASE EndDecode
  <2>1. /\ Quiet /\ pc = "decRun" /\ pc' = "read" /\ UNCHANGED <<argv, fno, g, chunk>>
        /\ p' = [p EXCEPT !.td = @ + now.td, !.memd = peak, !.stkd = stackpeak, !.err = FirstOf(@, now.err)]
        /\ real' = [real EXCEPT !.td = @ + now.td, !.err = FirstOf(@, now.err),
                                !.memd = Larger(@, top), !.nowd = top]
        /\ plain' = (plain /\ ~shared /\ ~skewed /\ ~again) /\ clean' = (clean /\ ~raced /\ ~again)
    BY <1>5 DEF EndDecode, WindowWas, mempeak
  <2>2. /\ p'.memd = peak /\ p'.memc = p.memc /\ real'.memd = Larger(real.memd, top) /\ real'.memc = real.memc
        /\ real'.nowd = top /\ real'.nowc = real.nowc
        /\ real'.lastc = real.lastc /\ real'.lastd = real.lastd
    BY <2>1 DEF SumInv, Fields, RealOK
  <2>3. /\ peak \in Nat /\ top \in Nat /\ (clean' => peak <= top) /\ (plain' => peak = top)
    BY <2>1, PeaksAre
  <2>4. Amounts'
    <3>1. real.memd \in Nat
      BY <1>0 DEF Amounts
    <3>2. Larger(real.memd, top) \in Nat
      BY <2>3, <3>1, LargerOfNats
    <3> QED
      BY <1>0, <2>2, <2>3, <3>2 DEF Amounts
  <2>5. ASSUME clean' PROVE Bounded'
    <3>1. Bounded /\ peak <= top /\ real.memd \in Nat
      BY <1>0, <2>1, <2>3, <2>5 DEF MemoryInv, Amounts
    <3>2. g.memd <= Larger(real.memd, top) /\ peak <= Larger(real.memd, top)
      BY <1>0, <2>3, <3>1, WindowAdds DEF Bounded
    <3> QED
      BY <2>1, <2>2, <3>1, <3>2 DEF Bounded
  <2>6. ASSUME plain' PROVE LastOnes'
    BY <2>1, <2>2, <2>3, <2>6 DEF MemoryInv, LastOnes
  <2>7. ASSUME plain', OneChunk' PROVE AllOfThem'
    <3>1. plain /\ OneChunk /\ peak = top /\ real.memd \in Nat
      BY <1>0, <2>1, <2>3, <2>7 DEF OneChunk, Amounts
    <3>2. chunk = 1
      BY <2>1, <3>1, FirstChunk
    <3>3. p.memd = 0 /\ real.memd = Larger(g.memd, 0) /\ real.memc = Larger(g.memc, p.memc)
      BY <2>1, <3>1, <3>2 DEF MemoryInv, AllOfThem
    <3>4. Larger(real.memd, top) = Larger(g.memd, peak)
      BY <1>0, <2>3, <3>1, <3>3, WindowAdds
    <3> QED
      BY <2>1, <2>2, <3>3, <3>4 DEF AllOfThem
  <2>8. chunk' # 0
    BY <2>1 DEF MemoryInv
  <2> QED
    BY <1>0, <2>1, <2>4, <2>5, <2>6, <2>7, <2>8 DEF MemoryInv, MemoryOfCodec
<1>6. CASE AddFile
  <2>1. g' = SumUp(g, p) /\ UNCHANGED <<argv, p, plain, clean, chunk>> /\ pc = "add" /\ pc' = "file"
        /\ real' = [real EXCEPT !.lastc = Larger(@, real.nowc), !.lastd = Larger(@, real.nowd)]
    BY <1>6 DEF AddFile
  <2>2. g'.memc = Larger(g.memc, p.memc) /\ g'.memd = Larger(g.memd, p.memd)
    BY <2>1 DEF SumUp
  <2>3. /\ real'.memc = real.memc /\ real'.memd = real.memd
        /\ real'.nowc = real.nowc /\ real'.nowd = real.nowd
        /\ real'.lastc = Larger(real.lastc, real.nowc) /\ real'.lastd = Larger(real.lastd, real.nowd)
    BY <2>1 DEF SumInv, RealOK
  <2>4. Amounts'
    <3>1. /\ real.lastc \in Nat /\ real.nowc \in Nat
          /\ real.lastd \in Nat /\ real.nowd \in Nat
      BY <1>0 DEF Amounts
    <3>2. Larger(real.lastc, real.nowc) \in Nat /\ Larger(real.lastd, real.nowd) \in Nat
      BY <3>1, LargerOfNats
    <3> QED
      BY <1>0, <2>3, <3>2 DEF Amounts
  <2>5. clean => g'.memc <= real.memc /\ g'.memd <= real.memd
    <3> SUFFICES ASSUME clean PROVE g'.memc <= real.memc /\ g'.memd <= real.memd
      OBVIOUS
    <3>1. /\ g.memc <= real.memc /\ p.memc <= real.memc /\ g.memd <= real.memd /\ p.memd <= real.memd
          /\ real.memc \in Nat /\ real.memd \in Nat
      BY <1>0, <2>1 DEF MemoryInv, Bounded, Amounts
    <3>2. Larger(g.memc, p.memc) <= real.memc /\ Larger(g.memd, p.memd) <= real.memd
      BY <1>0, <3>1, LargerOfNats
    <3> QED
      BY <2>2, <3>2
  <2>6. plain => g'.memc = real'.lastc /\ g'.memd = real'.lastd
    BY <2>1, <2>2, <2>3 DEF MemoryInv, LastOnes
  <2>7. plain /\ OneChunk => g'.memc = real.memc /\ g'.memd = real.memd
    BY <2>1, <2>2 DEF MemoryInv, AllOfThem
  <2>8. MemoryOfCodec'
    BY <2>1, <2>3, <2>5, <2>6, <2>7 DEF MemoryOfCodec, OneChunk
  <2> QED
    BY <1>0, <2>1, <2>4, <2>8 DEF MemoryInv
<1>7. CASE EndCodecs \/ EndFiles
  BY <1>7 DEF EndCodecs, EndFiles, MemoryInv, MemoryOfCodec, Amounts
<1>8. CASE Ini \/ EndOfFile \/ CallEncoder \/ CallDecoder \/ Allocate \/ StartDecode \/ CloseFile
  BY <1>8 DEF Ini, EndOfFile, CallEncoder, CallDecoder, Allocate, StartDecode, CloseFile, MemoryInv,
              MemoryOfCodec, Amounts, Bounded, LastOnes, AllOfThem, OneChunk
<1>9. CASE UNCHANGED vars
  BY <1>9 DEF vars, runVars, MemoryInv, MemoryOfCodec, Amounts, Bounded, LastOnes, AllOfThem, OneChunk
<1> QED
  BY <1>1, <1>2, <1>3, <1>4, <1>5, <1>6, <1>7, <1>8, <1>9 DEF Next

(* The memory a report gives for a codec is never more than the most it had  *)
(* at once, unless an update was lost or a failed posix_memalign counted.     *)
(* Without threads that meet, failures and blocks of an older call it is the  *)
(* most of the last chunks of its files, and with one chunk a file its own.   *)
THEOREM MemoryIsRight == Spec => []MemoryOfCodec
<1>1. MemoryInv => MemoryOfCodec
  BY DEF MemoryInv
<1>2. Spec => [](TypeInv /\ SumInv)
  BY TypeInit, TypeNext, SumStart, SumNext, PTL DEF Spec
<1>3. Spec => []MemoryInv
  BY <1>2, AllocAlways, MemoryStart, MemoryNext, PTL DEF Spec
<1> QED
  BY <1>1, <1>3, PTL

-----------------------------------------------------------------------------
(* The size of all files.  A codec that missed no file was given all of them, *)
(* and so was the last one, whose sum goes into the result file.              *)

FileSum(n) == SumOf(argv.files, 1..n)
Total == FileSum(Len(argv.files))
Given ==
  IF pc = "file" THEN FileSum(fno - 1) ELSE IF pc = "add" THEN FileSum(fno) ELSE FileSum(fno - 1) + chunk
SizeInv ==
  /\ chunk \in Nat
  /\ pc # "exit" => \A i \in 1..(k - 1) : ins[i] # -1 => ins[i] = Total
  /\ pc \in {"codec", "report"} /\ k > 1 /\ ins[k - 1] # -1 => totinlen = Total
  /\ pc \in InCodec /\ ins[k] # -1 => ins[k] = totinlen /\ totinlen = Given
  /\ pc = "report" => k > Len(argv.plug)
  /\ pc = "ini" => chunk = 0
  /\ pc = "close" => chunk = argv.files[fno]

LEMMA FileSums ==
  ASSUME TypeInv
  PROVE  /\ FileSum(0) = 0
         /\ \A n \in 0..Len(argv.files) : FileSum(n) \in Nat
         /\ \A n \in 1..Len(argv.files) : argv.files[n] \in Nat /\ FileSum(n) = FileSum(n - 1) + argv.files[n]
<1>1. argv.files \in Seq(Nat) /\ Len(argv.files) \in Nat
  BY RunAssumption, LineOK DEF TypeInv, TypeOK
<1>2. \A n \in 1..Len(argv.files) : argv.files[n] \in Nat
  BY <1>1, Element
<1>3. ASSUME NEW n \in 0..Len(argv.files)
      PROVE  IsFiniteSet(1..n) /\ (\A i \in 1..n : argv.files[i] \in Nat) /\ FileSum(n) \in Nat
  <2>1. n \in Int /\ 1 \in Int /\ \A i \in 1..n : i \in 1..Len(argv.files)
    BY <1>1
  <2>2. IsFiniteSet(1..n)
    BY <2>1, FS_Interval
  <2>3. \A i \in 1..n : argv.files[i] \in Nat
    BY <1>2, <2>1
  <2> QED
    BY <2>2, <2>3, SumOfNaturals DEF FileSum
<1>4. ASSUME NEW n \in 1..Len(argv.files) PROVE FileSum(n) = FileSum(n - 1) + argv.files[n]
  <2>1. n - 1 \in 0..Len(argv.files) /\ n \notin 1..(n - 1) /\ 1..n = (1..(n - 1)) \cup {n}
    BY <1>1
  <2>2. IsFiniteSet(1..(n - 1)) /\ (\A i \in 1..(n - 1) : argv.files[i] \in Nat) /\ FileSum(n - 1) \in Nat
    BY <1>3, <2>1
  <2>3. argv.files[n] \in Int /\ \A i \in 1..(n - 1) : argv.files[i] \in Int
    BY <1>2, <2>2
  <2>4. SumOf(argv.files, (1..(n - 1)) \cup {n}) = argv.files[n] + SumOf(argv.files, 1..(n - 1))
    BY <2>1, <2>2, <2>3, SumTakesIn
  <2>5. FileSum(n) = argv.files[n] + FileSum(n - 1)
    BY <2>1, <2>4 DEF FileSum
  <2> QED
    BY <2>2, <2>3, <2>5
<1>5. FileSum(0) = 0
  <2>1. 1..0 = {}
    OBVIOUS
  <2> QED
    BY <2>1, SumOfNone DEF FileSum
<1> QED
  BY <1>2, <1>3, <1>4, <1>5

LEMMA Before == ASSUME NEW n \in Nat, NEW j \in 1..n, NEW i \in 1..(j - 1) PROVE i # j /\ i \in 1..n
OBVIOUS

LEMMA SizeStart == Init => SizeInv
BY DEF Init, SizeInv, InCodec

LEMMA SizeNext == TypeInv /\ SizeInv /\ [Next]_vars => SizeInv'
<1> SUFFICES ASSUME TypeInv, SizeInv, [Next]_vars PROVE SizeInv'
  OBVIOUS
<1> USE DEF InCodec
<1>0. /\ k \in 1..Len(argv.plug) + 1 /\ fno \in 1..Len(argv.files) + 1
      /\ Len(argv.plug) \in Nat /\ Len(argv.files) \in Nat
      /\ totinlen \in Nat /\ chunk \in Nat /\ ins \in Seq(Int) /\ Len(ins) \in Nat
      /\ pc # "exit" => Len(ins) = IF pc \in {"codec", "report"} THEN k - 1 ELSE k
      /\ pc \in InCodec => k <= Len(argv.plug)
      /\ pc \in InFile => fno <= Len(argv.files)
  BY LineOK DEF TypeInv, TypeOK, Position, SizeInv
<1>s. /\ FileSum(0) = 0
      /\ \A n \in 0..Len(argv.files) : FileSum(n) \in Nat
      /\ \A n \in 1..Len(argv.files) : argv.files[n] \in Nat /\ FileSum(n) = FileSum(n - 1) + argv.files[n]
  BY FileSums
<1>f. argv' = argv => Total' = Total /\ \A n : FileSum(n)' = FileSum(n)
  BY DEF Total, FileSum
<1>1. CASE StartCodec
  <2>1. /\ pc = "codec" /\ pc' = "file" /\ totinlen' = 0 /\ fno' = 1 /\ ins' = Append(ins, 0)
        /\ UNCHANGED <<argv, k, chunk>>
    BY <1>1 DEF StartCodec, Fresh
  <2>2. Len(ins) = k - 1 /\ ins'[k] = 0 /\ \A i \in 1..(k - 1) : ins'[i] = ins[i]
    BY <1>0, <2>1
  <2>3. Given' = FileSum(0)
    <3>1. Given' = FileSum(fno - 1)'
      BY <2>1 DEF Given
    <3>2. FileSum(fno - 1)' = SumOf(argv.files, 1..(fno' - 1))
      BY <2>1 DEF FileSum
    <3>3. fno' - 1 = 0
      BY <2>1
    <3> QED
      BY <3>1, <3>2, <3>3 DEF FileSum
  <2> QED
    BY <1>0, <1>s, <1>f, <2>1, <2>2, <2>3 DEF SizeInv
<1>2. CASE EndCodecs
  <2>1. /\ pc = "codec" /\ pc' \in {"exit", "report"} /\ k > Len(argv.plug)
        /\ UNCHANGED <<argv, k, chunk, ins, totinlen>>
    BY <1>2 DEF EndCodecs
  <2> QED
    BY <1>f, <2>1 DEF SizeInv
<1>3. CASE File
  <2>1. /\ pc = "file" /\ chunk' = 0 /\ fno <= Len(argv.files) /\ UNCHANGED <<argv, k, fno, totinlen>>
        /\ \/ pc' = "ini" /\ ins' = ins
           \/ pc' = "add" /\ ins' = [ins EXCEPT ![k] = -1]
    BY <1>3 DEF File
  <2>2. k \in 1..Len(ins) /\ DOMAIN ins = 1..Len(ins)
    BY <1>0, <2>1
  <2>3. \A i \in 1..(k - 1) : ins'[i] = ins[i]
    <3>1. \A i \in 1..(k - 1) : i # k /\ i \in DOMAIN ins
      BY <1>0, <2>2, Before
    <3>2. ins' = ins \/ ins' = [ins EXCEPT ![k] = -1]
      BY <2>1
    <3> QED
      BY <3>1, <3>2
  <2>4. CASE pc' = "ini"
    <3>1. Given' = FileSum(fno - 1) + 0 /\ Given = FileSum(fno - 1)
      BY <1>f, <2>1, <2>4 DEF Given, FileSum
    <3>2. FileSum(fno - 1) \in Nat
      <4>1. fno - 1 \in 0..Len(argv.files)
        BY <1>0
      <4> QED
        BY <1>s, <4>1
    <3>3. Given' = Given
      BY <3>1, <3>2
    <3> QED
      BY <1>f, <2>1, <2>4, <3>3 DEF SizeInv
  <2>5. CASE pc' = "add"
    <3>1. ins'[k] = -1
      BY <2>1, <2>2, <2>5
    <3> QED
      BY <1>f, <2>1, <2>3, <2>5, <3>1 DEF SizeInv
  <2> QED
    BY <2>1, <2>4, <2>5
<1>4. CASE EndFiles
  <2>1. /\ pc = "file" /\ fno > Len(argv.files) /\ k' = k + 1 /\ pc' = "codec"
        /\ UNCHANGED <<argv, fno, chunk, totinlen, ins>>
    BY <1>4 DEF EndFiles
  <2>2. fno - 1 = Len(argv.files) /\ k' - 1 = k
    BY <1>0, <2>1
  <2>3. ins[k] # -1 => ins[k] = Total /\ totinlen = Total
    BY <2>1, <2>2 DEF SizeInv, Given, Total
  <2>4. \A i \in 1..k : i \in 1..(k - 1) \/ i = k
    BY <1>0
  <2> QED
    BY <1>f, <2>1, <2>2, <2>3, <2>4 DEF SizeInv
<1>5. CASE Read
  <2>1. /\ pc = "read" /\ chunk' = chunk + 1 /\ totinlen' = totinlen + 1 /\ pc' \in {"enc", "exit"}
        /\ ins' = IF ins[k] = -1 THEN ins ELSE [ins EXCEPT ![k] = @ + 1]
        /\ UNCHANGED <<argv, k, fno>>
    BY <1>5 DEF Read, Missed
  <2>2. k \in 1..Len(ins) /\ DOMAIN ins = 1..Len(ins) /\ ins[k] \in Int
    BY <1>0, <2>1
  <2>3. \A i \in 1..(k - 1) : ins'[i] = ins[i]
    <3>1. \A i \in 1..(k - 1) : i # k /\ i \in DOMAIN ins
      BY <1>0, <2>2, Before
    <3>2. ins' = ins \/ ins' = [ins EXCEPT ![k] = ins[k] + 1]
      BY <2>1
    <3> QED
      BY <3>1, <3>2
  <2>4. ins[k] = -1 => ins'[k] = -1
    BY <2>1
  <2>5. ins[k] # -1 => ins'[k] = ins[k] + 1
    BY <2>1, <2>2
  <2>6. Given = FileSum(fno - 1) + chunk
    BY <2>1 DEF Given
  <2>7. pc' = "enc" => Given' = FileSum(fno - 1) + (chunk + 1)
    BY <1>f, <2>1 DEF Given, FileSum
  <2>8. FileSum(fno - 1) \in Nat
    <3>1. fno - 1 \in 0..Len(argv.files)
      BY <1>0
    <3> QED
      BY <1>s, <3>1
  <2>9. pc' = "enc" /\ ins'[k] # -1 => ins'[k] = totinlen' /\ totinlen' = Given'
    <3> SUFFICES ASSUME pc' = "enc", ins'[k] # -1 PROVE ins'[k] = totinlen' /\ totinlen' = Given'
      OBVIOUS
    <3>1. ins[k] # -1 /\ ins[k] = totinlen /\ totinlen = Given
      BY <2>1, <2>4 DEF SizeInv
    <3> HIDE DEF Given
    <3> QED
      BY <1>0, <2>1, <2>5, <2>6, <2>7, <2>8, <3>1
  <2>10. chunk' \in Nat
    BY <1>0, <2>1
  <2> QED
    BY <1>f, <2>1, <2>3, <2>9, <2>10 DEF SizeInv
<1>6. CASE EndOfFile \/ CloseFile
  <2>1. /\ UNCHANGED <<argv, k, fno, chunk, totinlen, ins>>
        /\ \/ pc = "read" /\ pc' = "close" /\ chunk = argv.files[fno]
           \/ pc = "close" /\ pc' = "add"
    BY <1>6 DEF EndOfFile, CloseFile
  <2>2. Given' = Given
    <3>1. CASE pc = "read"
      BY <2>1, <3>1 DEF Given, FileSum
    <3>2. CASE pc = "close"
      <4>1. Given' = FileSum(fno) /\ Given = FileSum(fno - 1) + argv.files[fno]
        BY <2>1, <3>2 DEF Given, FileSum, SizeInv
      <4>2. fno \in 1..Len(argv.files)
        BY <1>0, <3>2 DEF InFile
      <4> QED
        BY <1>s, <4>1, <4>2
    <3> QED
      BY <2>1, <3>1, <3>2
  <2> QED
    BY <1>f, <2>1, <2>2 DEF SizeInv
<1>7. CASE AddFile
  <2>1. /\ UNCHANGED <<argv, k, chunk, totinlen, ins>> /\ pc = "add" /\ pc' = "file" /\ fno' = fno + 1
    BY <1>7 DEF AddFile
  <2>2. Given' = Given
    <3>1. fno' - 1 = fno
      BY <1>0, <2>1
    <3> QED
      BY <2>1, <3>1 DEF Given, FileSum
  <2> QED
    BY <1>f, <2>1, <2>2 DEF SizeInv
<1>8. CASE Ini \/ CallEncoder \/ CallDecoder \/ Allocate \/ EndEncode \/ StartDecode \/ EndDecode
  <2>1. /\ UNCHANGED <<argv, k, fno, chunk, totinlen, ins>>
        /\ pc \in {"ini", "enc", "encRun", "cmp", "dec", "decRun"}
        /\ pc' \in {"read", "enc", "encRun", "cmp", "dec", "decRun", "exit"}
    BY <1>8 DEF Ini, CallEncoder, CallDecoder, Allocate, EndEncode, StartDecode, EndDecode
  <2>2. Given' = Given
    BY <2>1 DEF Given, FileSum
  <2> QED
    BY <1>f, <2>1, <2>2 DEF SizeInv
<1>9. CASE UNCHANGED vars
  <2>1. UNCHANGED <<argv, pc, k, fno, chunk, totinlen, ins>>
    BY <1>9 DEF vars, runVars
  <2>2. Given' = Given
    BY <2>1 DEF Given, FileSum
  <2> QED
    BY <1>f, <2>1, <2>2 DEF SizeInv
<1> QED
  BY <1>1, <1>2, <1>3, <1>4, <1>5, <1>6, <1>7, <1>8, <1>9 DEF Next

(* Lengths, times and errors of a codec are those of all its chunks, and the  *)
(* size of the files is what every codec was given that missed none.          *)
THEOREM SumsAreRight == Spec => []SumsAddUp
<1>1. ASSUME TypeInv, SizeInv PROVE SizeOfAll
  <2> SUFFICES ASSUME pc = "report", \A i \in DOMAIN ins : ins[i] # -1, NEW i \in DOMAIN ins
               PROVE  ins[i] = totinlen
    BY DEF SizeOfAll
  <2>1. /\ Len(ins) = k - 1 /\ ins \in Seq(Int) /\ k \in Nat /\ k - 1 \in Nat
    BY <1>1, LineOK DEF TypeInv, TypeOK, Position
  <2>2. i \in 1..(k - 1) /\ DOMAIN ins = 1..(k - 1)
    BY <2>1
  <2>3. k > 1 /\ k - 1 \in DOMAIN ins
    BY <2>1, <2>2
  <2> QED
    BY <1>1, <2>2, <2>3 DEF SizeInv
<1>2. SumInv => SumsOfCodec
  BY DEF SumInv, SumsOfCodec
<1>3. Spec => [](TypeInv /\ SumInv)
  BY TypeInit, TypeNext, SumStart, SumNext, PTL DEF Spec
<1>4. Spec => []SizeInv
  BY <1>3, SizeStart, SizeNext, PTL DEF Spec
<1>5. SumsOfCodec /\ SizeOfAll => SumsAddUp
  BY DEF SumsAddUp
<1> QED
  BY <1>1, <1>2, <1>3, <1>4, <1>5, PTL
=============================================================================

------------------------------ MODULE BenchRun ------------------------------
(***************************************************************************)
(* The loop of main over codecs and files (src/turbobench.c 2262-2290) and *)
(* what plugfile does for it: open, codini, chunk by chunk encoder and     *)
(* decoder, codexit.  BlockCodec models the bytes of a chunk and TimeLoop  *)
(* its time; here a chunk is what they leave behind: a length, two times,  *)
(* whether memcheck found a difference and how deep the stack went.        *)
(* MemTrack counts the memory of encoder and decoder, CodecLife keeps what *)
(* the codec needs.                                                        *)
(*                                                                         *)
(* tm_Repk is 1 (2204): the outer loop turns once.  A file that cannot be  *)
(* opened is skipped; it may be opened for one codec and not for another.  *)
(***************************************************************************)
EXTENDS MemTrack, CodecLife, Sequences

CONSTANTS
  Runs,              \* command lines: [plug, files, cmp, mem], a file the number of its
                     \* chunks; mem bounds the calls of the malloc family
  Result             \* what a chunk may come to: [len, tc, td, err, deep]

(* Only codecs with a case of their own ask for more than the static work
   memory (src/plugin.cc 2236-2389). *)
ASSUME RunAssumption ==
  /\ \A r \in Runs : /\ r.plug \in Seq([kind : STRING, ask : Nat]) \ {<<>>}
                     /\ \A i \in DOMAIN r.plug :
                          r.plug[i].kind # "sized" => r.plug[i].ask <= WorkStatic
                     /\ r.files \in Seq(Nat) \ {<<>>} /\ r.mem \in Nat
  /\ Result \subseteq [len : Nat, tc : Nat, td : Nat, err : Nat, deep : Nat]

VARIABLES
  argv,              \* the command line
  pc,                \* "codec", "file", "ini", "read", "enc", "encRun", "cmp", "dec",
                     \* "decRun", "close", "add", "report", "exit"
  k, fno,            \* the codec, the file
  chunk,             \* chunks read of this file
  now,               \* what the codec made of this chunk
  totinlen,
  p,                 \* plug[k]: of this file; err of all files
  g,                 \* plugt[k]: of all files
  ops,               \* calls of the malloc family
  real,              \* history: what this codec did, all chunks added up
  plain,             \* history: no window of this codec shared, skewed or counted again
  clean,             \* history: none raced or counted again
  ins                \* history: bytes each codec was given; -1: a file was missed

runVars == <<argv, pc, k, fno, chunk, now, totinlen, p, g, ops, real, plain, clean, ins>>
vars == <<memVars, lifeVars, runVars>>

None == [len |-> 0, tc |-> 0, td |-> 0, err |-> 0, deep |-> StackHere]
Zero == [len |-> 0, tc |-> 0, td |-> 0, memc |-> 0, memd |-> 0, stkc |-> 0, stkd |-> 0, err |-> 0]
(* memc and memd are the most of all chunks, nowc and nowd of the last chunk of
   this file, lastc and lastd of the last chunks of the files before it. *)
NoReal == [in |-> 0, len |-> 0, tc |-> 0, td |-> 0, err |-> 0, memc |-> 0, memd |-> 0,
           nowc |-> 0, nowd |-> 0, lastc |-> 0, lastd |-> 0]

Codec == argv.plug[k]

TypeOK ==
  /\ MemTypeOK /\ LifeTypeOK
  /\ argv \in Runs /\ k \in 1..Len(argv.plug) + 1 /\ fno \in 1..Len(argv.files) + 1
  /\ pc \in {"codec", "file", "ini", "read", "enc", "encRun", "cmp", "dec", "decRun",
            "close", "add", "report", "exit"}
  /\ now \in Result \cup {None} /\ totinlen \in Nat
  /\ pc # "exit" => Len(ins) = IF pc \in {"codec", "report"} THEN k - 1 ELSE k

Init ==
  /\ MemInit /\ LifeInit
  /\ argv \in Runs /\ pc = "codec" /\ k = 1 /\ fno = 1 /\ chunk = 0 /\ now = None
  /\ totinlen = 0 /\ p = Zero /\ g = Zero /\ ops = 0
  /\ real = NoReal /\ plain = TRUE /\ clean = TRUE /\ ins = <<>>

(* What is started anew for each codec: [totinlen, g]. *)

(* Mutant: not totinlen. *)
FreshTotal == [totinlen |-> totinlen, g |-> Zero]

Fresh == [totinlen |-> 0, g |-> Zero]

StartCodec ==
  /\ pc = "codec" /\ k <= Len(argv.plug)
  /\ totinlen' = Fresh.totinlen /\ g' = Fresh.g
  /\ fno' = 1 /\ p' = Zero /\ pc' = "file"
  /\ real' = NoReal /\ plain' = TRUE /\ clean' = TRUE /\ ins' = Append(ins, 0)
  /\ UNCHANGED <<memVars, lifeVars, argv, k, chunk, now, ops>>

(* Without input there is nothing to report (2307). *)
EndCodecs ==
  /\ pc = "codec" /\ k > Len(argv.plug)
  /\ pc' = IF totinlen = 0 THEN "exit" ELSE "report"
  /\ UNCHANGED <<memVars, lifeVars, argv, k, fno, chunk, now, totinlen, p, g, ops,
                 real, plain, clean, ins>>

(* Mutant: a file that cannot be opened leaves the numbers of the last one. *)
ResetNothing(q) == q

(* Lines 2274 and 1950; err is not started anew. *)
Reset(q) == [Zero EXCEPT !.err = q.err]

(* plugfile opens the file, or returns 0. *)
File ==
  /\ pc = "file" /\ fno <= Len(argv.files)
  /\ p' = Reset(p) /\ chunk' = 0
  /\ real' = [real EXCEPT !.nowc = 0, !.nowd = 0]
  /\ \/ pc' = "ini" /\ UNCHANGED ins
     \/ pc' = "add" /\ ins' = [ins EXCEPT ![k] = -1]
  /\ UNCHANGED <<memVars, lifeVars, argv, k, fno, now, totinlen, g, ops, plain, clean>>

(* Mutant: the codec is not advanced. *)
EndFilesSame ==
  /\ pc = "file" /\ fno > Len(argv.files)
  /\ pc' = "codec"
  /\ UNCHANGED <<memVars, lifeVars, argv, k, fno, chunk, now, totinlen, p, g, ops,
                 real, plain, clean, ins>>

EndFiles ==
  /\ pc = "file" /\ fno > Len(argv.files)
  /\ k' = k + 1 /\ pc' = "codec"
  /\ UNCHANGED <<memVars, lifeVars, argv, fno, chunk, now, totinlen, p, g, ops,
                 real, plain, clean, ins>>

(* The buffers are there and are not counted: no window is open. *)
Ini ==
  /\ pc = "ini"
  /\ codini(Codec)
  /\ pc' = IF alive' THEN "read" ELSE "exit"
  /\ UNCHANGED <<memVars, argv, k, fno, chunk, now, totinlen, p, g, ops, real, plain, clean, ins>>

Missed == ins[k] = -1

(* fread, the window of the encoder, codstart. *)
Read ==
  /\ pc = "read" /\ chunk < argv.files[fno]
  /\ chunk' = chunk + 1 /\ totinlen' = totinlen + 1
  /\ OpenWindow /\ codstart(Codec, "c")
  /\ pc' = IF alive' THEN "enc" ELSE "exit"
  /\ real' = [real EXCEPT !.in = @ + 1]
  /\ ins' = IF Missed THEN ins ELSE [ins EXCEPT ![k] = @ + 1]
  /\ UNCHANGED <<argv, k, fno, now, p, g, ops, plain, clean>>

EndOfFile ==
  /\ pc = "read" /\ chunk = argv.files[fno]
  /\ pc' = "close"
  /\ UNCHANGED <<memVars, lifeVars, argv, k, fno, chunk, now, totinlen, p, g, ops,
                 real, plain, clean, ins>>

(* All calls of the timing loop are one: what they do to the memory happens
   between the call and the end. *)
CallEncoder ==
  /\ pc = "enc" /\ pc' = "encRun"
  /\ now' \in Result /\ Touch(now'.deep) /\ FirstCall(Codec)
  /\ UNCHANGED <<argv, k, fno, chunk, totinlen, p, g, ops, real, plain, clean, ins>>

CallDecoder ==
  /\ pc = "dec" /\ pc' = "decRun"
  /\ \E r \in Result : Touch(r.deep)
  /\ UNCHANGED <<lifeVars, argv, k, fno, chunk, now, totinlen, p, g, ops, real, plain, clean, ins>>

(* A codec allocates while it runs, in one thread or in several. *)
Allocate ==
  /\ pc \in {"encRun", "decRun"}
  /\ \/ ops < argv.mem /\ (\E t \in Thread : Begin(t)) /\ ops' = ops + 1
     \/ (\E t \in Thread : Go(t)) /\ UNCHANGED ops
  /\ UNCHANGED <<lifeVars, argv, pc, k, fno, chunk, now, totinlen, p, g, real, plain, clean, ins>>

WindowWas ==
  /\ plain' = (plain /\ ~shared /\ ~skewed /\ ~again)
  /\ clean' = (clean /\ ~raced /\ ~again)

EndEncode ==
  /\ pc = "encRun" /\ Quiet
  /\ p' = [p EXCEPT !.len = @ + now.len, !.tc = @ + now.tc, !.memc = mempeak, !.stkc = stackpeak]
  /\ real' = [real EXCEPT !.len = @ + now.len, !.tc = @ + now.tc,
                          !.memc = Larger(@, top), !.nowc = top]
  /\ WindowWas
  /\ codend(Codec) /\ pc' = IF argv.cmp THEN "cmp" ELSE "read"
  /\ UNCHANGED <<memVars, argv, k, fno, chunk, now, totinlen, g, ops, ins>>

StartDecode ==
  /\ pc = "cmp"
  /\ OpenWindow /\ codstart(Codec, "d")
  /\ pc' = IF alive' THEN "dec" ELSE "exit"
  /\ UNCHANGED <<argv, k, fno, chunk, now, totinlen, p, g, ops, real, plain, clean, ins>>

FirstOf(a, b) == IF a # 0 THEN a ELSE b

(* memcheck follows; its first error stays. *)
EndDecode ==
  /\ pc = "decRun" /\ Quiet
  /\ p' = [p EXCEPT !.td = @ + now.td, !.memd = mempeak, !.stkd = stackpeak,
                    !.err = FirstOf(@, now.err)]
  /\ real' = [real EXCEPT !.td = @ + now.td, !.err = FirstOf(@, now.err),
                          !.memd = Larger(@, top), !.nowd = top]
  /\ WindowWas
  /\ codend(Codec) /\ pc' = "read"
  /\ UNCHANGED <<memVars, argv, k, fno, chunk, now, totinlen, g, ops, ins>>

CloseFile ==
  /\ pc = "close" /\ pc' = "add"
  /\ codexit(Codec)
  /\ UNCHANGED <<memVars, argv, k, fno, chunk, now, totinlen, p, g, ops, real, plain, clean, ins>>

(* Mutant: memory is added up like time. *)
SumUpMemory(G, q) ==
  [len |-> G.len + q.len, tc |-> G.tc + q.tc, td |-> G.td + q.td, err |-> FirstOf(G.err, q.err),
   memc |-> G.memc + q.memc, memd |-> G.memd + q.memd,
   stkc |-> Larger(G.stkc, q.stkc), stkd |-> Larger(G.stkd, q.stkd)]

(* Lengths and times add up, of memory and stack the largest stays. *)
SumUp(G, q) ==
  [len |-> G.len + q.len, tc |-> G.tc + q.tc, td |-> G.td + q.td, err |-> FirstOf(G.err, q.err),
   memc |-> Larger(G.memc, q.memc), memd |-> Larger(G.memd, q.memd),
   stkc |-> Larger(G.stkc, q.stkc), stkd |-> Larger(G.stkd, q.stkd)]

AddFile ==
  /\ pc = "add" /\ pc' = "file"
  /\ g' = SumUp(g, p) /\ fno' = fno + 1
  /\ real' = [real EXCEPT !.lastc = Larger(@, real.nowc), !.lastd = Larger(@, real.nowd)]
  /\ UNCHANGED <<memVars, lifeVars, argv, k, chunk, now, totinlen, p, ops, plain, clean, ins>>

Next ==
  \/ StartCodec \/ EndCodecs \/ File \/ EndFiles \/ Ini \/ Read \/ EndOfFile
  \/ CallEncoder \/ CallDecoder \/ Allocate \/ EndEncode \/ StartDecode \/ EndDecode
  \/ CloseFile \/ AddFile

Spec == Init /\ [][Next]_vars

-----------------------------------------------------------------------------
(* Properties.                                                             *)

(* While a codec runs it has what it asked for, whatever ran before it: work
   memory of its size, its tables, its handle and the dictionary made for it. *)
CodecIsPrepared ==
  /\ pc \in {"enc", "encRun"} => Prepared(Codec, "c")
  /\ pc \in {"dec", "decRun"} => Prepared(Codec, "d")

(* From file to file and from codec to codec nothing is left behind, however
   the codec before ended. *)
NothingLeft == pc \in {"codec", "file", "ini", "report"} => NothingHeld

(* What stands in the table for a codec is the sum over all its chunks of all
   its files and of nothing else, with its first error; and the size that goes
   into the result file is what every codec was given, unless a file could not
   be opened for one of them. *)
SumsOfCodec ==
  pc = "file" => /\ g.len = real.len /\ g.tc = real.tc /\ g.td = real.td
                 /\ g.err = real.err
SizeOfAll ==
  pc = "report" /\ (\A i \in DOMAIN ins : ins[i] # -1) =>
    \A i \in DOMAIN ins : ins[i] = totinlen
SumsAddUp == SumsOfCodec /\ SizeOfAll

(* The memory reported is never more than the most the codec had at once,
   unless an update was lost or a posix_memalign that failed was counted.  Where
   no threads meet, nothing fails and the codec frees only what it allocated in
   the same call, it is to the byte the most of the last chunks of the files, for
   each file's other chunks are forgotten; so it is the codec's own when every
   file is one chunk. *)
OneChunk == \A i \in DOMAIN argv.files : argv.files[i] <= 1
MemoryOfCodec ==
  pc = "file" => /\ clean => g.memc <= real.memc /\ g.memd <= real.memd
                 /\ plain => g.memc = real.lastc /\ g.memd = real.lastd
                 /\ plain /\ OneChunk => g.memc = real.memc /\ g.memd = real.memd
=============================================================================

----------------------------- MODULE BlockCodec -----------------------------
(***************************************************************************)
(* The block framing of the benchmark: the read loop of plugfile, the      *)
(* encoder becomp and the decoder bedecomp (src/turbobench.c), for one     *)
(* codec and one file.                                                     *)
(*                                                                         *)
(* plugfile reads the file chunk by chunk.  becomp cuts a chunk into       *)
(* sub-blocks of at most bsize bytes, hands each to the codec and writes   *)
(* the result behind a 0, 2 or 4 byte length; with option -m the chunk is  *)
(* itself a sequence of blocks, each behind a 4 byte length.  Nothing in   *)
(* the output says which widths were used: bedecomp recomputes every       *)
(* width, every sub-block size and the raw/compressed decision from the    *)
(* sizes it has restored so far.                                           *)
(*                                                                         *)
(* TMBEG and TMENDC repeat becomp's loops for as long as the clock says;   *)
(* each run writes from the start of the output buffer over what the runs  *)
(* before it left.  bedecomp is repeated too, over an output it does not   *)
(* change: its runs are one here.                                          *)
(*                                                                         *)
(* A byte is its position.  The output buffer is a partial function from   *)
(* positions to the items written there.  Codecs are external: codcomp     *)
(* returns any value of CodecRet, and coddecomp restores a sub-block when  *)
(* it gets exactly the bytes codcomp produced for it.                      *)
(***************************************************************************)
EXTENDS Integers, FiniteSets

CONSTANTS
  W16,        \* 2^16: sizes below it fit a two byte length
  W32,        \* 2^32: the range of an unsigned int
  Files,      \* the files: [size, at], at maps the offset of a -m block to its length
  Opts,       \* the command lines: [mode, mcpy, cmp, bsize, blk, min, max, runs],
              \* runs bounds the runs the timing loop makes with its -I and -t
  CodecRet,   \* what codcomp may return (0 = failure, W32-1 = failure as -1)
  Garbage,    \* what reading four arbitrary bytes as a length may give
  Slack       \* the constant part of the output buffer (10*Mb)

ASSUME WidthAssumption == W16 \in Nat /\ W32 \in Nat /\ 0 < W16 /\ W16 < W32
ASSUME FileAssumption ==
  \A f \in Files : /\ f.size \in Nat
                   /\ \A o \in DOMAIN f.at : f.at[o] \in Nat
\* A merged file (0 is the offset of a block) is nothing but blocks, each behind
\* its length, as bebuild writes them (see MultiBlock).
ASSUME MergedAssumption ==
  \A f \in Files : 0 \in DOMAIN f.at =>
    \A o \in DOMAIN f.at : LET next == o + 4 + f.at[o] IN
      /\ o \in Nat /\ next <= f.size
      /\ next \in DOMAIN f.at \cup {f.size}
      /\ \A p \in DOMAIN f.at : o < p => next <= p
ASSUME OptAssumption ==
  \A o \in Opts : /\ o.mode \in BOOLEAN /\ o.mcpy \in BOOLEAN /\ o.cmp \in 0..4
                  /\ o.bsize \in Nat \ {0} /\ o.blk \in Nat
                  /\ o.min \in Nat /\ o.max \in Nat
                  /\ o.runs \in Nat \ {0}
ASSUME CodecAssumption == CodecRet \subseteq Nat /\ Garbage \subseteq Nat
ASSUME SlackAssumption == Slack \in Nat

VARIABLES
  pc,      \* where plugfile, becomp or bedecomp is
  opt,     \* the command line, fixed at start
  file,    \* the file, fixed at start
  tot,     \* totinlen: bytes read from the file so far
  buf,     \* [base, len, nb, bsize]: the chunk's offset, its length, copies, sub-block size
  ip,      \* becomp: position in the input (both `in' and `ip')
  iend,    \* becomp: end of the current block (`in' after in += inlen)
  inlen,   \* becomp: length of the current block
  op,      \* becomp: position in the output
  run,     \* becomp: which run of the timing loop this is
  out,     \* the output buffer: position -> item, as this run wrote them
  old,     \* the items the runs before this one wrote for the same chunk
  failed,  \* becomp: left by `goto end' after the codec failed
  olen,    \* plugfile: outlen, the size handed to bedecomp
  plen,    \* plug->len: the compressed size reported
  rip, rop, rend, outlen, \* bedecomp: ip, op, `out' after out += outlen, outlen
  err      \* plug->err # 0

runVars  == <<run, old>>
encVars  == <<ip, iend, inlen, op, out, runVars, failed>>
decVars  == <<rip, rop, rend, outlen>>
confVars == <<opt, file>>
vars == <<pc, confVars, tot, buf, encVars, olen, plen, decVars, err>>

-----------------------------------------------------------------------------
(* Sizes.                                                                  *)

Lesser(a, b) == IF a < b THEN a ELSE b

\* filen: the file's size, limited by -B
Filen == IF opt.max # 0 /\ file.size > opt.max THEN opt.max ELSE file.size

\* insize: the chunk size, at least the -s size for a small file
Insize == IF Filen < opt.min THEN opt.min ELSE Lesser(Filen, opt.bsize)

\* outsize = insize*fac + 10*Mb with fac = 1.3
Outsize == (Insize * 13) \div 10 + Slack

\* the bytes in the buffer: the chunk and its nb-1 copies
Total == buf.len * buf.nb

\* nb: as many copies of a chunk below the -s size as fit in the buffer
Copies(n) == IF n < opt.min THEN Insize \div n ELSE 1

\* the sub-block size after reading a chunk of n bytes
SubSize(n) == IF n < opt.min THEN n ELSE buf.bsize

\* what becomp reads as the length of the -m block at position p
LengthsAt(p) ==
  LET o == buf.base + (p % buf.len)
  IN  IF o \in DOMAIN file.at THEN {file.at[o]} ELSE Garbage

\* Mistakes the helpers below could contain; the properties must tell them apart.
ClampSigned(n, rest) == IF n > rest THEN rest ELSE n
StoreRawLarger(r, n) == opt.mcpy /\ (r = 0 \/ r > n)
StoreRawFailed(r, n) == opt.mcpy /\ r = 0
CutFull(rest) == buf.bsize

\* a block is cut at the end of the buffer; the subtraction is unsigned
Clamp(n, rest) == IF n > rest THEN rest % W32 ELSE n

\* bs: the width of a sub-block's length
HdrWidth(total, n) ==
  IF opt.mode \/ buf.bsize < total THEN (IF Lesser(buf.bsize, n) < W16 THEN 2 ELSE 4) ELSE 0

\* -P stores a sub-block as it is when the codec failed or did not shrink it
StoreRaw(r, n) == opt.mcpy /\ (r = 0 \/ r >= n)

\* iplen: the next sub-block takes at most bsize of the rest of the block
Cut(rest) == Lesser(rest, buf.bsize)

Put(pos, item) == [p \in DOMAIN out \cup {pos} |-> IF p = pos THEN item ELSE out[p]]

NoItems == [p \in {} |-> 0]

\* the items earlier runs left behind what this run wrote, and the buffer when
\* those at kept are still there
Behind == {p \in DOMAIN old : p >= op}
OnTop(kept) == [p \in DOMAIN out \cup kept |-> IF p \in DOMAIN out THEN out[p] ELSE old[p]]

-----------------------------------------------------------------------------
(* plugfile: set up, read a chunk.                                         *)

Init ==
  /\ pc = "read"
  /\ opt \in Opts
  /\ file \in Files
  /\ tot = 0
  /\ buf = [base |-> 0, len |-> 0, nb |-> 1,
            bsize |-> IF opt.blk # 0 THEN opt.blk ELSE opt.bsize]
  /\ ip = 0 /\ iend = 0 /\ inlen = 0 /\ op = 0 /\ out = NoItems /\ failed = FALSE
  /\ run = 1 /\ old = NoItems
  /\ olen = 0 /\ plen = 0
  /\ rip = 0 /\ rop = 0 /\ rend = 0 /\ outlen = 0
  /\ err = FALSE

\* fread gives a chunk; memrcpy covers the start of the output buffer with the
\* chunk's bytes, back to front, and the encoder starts on it
Read ==
  /\ pc = "read"
  /\ LET n == Lesser(Insize, file.size - tot)
     IN  /\ n > 0
         /\ tot' = tot + n
         /\ buf' = [base |-> tot, len |-> n, nb |-> Copies(n), bsize |-> SubSize(n)]
  /\ pc' = "block"
  /\ ip' = 0 /\ iend' = 0 /\ inlen' = 0 /\ op' = 0 /\ out' = NoItems /\ failed' = FALSE
  /\ run' = 1 /\ old' = NoItems
  /\ UNCHANGED <<confVars, olen, plen, decVars, err>>

\* fread gives nothing: the loop ends
ReadNothing ==
  /\ pc = "read"
  /\ Lesser(Insize, file.size - tot) = 0
  /\ pc' = "done"
  /\ UNCHANGED <<confVars, tot, buf, encVars, olen, plen, decVars, err>>

-----------------------------------------------------------------------------
(* becomp.                                                                 *)

\* the outer loop without -m: the whole buffer is the block
EncBlockAll ==
  /\ pc = "block" /\ ip < Total /\ ~opt.mode
  /\ inlen' = Total
  /\ iend' = ip + Total
  /\ pc' = "enc"
  /\ UNCHANGED <<confVars, tot, buf, ip, op, out, runVars, failed, olen, plen, decVars, err>>

\* the outer loop with -m: copy the block's length to the output, then clamp it
EncBlockOne ==
  /\ pc = "block" /\ ip < Total /\ opt.mode
  /\ \E v \in LengthsAt(ip) :
       LET n == Clamp(v, Total - (ip + 4))
       IN  /\ inlen' = n
           /\ iend' = ip + 4 + n
           /\ out' = Put(op, [kind |-> "blk", hdr |-> 4, val |-> v, src |-> ip, len |-> 4, raw |-> TRUE,
                              end |-> ip + 4 + n, blk |-> n])
  /\ ip' = ip + 4
  /\ op' = op + 4
  /\ pc' = "enc"
  /\ UNCHANGED <<confVars, tot, buf, runVars, failed, olen, plen, decVars, err>>

\* the inner loop is at the end of the block
EncBlockEnd ==
  /\ pc = "enc" /\ ip >= iend
  /\ pc' = "block"
  /\ UNCHANGED <<confVars, tot, buf, encVars, olen, plen, decVars, err>>

\* the outer loop is at the end of the buffer and the clock asks for another run
EncAgain ==
  /\ pc = "block" /\ ip >= Total /\ run < opt.runs
  /\ run' = run + 1
  /\ old' = OnTop(Behind)
  /\ ip' = 0 /\ iend' = 0 /\ inlen' = 0 /\ op' = 0 /\ out' = NoItems
  /\ UNCHANGED <<pc, confVars, tot, buf, failed, olen, plen, decVars, err>>

\* the clock has enough runs: becomp returns, plugfile adds up
EncEnd ==
  /\ pc = "block" /\ ip >= Total
  /\ olen' = op \div buf.nb
  /\ plen' = plen + op \div buf.nb
  /\ pc' = "coded"
  /\ UNCHANGED <<confVars, tot, buf, encVars, decVars, err>>

\* the inner loop compresses the next sub-block: codcomp returns r
Sub == Cut(iend - ip)
SubHdr == HdrWidth(inlen, Sub)
Stored(r) == IF StoreRaw(r, Sub) THEN Sub ELSE r

EncGuard == pc = "enc" /\ ip < iend

EncStore(r) ==
  /\ EncGuard /\ ip + Sub <= Total
  /\ r # 0 \/ opt.mcpy
  /\ SubHdr = 2 => Stored(r) < W16
  /\ op + SubHdr + Stored(r) <= Outsize
  /\ out' = Put(op, [kind |-> "sub", hdr |-> SubHdr, val |-> Stored(r), src |-> ip, len |-> Sub,
                     raw |-> StoreRaw(r, Sub), end |-> iend, blk |-> inlen])
  /\ op' = op + SubHdr + Stored(r)
  /\ ip' = ip + Sub
  /\ UNCHANGED <<pc, confVars, tot, buf, iend, inlen, runVars, failed, olen, plen, decVars, err>>

\* codcomp returned 0 and there is no -P: op = _out; goto end.  The buffer keeps
\* what this run wrote, and what the failing call spares of the earlier runs'.
EncFail(r) ==
  /\ EncGuard /\ ip + Sub <= Total
  /\ r = 0 /\ ~opt.mcpy
  /\ \E kept \in SUBSET Behind : out' = OnTop(kept)
  /\ op' = 0
  /\ failed' = TRUE
  /\ olen' = 0
  /\ pc' = "coded"
  /\ UNCHANGED <<confVars, tot, buf, ip, iend, inlen, runVars, plen, decVars, err>>

\* die("Output larger than input! Use option '-P'")
EncDieLarger(r) ==
  /\ EncGuard /\ ip + Sub <= Total
  /\ r # 0 \/ opt.mcpy
  /\ SubHdr = 2 /\ Stored(r) >= W16
  /\ pc' = "larger"
  /\ UNCHANGED <<confVars, tot, buf, encVars, olen, plen, decVars, err>>

\* die("Overflow error")
EncDieOverflow(r) ==
  /\ EncGuard /\ ip + Sub <= Total
  /\ r # 0 \/ opt.mcpy
  /\ SubHdr = 2 => Stored(r) < W16
  /\ op + SubHdr + Stored(r) > Outsize
  /\ pc' = "overflow"
  /\ UNCHANGED <<confVars, tot, buf, encVars, olen, plen, decVars, err>>

\* the block's length wrapped around: the codec is given bytes that are no input
EncOutside ==
  /\ EncGuard /\ ip + Sub > Total
  /\ pc' = "outside"
  /\ UNCHANGED <<confVars, tot, buf, encVars, olen, plen, decVars, err>>

-----------------------------------------------------------------------------
(* bedecomp.                                                               *)

\* -C0: compress only
DecSkip ==
  /\ pc = "coded" /\ opt.cmp = 0
  /\ pc' = "next"
  /\ UNCHANGED <<confVars, tot, buf, encVars, olen, plen, decVars, err>>

DecStart ==
  /\ pc = "coded" /\ opt.cmp # 0
  /\ rip' = 0 /\ rop' = 0 /\ rend' = 0 /\ outlen' = 0
  /\ pc' = "dblock"
  /\ UNCHANGED <<confVars, tot, buf, encVars, olen, plen, err>>

DecBlockAll ==
  /\ pc = "dblock" /\ rop < Total /\ ~opt.mode
  /\ outlen' = Total
  /\ rend' = rop + Total
  /\ pc' = "dec"
  /\ UNCHANGED <<confVars, tot, buf, encVars, olen, plen, rip, rop, err>>

\* the item bedecomp expects at rip is the one becomp wrote for position rop
BlockItem ==
  /\ rip \in DOMAIN out
  /\ out[rip].kind = "blk" /\ out[rip].src = rop

DecBlockOne ==
  /\ pc = "dblock" /\ rop < Total /\ opt.mode /\ BlockItem
  /\ LET n == Clamp(out[rip].val, Total - (rop + 4))
     IN  /\ outlen' = n
         /\ rend' = rop + 4 + n
  /\ rip' = rip + 4
  /\ rop' = rop + 4
  /\ pc' = "dec"
  /\ UNCHANGED <<confVars, tot, buf, encVars, olen, plen, err>>

\* mistake: one past the end of the block
DecBlockEndPast ==
  /\ pc = "dec" /\ rop > rend
  /\ pc' = "dblock"
  /\ UNCHANGED <<confVars, tot, buf, encVars, olen, plen, decVars, err>>

DecBlockEnd ==
  /\ pc = "dec" /\ rop >= rend
  /\ pc' = "dblock"
  /\ UNCHANGED <<confVars, tot, buf, encVars, olen, plen, decVars, err>>

DSub == Cut(rend - rop)
DSubHdr == HdrWidth(outlen, DSub)

\* the compressed length bedecomp works with: the item's, or all it was given
DSubLen == IF DSubHdr = 0 THEN olen ELSE out[rip].val

\* memcpy restores a raw sub-block, coddecomp one the codec produced
SubItem ==
  /\ rip \in DOMAIN out
  /\ out[rip].kind = "sub"
  /\ out[rip].hdr = DSubHdr
  /\ out[rip].src = rop /\ out[rip].len = DSub
  /\ out[rip].val = DSubLen
  /\ out[rip].raw <=> (opt.mcpy /\ DSubLen = DSub)

DecSub ==
  /\ pc = "dec" /\ rop < rend /\ SubItem
  /\ rip' = rip + DSubHdr + DSubLen
  /\ rop' = rop + DSub
  /\ UNCHANGED <<pc, confVars, tot, buf, encVars, olen, plen, rend, outlen, err>>

\* becomp failed and returned 0: with no lengths in the output bedecomp hands
\* coddecomp 0 bytes, and a codec that does not look at that restores the
\* sub-block an earlier run left
DecUnsized ==
  /\ pc = "dec" /\ rop < rend /\ failed
  /\ DSubHdr = 0 /\ rip \in DOMAIN out
  /\ out[rip].kind = "sub" /\ out[rip].hdr = 0
  /\ out[rip].src = rop /\ out[rip].len = DSub
  /\ rop' = rop + DSub
  /\ UNCHANGED <<pc, confVars, tot, buf, encVars, olen, plen, rip, rend, outlen, err>>

\* bedecomp reads something becomp did not write for this place
DecLost ==
  /\ \/ pc = "dblock" /\ rop < Total /\ opt.mode /\ ~BlockItem
     \/ pc = "dec" /\ rop < rend /\ ~SubItem
  /\ pc' = "lost"
  /\ UNCHANGED <<confVars, tot, buf, encVars, olen, plen, decVars, err>>

\* mistake: restore one copy of a duplicated chunk only
DecEndOneCopy ==
  /\ pc = "dblock" /\ rop >= buf.len
  /\ pc' = "check"
  /\ UNCHANGED <<confVars, tot, buf, encVars, olen, plen, decVars, err>>

DecEnd ==
  /\ pc = "dblock" /\ rop >= Total
  /\ pc' = "check"
  /\ UNCHANGED <<confVars, tot, buf, encVars, olen, plen, decVars, err>>

-----------------------------------------------------------------------------
(* plugfile: memcheck, next chunk.                                         *)

\* the restored bytes are the input's
CheckSame ==
  /\ pc \in {"check", "lost"}
  /\ pc' = "next"
  /\ UNCHANGED <<confVars, tot, buf, encVars, olen, plen, decVars, err>>

\* they are not: -C0 and -C1 do not look, -C2 goes on, -C3 and -C4 end the program
CheckDiffers ==
  /\ pc = "lost" /\ opt.cmp > 1
  /\ err' = (err \/ opt.cmp = 2)
  /\ pc' = IF opt.cmp = 2 THEN "next" ELSE "exit"
  /\ UNCHANGED <<confVars, tot, buf, encVars, olen, plen, decVars>>

\* mistake: read on with nothing left to read
AdvanceStrict ==
  /\ pc = "next"
  /\ pc' = IF tot > Filen THEN "done" ELSE "read"
  /\ UNCHANGED <<confVars, tot, buf, encVars, olen, plen, decVars, err>>

\* if(totinlen >= filen) break;
Advance ==
  /\ pc = "next"
  /\ pc' = IF tot >= Filen THEN "done" ELSE "read"
  /\ UNCHANGED <<confVars, tot, buf, encVars, olen, plen, decVars, err>>

Stopped == pc \in {"done", "larger", "overflow", "outside", "exit"}

Encode == \E r \in CodecRet : EncStore(r) \/ EncFail(r) \/ EncDieLarger(r) \/ EncDieOverflow(r)

Next ==
  \/ Read \/ ReadNothing \/ EncBlockAll \/ EncBlockOne \/ EncBlockEnd \/ EncAgain \/ EncEnd
  \/ Encode \/ EncOutside
  \/ DecSkip \/ DecStart \/ DecBlockAll \/ DecBlockOne \/ DecBlockEnd
  \/ DecSub \/ DecUnsized \/ DecLost \/ DecEnd
  \/ CheckSame \/ CheckDiffers \/ Advance

Spec == Init /\ [][Next]_vars

\* The program is one thread that always takes its next step.
FairSpec == Spec /\ WF_vars(Next)

-----------------------------------------------------------------------------
(* Properties.                                                             *)

\* What becomp puts in the output at one position: a -m length (blk) or a
\* sub-block (sub) with its header.  hdr is the width of the length, val the
\* length, src and len the input bytes it stands for; end and blk, the end and
\* the length of the block it belongs to, are not in the output: they record
\* what becomp knew, for the invariant below.
Items == [kind : {"blk", "sub"}, hdr : {0, 2, 4}, val : Nat, src : Nat, len : Nat,
          raw : BOOLEAN, end : Nat, blk : Nat]

\* The variables have their types: positions and sizes are natural numbers, and
\* the buffer holds -m lengths and sub-blocks as becomp writes them.
TypeOK ==
  /\ pc \in {"read", "block", "enc", "coded", "dblock", "dec", "check", "lost", "next",
             "done", "larger", "overflow", "outside", "exit"}
  /\ opt \in Opts /\ file \in Files
  /\ tot \in Nat
  /\ buf \in [base : Nat, len : Nat, nb : Nat \ {0}, bsize : Nat \ {0}]
  /\ ip \in Nat /\ iend \in Nat /\ inlen \in Nat /\ op \in Nat
  /\ run \in Nat \ {0}
  /\ DOMAIN out \subseteq Nat
  /\ \A p \in DOMAIN out : out[p] \in Items
  /\ DOMAIN old \subseteq Nat
  /\ \A p \in DOMAIN old : old[p] \in Items
  /\ failed \in BOOLEAN /\ err \in BOOLEAN
  /\ olen \in Nat /\ plen \in Nat
  /\ rip \in Nat /\ rop \in Nat /\ rend \in Nat /\ outlen \in Nat

\* bedecomp stays in step with becomp: it finds every length where it looks for
\* it, of the width it expects, and takes each sub-block the way becomp stored
\* it, unless the codec failed and becomp returned nothing.
InStep == pc = "lost" => failed

\* bedecomp uses up exactly what becomp produced when it has restored the buffer.
AllConsumed == pc = "check" /\ ~failed => rip = op

\* After the codec failed on a sub-block in the first run of the timing loop,
\* bedecomp, run on what becomp left in the buffer, never restores the whole
\* buffer: the comparison can tell.  After a failure in a later run it may restore
\* everything from what the run before left, and nothing shows.
FailureShows == failed /\ pc = "check" => run > 1

\* The buffer holds whole blocks when the file is a merged one, read in one piece.
WholeBlocks == opt.mode /\ 0 \in DOMAIN file.at /\ Insize >= file.size

\* -m: "Process each block independently" (usage, README.md): no sub-block given
\* to a codec overlaps the length in front of a block, hence none spans two blocks.
BlocksApart ==
  WholeBlocks =>
    \A p \in DOMAIN out : out[p].kind = "sub" =>
      \A q \in out[p].src .. (out[p].src + out[p].len - 1) :
        \A o \in DOMAIN file.at : (q % buf.len) \notin o .. (o + 3)

\* -m: every length becomp copies is the length of a block of the merged file
\* ("Process each block independently from the merged file created in Step 1",
\* README.md); a chunk that starts inside a block makes it read content instead.
LengthsAreLengths ==
  \A p \in DOMAIN out : out[p].kind = "blk" =>
    (buf.base + (out[p].src % buf.len)) \in DOMAIN file.at

\* Each way a file can end says what it should.  The loop ends with the file, or
\* its first -B bytes, read, and does not read on once it has them; "Output larger
\* than input! Use option '-P'" does not come with -P; the output buffer overflows
\* with -P only when there are lengths to write; the codec is given bytes outside
\* the buffer only when a -m chunk is cut inside a block and the clamp wraps around.
EndsAsSaid ==
  /\ pc = "done" => tot >= Filen
  /\ pc = "read" => tot < Filen \/ tot = 0
  /\ pc = "larger" => ~opt.mcpy
  /\ pc = "overflow" /\ opt.mcpy => opt.mode \/ buf.bsize < Total
  /\ pc = "outside" => opt.mode /\ ~WholeBlocks

\* The benchmark of a file comes to an end: both loops of the encoder and of the
\* decoder make progress, empty -m blocks included.
Terminates == <>Stopped

-----------------------------------------------------------------------------
(* Why bedecomp stays in step: the invariant behind InStep.                *)

ItemSize(it) == IF it.kind = "blk" THEN 4 ELSE it.hdr + it.val

\* The first thing bedecomp looks for in the output.
FirstItem(it) ==
  /\ it.src = 0
  /\ opt.mode => it.kind = "blk"
  /\ ~opt.mode => it.kind = "sub" /\ it.end = Total /\ it.blk = Total

\* What bedecomp looks for after item it: more of its block, or the next block.
Follows(it, nx) ==
  /\ nx.src = it.src + it.len
  /\ nx.src < it.end => nx.kind = "sub" /\ nx.end = it.end /\ nx.blk = it.blk
  /\ nx.src >= it.end => opt.mode /\ nx.kind = "blk"

\* An item says of itself what bedecomp will compute at its place.
WellFormed(it) ==
  /\ it.kind = "blk" => /\ it.len = 4
                        /\ it.blk = Clamp(it.val, Total - (it.src + 4))
                        /\ it.end = it.src + 4 + it.blk
  /\ it.kind = "sub" => /\ it.src < it.end
                        /\ it.len = Cut(it.end - it.src)
                        /\ it.hdr = HdrWidth(it.blk, it.len)
                        /\ it.raw <=> (opt.mcpy /\ it.val = it.len)
                        /\ it.hdr + it.val > 0
                        /\ ~opt.mode => it.end = Total /\ it.blk = Total

\* it is the last item becomp wrote.
LastItem(it) ==
  /\ ip = it.src + it.len
  /\ pc = "enc" => iend = it.end /\ inlen = it.blk
  /\ pc # "enc" => ip >= it.end

\* After an item comes the next one, or the end of what becomp wrote.
LinkInv(p) ==
  LET np == p + ItemSize(out[p])
  IN  IF np \in DOMAIN out THEN Follows(out[p], out[np])
      ELSE np = op /\ LastItem(out[p])

FirstInv ==
  IF 0 \in DOMAIN out THEN FirstItem(out[0])
  ELSE /\ op = 0 /\ ip = 0
       /\ pc = "block" \/ (pc = "enc" /\ ~opt.mode)

\* The output is a chain of items from position 0 to op.
ChainInv ==
  /\ \A p \in DOMAIN out : /\ p < op /\ WellFormed(out[p])
                           /\ out[p].src < Total
                           /\ out[p].hdr = 0 => p = 0
                           /\ LinkInv(p)
  /\ FirstInv

\* Without -m the buffer is one block, and without lengths one sub-block.
EncoderInv ==
  ~opt.mode =>
    /\ pc = "block" => (ip = 0 /\ op = 0) \/ ip >= Total
    /\ pc = "enc" => /\ iend = Total /\ inlen = Total
                     /\ (ip = 0 /\ op = 0) \/ ip >= Total \/ buf.bsize < Total

\* bedecomp is at an item that is the one it expects, or at the end of both.
DecoderInv ==
  IF rip \in DOMAIN out
  THEN /\ out[rip].src = rop
       /\ pc = "dblock" => IF opt.mode THEN out[rip].kind = "blk" ELSE FirstItem(out[rip])
       /\ pc = "dec" => IF rop < rend
                        THEN out[rip].kind = "sub" /\ out[rip].end = rend /\ out[rip].blk = outlen
                        ELSE opt.mode /\ out[rip].kind = "blk"
  ELSE /\ rip = op /\ rop = ip
       /\ pc = "dec" => rop >= rend

Working == {"block", "enc", "coded", "dblock", "dec", "check"}

\* A chunk is never empty, and its copies only fill the buffer when sub-blocks
\* are a copy long.
BufInv == /\ pc \in Working => buf.len > 0
          /\ buf.nb > 1 => buf.bsize = buf.len

FramingInv ==
  /\ BufInv
  /\ ~failed /\ pc \in Working => ChainInv
  /\ EncoderInv
  /\ ~failed /\ pc \in {"coded", "dblock", "dec", "check"} =>
       /\ ip >= Total
       /\ olen = op \div buf.nb
  /\ ~failed /\ pc \in {"dblock", "dec", "check"} => DecoderInv
  /\ ~failed /\ pc = "check" => rop >= Total

-----------------------------------------------------------------------------
(* What the framing promises: RoundTrip, under this mapping.               *)

\* The bytes of the file bedecomp has restored.
backBar ==
  IF pc \in {"read", "next", "done", "exit"} THEN tot
  ELSE IF pc \in {"dblock", "dec", "check"} /\ ~failed THEN buf.base + Lesser(rop, buf.len)
  ELSE buf.base

stateBar ==
  IF pc \in {"read", "next", "done", "exit"} THEN "idle"
  ELSE IF pc \in {"larger", "overflow", "outside"} THEN "dead"
  ELSE IF failed THEN "lost" ELSE "busy"

RT == INSTANCE RoundTrip WITH sent <- tot, back <- backBar, state <- stateBar,
                              checked <- opt.cmp # 0

\* becomp and bedecomp with plugfile's loop around them implement RoundTrip.
RoundTripSpec == RT!Spec
=============================================================================

-------------------------- MODULE BlockCodecProofs --------------------------
(***************************************************************************)
(* Proofs about BlockCodec, for all files, command lines and codecs: the   *)
(* types, that bedecomp stays in step with becomp, that a failed codec     *)
(* shows, that the read loop with becomp and bedecomp implements the       *)
(* abstract RoundTrip, that blocks of a merged file are kept apart, and how *)
(* a file ends.                                                            *)
(***************************************************************************)
EXTENDS BlockCodec, TLAPS

(* Arithmetic of the sizes. *)

\* Division by a copy count or a chunk length stays in the natural numbers.
LEMMA DivNat == ASSUME NEW a \in Nat, NEW b \in Nat \ {0} PROVE a \div b \in Nat
  BY SMT

\* A chunk fits its buffer at least once.
LEMMA DivPos == ASSUME NEW a \in Nat, NEW b \in Nat \ {0}, b <= a PROVE a \div b \in Nat \ {0}
  BY SMT

\* The unsigned subtraction gives a natural number.
LEMMA ModNat == ASSUME NEW a \in Int PROVE a % W32 \in Nat
  BY WidthAssumption, SMT

LEMMA ClampNat == ASSUME NEW n \in Nat, NEW r \in Int PROVE Clamp(n, r) \in Nat
  BY ModNat DEF Clamp

LEMMA FilenNat == ASSUME TypeOK PROVE Filen \in Nat /\ Insize \in Nat
  BY OptAssumption, FileAssumption DEF TypeOK, Filen, Insize, Lesser

LEMMA TotalNat == ASSUME TypeOK PROVE Total \in Nat
  BY DEF TypeOK, Total

LEMMA LengthNat == ASSUME TypeOK, NEW p \in Nat PROVE LengthsAt(p) \subseteq Nat
  BY FileAssumption, CodecAssumption DEF TypeOK, LengthsAt
LEMMA PutTyped ==
  ASSUME DOMAIN out \subseteq Nat, \A p \in DOMAIN out : out[p] \in Items,
         NEW pos \in Nat, NEW it \in Items
  PROVE  /\ DOMAIN Put(pos, it) \subseteq Nat
         /\ \A p \in DOMAIN Put(pos, it) : Put(pos, it)[p] \in Items
  BY DEF Put

\* What earlier runs left behind this one's output is items at positions, too.
LEMMA OnTopTyped ==
  ASSUME TypeOK, NEW kept \in SUBSET DOMAIN old
  PROVE  /\ DOMAIN OnTop(kept) = DOMAIN out \cup kept
         /\ DOMAIN OnTop(kept) \subseteq Nat
         /\ \A p \in DOMAIN OnTop(kept) : OnTop(kept)[p] \in Items
         /\ \A p \in DOMAIN OnTop(kept) :
              \/ p \in DOMAIN out /\ OnTop(kept)[p] = out[p]
              \/ p \in DOMAIN old /\ OnTop(kept)[p] = old[p]
  BY DEF OnTop, TypeOK

LEMMA BehindOld == Behind \subseteq DOMAIN old
  BY DEF Behind

-----------------------------------------------------------------------------
(* Types.                                                                  *)

LEMMA TypeInit == Init => TypeOK
<1> SUFFICES ASSUME Init PROVE TypeOK
  OBVIOUS
<1>1. /\ DOMAIN out \subseteq Nat /\ \A p \in DOMAIN out : out[p] \in Items
      /\ DOMAIN old \subseteq Nat /\ \A p \in DOMAIN old : old[p] \in Items
  BY DEF Init, NoItems
<1>2. buf \in [base : Nat, len : Nat, nb : Nat \ {0}, bsize : Nat \ {0}]
  BY OptAssumption DEF Init
<1> QED
  BY <1>1, <1>2 DEF Init, TypeOK

\* A new chunk has at least one copy and non-empty sub-blocks.
LEMMA TypeRead == TypeOK /\ Read => TypeOK'
<1> SUFFICES ASSUME TypeOK, Read PROVE TypeOK'
  OBVIOUS
<1>1. PICK n \in Nat : /\ n = Lesser(Insize, file.size - tot) /\ n > 0 /\ n <= Insize
                      /\ tot' = tot + n
                      /\ buf' = [base |-> tot, len |-> n, nb |-> Copies(n), bsize |-> SubSize(n)]
  BY FilenNat, FileAssumption DEF TypeOK, Read, Lesser
<1>2. Copies(n) \in Nat \ {0}
  BY <1>1, DivPos, FilenNat, OptAssumption DEF Copies, TypeOK
<1>3. SubSize(n) \in Nat \ {0}
  BY <1>1, OptAssumption DEF SubSize, TypeOK
<1>4. /\ DOMAIN out' \subseteq Nat /\ \A p \in DOMAIN out' : out'[p] \in Items
      /\ DOMAIN old' \subseteq Nat /\ \A p \in DOMAIN old' : old'[p] \in Items
  BY DEF Read, NoItems
<1>5. tot' \in Nat /\ buf' \in [base : Nat, len : Nat, nb : Nat \ {0}, bsize : Nat \ {0}]
  BY <1>1, <1>2, <1>3 DEF TypeOK
<1>6. /\ pc' = "block" /\ ip' = 0 /\ iend' = 0 /\ inlen' = 0 /\ op' = 0 /\ failed' = FALSE
      /\ run' = 1 /\ UNCHANGED <<opt, file, olen, plen, rip, rop, rend, outlen, err>>
  BY DEF Read, confVars, decVars
<1>7. /\ ip' \in Nat /\ iend' \in Nat /\ inlen' \in Nat /\ op' \in Nat
      /\ run' \in Nat \ {0} /\ olen' \in Nat /\ plen' \in Nat /\ rip' \in Nat /\ rop' \in Nat
      /\ rend' \in Nat /\ outlen' \in Nat /\ opt' \in Opts /\ file' \in Files
  BY <1>6 DEF TypeOK
<1>8. failed' \in BOOLEAN /\ err' \in BOOLEAN
  BY <1>6, Zenon DEF TypeOK
<1>9. pc' \in {"read", "block", "enc", "coded", "dblock", "dec", "check", "lost", "next",
              "done", "larger", "overflow", "outside", "exit"}
  BY <1>6
<1> QED
  BY <1>4, <1>5, <1>7, <1>8, <1>9 DEF TypeOK

LEMMA TypeEncBlockOne == TypeOK /\ EncBlockOne => TypeOK'
<1> SUFFICES ASSUME TypeOK, EncBlockOne PROVE TypeOK'
  OBVIOUS
<1>1. PICK v \in LengthsAt(ip) :
        LET n == Clamp(v, Total - (ip + 4))
        IN  /\ inlen' = n
            /\ iend' = ip + 4 + n
            /\ out' = Put(op, [kind |-> "blk", hdr |-> 4, val |-> v, src |-> ip, len |-> 4, raw |-> TRUE,
                              end |-> ip + 4 + n, blk |-> n])
  BY DEF EncBlockOne
<1> DEFINE n == Clamp(v, Total - (ip + 4))
           it == [kind |-> "blk", hdr |-> 4, val |-> v, src |-> ip, len |-> 4, raw |-> TRUE,
                  end |-> ip + 4 + n, blk |-> n]
<1>2. v \in Nat /\ ip \in Nat /\ op \in Nat
  BY LengthNat DEF TypeOK
<1>3. n \in Nat
  <2>1. Total - (ip + 4) \in Int
    BY <1>2, TotalNat
  <2> QED
    BY <1>2, <2>1, ClampNat
<1>4. it \in Items
  BY <1>2, <1>3 DEF Items
<1>5. DOMAIN out' \subseteq Nat /\ \A p \in DOMAIN out' : out'[p] \in Items
  BY <1>1, <1>2, <1>4, PutTyped DEF TypeOK
<1>6. inlen' \in Nat /\ iend' \in Nat
  BY <1>1, <1>2, <1>3
<1>7. /\ pc' = "enc" /\ ip' = ip + 4 /\ op' = op + 4
      /\ UNCHANGED <<opt, file, tot, buf, run, old, failed, olen, plen, rip, rop, rend, outlen, err>>
  BY DEF EncBlockOne, confVars, decVars, runVars
<1> QED
  BY <1>2, <1>5, <1>6, <1>7 DEF TypeOK

\* What becomp computes for the next sub-block.
LEMMA SubTyped ==
  ASSUME TypeOK, EncGuard, NEW r \in CodecRet
  PROVE  Sub \in Nat \ {0} /\ SubHdr \in {0, 2, 4} /\ Stored(r) \in Nat
  BY CodecAssumption DEF TypeOK, EncGuard, Sub, Cut, Lesser, SubHdr, HdrWidth, Stored

LEMMA TypeEncStore ==
  ASSUME TypeOK, NEW r \in CodecRet, EncStore(r)
  PROVE  TypeOK'
<1> DEFINE it == [kind |-> "sub", hdr |-> SubHdr, val |-> Stored(r), src |-> ip, len |-> Sub,
                  raw |-> StoreRaw(r, Sub), end |-> iend, blk |-> inlen]
<1>1. Sub \in Nat /\ SubHdr \in {0, 2, 4} /\ Stored(r) \in Nat
  BY SubTyped DEF EncStore
<1>2. StoreRaw(r, Sub) \in BOOLEAN
  BY OptAssumption DEF StoreRaw, TypeOK
<1>3. it \in Items
  BY <1>1, <1>2 DEF Items, TypeOK
<1>4. DOMAIN out' \subseteq Nat /\ \A p \in DOMAIN out' : out'[p] \in Items
  BY <1>3, PutTyped DEF TypeOK, EncStore
<1> QED
  BY <1>1, <1>4 DEF EncStore, TypeOK, confVars, decVars, runVars

\* A failed codec leaves this run's items and those of earlier runs it spared.
LEMMA TypeEncFail ==
  ASSUME TypeOK, NEW r \in CodecRet, EncFail(r)
  PROVE  TypeOK'
<1>1. PICK kept \in SUBSET Behind : out' = OnTop(kept)
  BY DEF EncFail
<1>2. DOMAIN out' \subseteq Nat /\ \A p \in DOMAIN out' : out'[p] \in Items
  BY <1>1, BehindOld, OnTopTyped
<1>3. /\ pc' = "coded" /\ op' = 0 /\ failed' = TRUE /\ olen' = 0
      /\ UNCHANGED <<opt, file, tot, buf, ip, iend, inlen, run, old, plen, rip, rop, rend, outlen, err>>
  BY DEF EncFail, confVars, decVars, runVars
<1> QED
  BY <1>2, <1>3 DEF TypeOK

\* Another run keeps what this one wrote.
LEMMA TypeEncAgain == TypeOK /\ EncAgain => TypeOK'
<1> SUFFICES ASSUME TypeOK, EncAgain PROVE TypeOK'
  OBVIOUS
<1>1. DOMAIN old' \subseteq Nat /\ \A p \in DOMAIN old' : old'[p] \in Items
  BY BehindOld, OnTopTyped DEF EncAgain
<1>2. DOMAIN out' \subseteq Nat /\ \A p \in DOMAIN out' : out'[p] \in Items
  BY DEF EncAgain, NoItems
<1>3. /\ run' = run + 1 /\ ip' = 0 /\ iend' = 0 /\ inlen' = 0 /\ op' = 0
      /\ UNCHANGED <<pc, opt, file, tot, buf, failed, olen, plen, rip, rop, rend, outlen, err>>
  BY DEF EncAgain, confVars, decVars
<1> QED
  BY <1>1, <1>2, <1>3 DEF TypeOK

\* A sub-block bedecomp restores has a length.
LEMMA TypeDecSub == TypeOK /\ DecSub => TypeOK'
<1> SUFFICES ASSUME TypeOK, DecSub PROVE TypeOK'
  OBVIOUS
<1>1. DSub \in Nat /\ DSubHdr \in {0, 2, 4}
  BY DEF TypeOK, DecSub, DSub, DSubHdr, HdrWidth, Cut, Lesser
<1>2. DSubLen \in Nat
  BY DEF TypeOK, DecSub, SubItem, DSubLen, Items
<1> QED
  BY <1>1, <1>2 DEF DecSub, TypeOK, confVars, encVars, runVars

LEMMA TypeDecUnsized == TypeOK /\ DecUnsized => TypeOK'
<1> SUFFICES ASSUME TypeOK, DecUnsized PROVE TypeOK'
  OBVIOUS
<1>1. DSub \in Nat
  BY DEF TypeOK, DecUnsized, DSub, Cut, Lesser
<1> QED
  BY <1>1 DEF DecUnsized, TypeOK, confVars, encVars, runVars

LEMMA TypeDecBlockOne == TypeOK /\ DecBlockOne => TypeOK'
<1> SUFFICES ASSUME TypeOK, DecBlockOne PROVE TypeOK'
  OBVIOUS
<1>1. out[rip].val \in Nat /\ rop \in Nat
  BY DEF TypeOK, DecBlockOne, BlockItem, Items
<1>2. Clamp(out[rip].val, Total - (rop + 4)) \in Nat
  <2>1. Total - (rop + 4) \in Int
    BY <1>1, TotalNat
  <2> QED
    BY <1>1, <2>1, ClampNat
<1> QED
  BY <1>1, <1>2 DEF DecBlockOne, TypeOK, confVars, encVars, runVars

\* plugfile divides what becomp wrote by the number of copies.
LEMMA TypeEncEnd == TypeOK /\ EncEnd => TypeOK'
<1> SUFFICES ASSUME TypeOK, EncEnd PROVE TypeOK'
  OBVIOUS
<1>1. op \div buf.nb \in Nat
  BY DivNat DEF TypeOK
<1> QED
  BY <1>1 DEF EncEnd, TypeOK, confVars, encVars, decVars, runVars

LEMMA TypeNext == TypeOK /\ [Next]_vars => TypeOK'
<1> SUFFICES ASSUME TypeOK, [Next]_vars PROVE TypeOK'
  OBVIOUS
<1> USE DEF confVars, encVars, decVars, runVars
<1>1. CASE Read
  BY <1>1, TypeRead
<1>2. CASE EncBlockOne
  BY <1>2, TypeEncBlockOne
<1>3. CASE EncEnd
  BY <1>3, TypeEncEnd
<1>4. CASE DecSub
  BY <1>4, TypeDecSub
<1>5. CASE DecBlockOne
  BY <1>5, TypeDecBlockOne
<1>6. CASE Encode
  <2>1. PICK r \in CodecRet : EncStore(r) \/ EncFail(r) \/ EncDieLarger(r) \/ EncDieOverflow(r)
    BY <1>6 DEF Encode
  <2>2. CASE EncStore(r)
    BY <2>2, TypeEncStore
  <2>3. CASE EncFail(r)
    BY <2>3, TypeEncFail
  <2>4. CASE EncDieLarger(r)
    BY <2>4 DEF EncDieLarger, TypeOK
  <2>5. CASE EncDieOverflow(r)
    BY <2>5 DEF EncDieOverflow, TypeOK
  <2> QED
    BY <2>1, <2>2, <2>3, <2>4, <2>5
<1>7. CASE ReadNothing
  BY <1>7 DEF ReadNothing, TypeOK
<1>8. CASE EncBlockAll
  BY <1>8, TotalNat DEF EncBlockAll, TypeOK
<1>9. CASE EncBlockEnd
  BY <1>9 DEF EncBlockEnd, TypeOK
<1>10. CASE EncOutside
  BY <1>10 DEF EncOutside, TypeOK
<1>11. CASE DecSkip
  BY <1>11 DEF DecSkip, TypeOK
<1>12. CASE DecStart
  BY <1>12 DEF DecStart, TypeOK
<1>13. CASE DecBlockAll
  BY <1>13, TotalNat DEF DecBlockAll, TypeOK
<1>14. CASE DecBlockEnd
  BY <1>14 DEF DecBlockEnd, TypeOK
<1>15. CASE DecLost
  BY <1>15 DEF DecLost, TypeOK
<1>16. CASE DecEnd
  BY <1>16 DEF DecEnd, TypeOK
<1>17. CASE CheckSame
  BY <1>17 DEF CheckSame, TypeOK
<1>18. CASE CheckDiffers
  BY <1>18 DEF CheckDiffers, TypeOK
<1>19. CASE Advance
  BY <1>19 DEF Advance, TypeOK
<1>20. CASE UNCHANGED vars
  BY <1>20 DEF vars, TypeOK
<1>21. CASE EncAgain
  BY <1>21, TypeEncAgain
<1>22. CASE DecUnsized
  BY <1>22, TypeDecUnsized
<1> QED
  BY <1>21, <1>22, <1>1, <1>2, <1>3, <1>4, <1>5, <1>6, <1>7, <1>8, <1>9, <1>10, <1>11, <1>12, <1>13, <1>14, <1>15, <1>16, <1>17, <1>18, <1>19, <1>20 DEF Next

\* becomp, bedecomp and plugfile's loop only ever hold values of their types.
THEOREM TypeCorrect == Spec => []TypeOK
  BY TypeInit, TypeNext, PTL DEF Spec

-----------------------------------------------------------------------------
(* The framing invariant.                                                  *)

\* A chunk that was read has bytes in it.
LEMMA TotalPos == ASSUME TypeOK, BufInv, pc \in Working PROVE Total \in Nat \ {0}
<1>1. buf.len \in Nat \ {0} /\ buf.nb \in Nat \ {0}
  BY DEF TypeOK, BufInv
<1>2. \A a, b \in Nat \ {0} : a * b \in Nat \ {0}
  BY SMT
<1> QED
  BY <1>1, <1>2 DEF Total

\* With more than one copy the buffer is longer than a sub-block.
LEMMA CopiesLonger ==
  ASSUME TypeOK, BufInv, pc \in Working, buf.bsize >= Total PROVE buf.nb = 1
<1>1. buf.len \in Nat \ {0} /\ buf.nb \in Nat \ {0}
  BY DEF TypeOK, BufInv
<1>2. \A a \in Nat \ {0}, b \in Nat : b > 1 => a * b > a
  BY SMT
<1>3. ASSUME buf.nb > 1 PROVE FALSE
  <2>1. Total > buf.len
    BY <1>1, <1>2, <1>3 DEF Total
  <2>2. buf.bsize = buf.len
    BY <1>3 DEF BufInv
  <2> QED
    BY <2>1, <2>2, <1>1, TotalNat
<1> QED
  BY <1>1, <1>3

\* becomp extends the chain: an item that fits the end of it, put there, becomes its end.
LEMMA ChainExtends ==
  ASSUME TypeOK, ChainInv, NEW it \in Items,
         out' = Put(op, it), op' = op + ItemSize(it), ItemSize(it) \in Nat \ {0},
         buf' = buf, opt' = opt, pc' = "enc",
         it.src = ip, it.src < Total, it.hdr = 0 => op = 0, WellFormed(it),
         ip' = ip + it.len, iend' = it.end, inlen' = it.blk,
         op = 0 => FirstItem(it),
         \A p \in DOMAIN out : LastItem(out[p]) => Follows(out[p], it)
  PROVE  ChainInv'
<1>1. /\ DOMAIN out' = DOMAIN out \cup {op}
      /\ out'[op] = it
      /\ \A p \in DOMAIN out : p # op /\ p < op /\ out'[p] = out[p]
  <2>1. /\ DOMAIN out' = DOMAIN out \cup {op}
        /\ out'[op] = it
        /\ \A p \in DOMAIN out : p # op => out'[p] = out[p]
    BY DEF Put
  <2>2. op \in Nat /\ \A p \in DOMAIN out : p \in Nat /\ p < op
    BY DEF TypeOK, ChainInv
  <2> QED
    BY <2>1, <2>2
<1>2. op \in Nat /\ op' \in Nat /\ op < op'
  BY DEF TypeOK
<1>3. Total' = Total
  BY DEF Total
<1>4. ASSUME NEW x, WellFormed(x) PROVE WellFormed(x)'
  BY <1>3, <1>4 DEF WellFormed, Clamp, Cut, HdrWidth, Lesser
<1>5. ASSUME NEW p \in DOMAIN out
      PROVE  /\ p < op' /\ WellFormed(out[p])' /\ out'[p].src < Total'
             /\ out'[p].hdr = 0 => p = 0
             /\ LinkInv(p)'
  <2> DEFINE np == p + ItemSize(out[p])
  <2>1. p \in Nat /\ out[p] \in Items
    BY DEF TypeOK
  <2>2. out'[p] = out[p] /\ ItemSize(out[p])' = ItemSize(out[p])
    BY <1>1 DEF ItemSize
  <2>3. CASE np \in DOMAIN out
    <3>1. Follows(out[p], out[np])
      BY <2>3 DEF ChainInv, LinkInv
    <3>2. Follows(out[p], out[np])'
      BY <3>1, <2>2, <2>3, <1>1 DEF Follows
    <3> QED
      BY <3>2, <2>1, <2>2, <2>3, <1>1, <1>2, <1>3, <1>4 DEF ChainInv, LinkInv
  <2>4. CASE np \notin DOMAIN out
    <3>1. np = op /\ LastItem(out[p])
      BY <2>4 DEF ChainInv, LinkInv
    <3>2. Follows(out[p], out[np])'
      BY <3>1, <2>2, <1>1 DEF Follows
    <3> QED
      BY <3>1, <3>2, <2>1, <2>2, <1>1, <1>2, <1>3, <1>4 DEF ChainInv, LinkInv
  <2> QED
    BY <2>3, <2>4
<1>6. op' \notin DOMAIN out'
  BY <1>1, <1>2 DEF TypeOK
<1>7. ASSUME NEW p, p = op
      PROVE  /\ p < op' /\ WellFormed(out[p])' /\ out'[p].src < Total'
             /\ out'[p].hdr = 0 => p = 0
             /\ LinkInv(p)'
  <2>1. out'[p] = it /\ p < op'
    BY <1>1, <1>2, <1>7
  <2>2. p + ItemSize(out[p])' = op'
    BY <2>1, <1>7 DEF ItemSize
  <2>3. LastItem(out[p])'
    BY <2>1 DEF LastItem
  <2>4. LinkInv(p)'
    BY <2>2, <2>3, <1>6 DEF LinkInv
  <2>5. WellFormed(out[p])'
    BY <2>1, <1>4
  <2> QED
    BY <2>1, <2>4, <2>5, <1>3, <1>7
<1>9. FirstInv'
  <2>1. CASE 0 \in DOMAIN out
    BY <2>1, <1>1, <1>3 DEF FirstInv, FirstItem, ChainInv
  <2>2. CASE 0 \notin DOMAIN out
    BY <2>2, <1>1, <1>3 DEF FirstInv, FirstItem, ChainInv
  <2> QED
    BY <2>1, <2>2
<1> QED
  BY <1>1, <1>5, <1>7, <1>9 DEF ChainInv

\* The chain is not disturbed by steps that leave the output alone.
LEMMA ChainKept ==
  ASSUME ChainInv, UNCHANGED <<out, op, ip, buf, opt>>,
         \A p \in DOMAIN out : LastItem(out[p]) => LastItem(out[p])',
         FirstInv => FirstInv'
  PROVE  ChainInv'
<1>1. Total' = Total
  BY DEF Total
<1>2. ASSUME NEW p \in DOMAIN out PROVE WellFormed(out[p])' /\ LinkInv(p)'
  <2>1. WellFormed(out[p])'
    BY <1>1 DEF ChainInv, WellFormed, Clamp, Cut, HdrWidth, Lesser
  <2>2. ItemSize(out[p])' = ItemSize(out[p])
    BY DEF ItemSize
  <2>3. LinkInv(p)
    BY DEF ChainInv
  <2>4. LinkInv(p)'
    BY <2>2, <2>3 DEF LinkInv, Follows
  <2> QED
    BY <2>1, <2>4
<1> QED
  BY <1>1, <1>2 DEF ChainInv

LEMMA FramingInit == Init => FramingInv
  BY DEF Init, FramingInv, BufInv, EncoderInv, Working

LEMMA FramingRead == TypeOK /\ FramingInv /\ Read => FramingInv'
<1> SUFFICES ASSUME TypeOK, FramingInv, Read PROVE FramingInv'
  OBVIOUS
<1>1. PICK n \in Nat : /\ n > 0
                      /\ buf' = [base |-> tot, len |-> n, nb |-> Copies(n), bsize |-> SubSize(n)]
  BY FilenNat, FileAssumption DEF TypeOK, Read, Lesser
<1>2. BufInv'
  BY <1>1 DEF BufInv, Copies, SubSize, Read
<1>3. ChainInv'
  BY DEF Read, ChainInv, FirstInv, NoItems
<1> QED
  BY <1>2, <1>3 DEF FramingInv, Read, EncoderInv

\* The outer loop takes the next -m block: its length is the chain's next item.
LEMMA FramingEncBlockOne == TypeOK /\ FramingInv /\ EncBlockOne => FramingInv'
<1> SUFFICES ASSUME TypeOK, FramingInv, EncBlockOne PROVE FramingInv'
  OBVIOUS
<1>1. PICK v \in LengthsAt(ip) :
        LET n == Clamp(v, Total - (ip + 4))
        IN  /\ inlen' = n
            /\ iend' = ip + 4 + n
            /\ out' = Put(op, [kind |-> "blk", hdr |-> 4, val |-> v, src |-> ip, len |-> 4, raw |-> TRUE,
                              end |-> ip + 4 + n, blk |-> n])
  BY DEF EncBlockOne
<1> DEFINE n == Clamp(v, Total - (ip + 4))
           it == [kind |-> "blk", hdr |-> 4, val |-> v, src |-> ip, len |-> 4, raw |-> TRUE,
                  end |-> ip + 4 + n, blk |-> n]
<1>2. v \in Nat /\ ip \in Nat /\ op \in Nat /\ Total \in Nat
  BY LengthNat, TotalNat DEF TypeOK
<1>3. n \in Nat
  <2>1. Total - (ip + 4) \in Int
    BY <1>2
  <2> QED
    BY <1>2, <2>1, ClampNat
<1>4. it \in Items /\ ItemSize(it) = 4
  BY <1>2, <1>3 DEF Items, ItemSize
<1>5. /\ pc = "block" /\ ip < Total /\ opt.mode
      /\ pc' = "enc" /\ ip' = ip + 4 /\ op' = op + 4
      /\ UNCHANGED <<opt, file, tot, buf, failed, olen, plen, rip, rop, rend, outlen, err>>
  BY DEF EncBlockOne, confVars, decVars
<1>6. ASSUME ~failed PROVE ChainInv'
  <2>1. ChainInv
    BY <1>5, <1>6 DEF FramingInv, Working
  <2>2. WellFormed(it)
    BY DEF WellFormed
  <2>3. op = 0 => FirstItem(it)
    BY <2>1, <1>5, <1>2 DEF FirstItem, ChainInv, FirstInv
  <2>4. ASSUME NEW p \in DOMAIN out, LastItem(out[p]) PROVE Follows(out[p], it)
    <3>1. out[p].end \in Nat
      BY DEF TypeOK, Items
    <3> QED
      BY <2>4, <3>1, <1>5, <1>2 DEF LastItem, Follows
  <2>5. /\ out' = Put(op, it) /\ op' = op + ItemSize(it) /\ ItemSize(it) \in Nat \ {0}
        /\ it.src = ip /\ it.src < Total /\ it.hdr # 0
        /\ ip' = ip + it.len /\ iend' = it.end /\ inlen' = it.blk
    BY <1>1, <1>4, <1>5
  <2> HIDE DEF it
  <2> QED
    BY <2>1, <2>2, <2>3, <2>4, <2>5, <1>4, <1>5, ChainExtends
<1> QED
  BY <1>5, <1>6 DEF FramingInv, BufInv, EncoderInv, Working

\* The inner loop stores the next sub-block: it is the chain's next item.
LEMMA FramingEncStore ==
  ASSUME TypeOK, FramingInv, NEW r \in CodecRet, EncStore(r)
  PROVE  FramingInv'
<1> DEFINE it == [kind |-> "sub", hdr |-> SubHdr, val |-> Stored(r), src |-> ip, len |-> Sub,
                  raw |-> StoreRaw(r, Sub), end |-> iend, blk |-> inlen]
<1>1. Sub \in Nat \ {0} /\ SubHdr \in {0, 2, 4} /\ Stored(r) \in Nat
  BY SubTyped DEF EncStore
<1>2. /\ pc = "enc" /\ ip < iend /\ ip + Sub <= Total
      /\ r # 0 \/ opt.mcpy
      /\ out' = Put(op, it) /\ op' = op + SubHdr + Stored(r) /\ ip' = ip + Sub
      /\ UNCHANGED <<pc, opt, file, tot, buf, iend, inlen, failed, olen, plen,
                     rip, rop, rend, outlen, err>>
  BY DEF EncStore, EncGuard, confVars, decVars
<1>3. opt.mcpy \in BOOLEAN /\ StoreRaw(r, Sub) \in BOOLEAN
  BY OptAssumption DEF StoreRaw, TypeOK
<1>4. ip \in Nat /\ op \in Nat /\ iend \in Nat /\ inlen \in Nat /\ Total \in Nat /\ r \in Nat
  BY TotalNat, CodecAssumption DEF TypeOK
<1>5. it \in Items /\ ItemSize(it) = SubHdr + Stored(r)
  BY <1>1, <1>3, <1>4 DEF Items, ItemSize
<1>6. Stored(r) > 0
  BY <1>1, <1>2, <1>4 DEF Stored, StoreRaw
<1>7. StoreRaw(r, Sub) <=> (opt.mcpy /\ Stored(r) = Sub)
  BY <1>1, <1>3, <1>4 DEF Stored, StoreRaw
<1>8. ~opt.mode => /\ iend = Total /\ inlen = Total
                   /\ SubHdr = 0 => op = 0
                   /\ ip + Sub >= Total \/ buf.bsize < Total
  BY <1>1, <1>2, <1>4 DEF FramingInv, EncoderInv, SubHdr, HdrWidth, Sub, Cut, Lesser, TypeOK
<1>9. ASSUME ~failed PROVE ChainInv'
  <2>1. ChainInv
    BY <1>2, <1>9 DEF FramingInv, Working
  <2>2. WellFormed(it)
    BY <1>1, <1>2, <1>6, <1>7, <1>8 DEF WellFormed, Sub, SubHdr
  <2>3. op = 0 => FirstItem(it)
    BY <2>1, <1>2, <1>4, <1>8 DEF FirstItem, ChainInv, FirstInv
  <2>4. ASSUME NEW p \in DOMAIN out, LastItem(out[p]) PROVE Follows(out[p], it)
    BY <2>4, <1>2, <1>4 DEF LastItem, Follows
  <2>5. SubHdr = 0 => op = 0
    BY <1>8 DEF SubHdr, HdrWidth
  <2>6. /\ op' = op + ItemSize(it) /\ ItemSize(it) \in Nat \ {0}
        /\ it.src = ip /\ it.src < Total /\ it.hdr = SubHdr
        /\ ip' = ip + it.len /\ iend' = it.end /\ inlen' = it.blk
    BY <1>1, <1>2, <1>4, <1>5, <1>6
  <2> HIDE DEF it
  <2> QED
    BY <2>1, <2>2, <2>3, <2>4, <2>5, <2>6, <1>2, <1>5, ChainExtends
<1>10. EncoderInv'
  BY <1>1, <1>2, <1>4, <1>8 DEF EncoderInv, Total
<1> QED
  BY <1>2, <1>9, <1>10 DEF FramingInv, BufInv, Working

\* The other steps of becomp write nothing.
LEMMA FramingEncBlockAll == TypeOK /\ FramingInv /\ EncBlockAll => FramingInv'
<1> SUFFICES ASSUME TypeOK, FramingInv, EncBlockAll PROVE FramingInv'
  OBVIOUS
<1>1. /\ pc = "block" /\ ip < Total /\ ~opt.mode /\ pc' = "enc"
      /\ inlen' = Total /\ iend' = ip + Total
      /\ UNCHANGED <<opt, file, tot, buf, ip, op, out, failed, olen, plen, rip, rop, rend, outlen, err>>
  BY DEF EncBlockAll, confVars, decVars
<1>2. Total \in Nat /\ ip \in Nat
  BY TotalNat DEF TypeOK
<1>3. ip = 0 /\ op = 0
  BY <1>1, <1>2 DEF FramingInv, EncoderInv
<1>4. ASSUME ~failed PROVE ChainInv'
  <2>1. ChainInv
    BY <1>1, <1>4 DEF FramingInv, Working
  <2>2. \A p \in DOMAIN out : FALSE
    BY <2>1, <1>3 DEF ChainInv, TypeOK
  <2> QED
    BY <2>1, <2>2, <1>1 DEF ChainInv, FirstInv
<1>5. EncoderInv'
  BY <1>1, <1>2, <1>3 DEF EncoderInv, Total
<1> QED
  BY <1>1, <1>4, <1>5 DEF FramingInv, BufInv, Working

LEMMA FramingEncBlockEnd == TypeOK /\ FramingInv /\ EncBlockEnd => FramingInv'
<1> SUFFICES ASSUME TypeOK, FramingInv, EncBlockEnd PROVE FramingInv'
  OBVIOUS
<1>1. /\ pc = "enc" /\ ip >= iend /\ pc' = "block"
      /\ UNCHANGED <<opt, file, tot, buf, ip, op, out, iend, inlen, failed, olen, plen,
                     rip, rop, rend, outlen, err>>
  BY DEF EncBlockEnd, confVars, decVars, encVars
<1>2. ASSUME ~failed PROVE ChainInv'
  <2>1. ChainInv
    BY <1>1, <1>2 DEF FramingInv, Working
  <2>2. \A p \in DOMAIN out : LastItem(out[p]) => LastItem(out[p])'
    BY <1>1 DEF LastItem
  <2>3. FirstInv => FirstInv'
    BY <1>1 DEF FirstInv, FirstItem, Total
  <2> QED
    BY <2>1, <2>2, <2>3, <1>1, ChainKept
<1>3. EncoderInv'
  BY <1>1 DEF FramingInv, EncoderInv, Total
<1> QED
  BY <1>1, <1>2, <1>3 DEF FramingInv, BufInv, Working

LEMMA FramingEncEnd == TypeOK /\ FramingInv /\ EncEnd => FramingInv'
<1> SUFFICES ASSUME TypeOK, FramingInv, EncEnd PROVE FramingInv'
  OBVIOUS
<1>1. /\ pc = "block" /\ ip >= Total /\ pc' = "coded" /\ olen' = op \div buf.nb
      /\ UNCHANGED <<opt, file, tot, buf, ip, op, out, iend, inlen, failed, rip, rop, rend, outlen, err>>
  BY DEF EncEnd, confVars, decVars, encVars
<1>2. Total \in Nat \ {0}
  BY <1>1, TotalPos DEF FramingInv, Working
<1>3. ASSUME ~failed PROVE ChainInv'
  <2>1. ChainInv
    BY <1>1, <1>3 DEF FramingInv, Working
  <2>2. \A p \in DOMAIN out : LastItem(out[p]) => LastItem(out[p])'
    BY <1>1 DEF LastItem
  <2>3. FirstInv => FirstInv'
    BY <1>1, <1>2 DEF FirstInv, FirstItem, Total
  <2> QED
    BY <2>1, <2>2, <2>3, <1>1, ChainKept
<1> QED
  BY <1>1, <1>3 DEF FramingInv, BufInv, Working, EncoderInv, Total

\* The steps of bedecomp leave the chain alone.
LEMMA ChainDecoder ==
  ASSUME ChainInv, UNCHANGED <<out, op, ip, iend, inlen, buf, opt>>,
         pc \in {"coded", "dblock", "dec", "check"}, pc' \in {"coded", "dblock", "dec", "check"}
  PROVE  ChainInv'
<1>1. \A p \in DOMAIN out : LastItem(out[p]) => LastItem(out[p])'
  BY DEF LastItem
<1>2. FirstInv => FirstInv'
  BY DEF FirstInv, FirstItem, Total
<1> QED
  BY <1>1, <1>2, ChainKept

\* A step of bedecomp that does not end it: what is left to show is its place.
LEMMA FramingDecoder ==
  ASSUME TypeOK, FramingInv, UNCHANGED <<opt, file, tot, buf, encVars, olen, plen>>,
         pc \in {"coded", "dblock", "dec"}, pc' \in {"dblock", "dec", "check"},
         ~failed /\ ChainInv => DecoderInv',
         pc' = "check" => rop' >= Total
  PROVE  FramingInv'
<1>1. ~failed => ChainInv /\ ip >= Total /\ olen = op \div buf.nb
  BY DEF FramingInv, Working
<1>2. ~failed => ChainInv'
  BY <1>1, ChainDecoder DEF encVars
<1>3. Total' = Total
  BY DEF Total
<1> QED
  BY <1>1, <1>2, <1>3 DEF FramingInv, BufInv, Working, EncoderInv, encVars

LEMMA FramingDecStart == TypeOK /\ FramingInv /\ DecStart => FramingInv'
<1> SUFFICES ASSUME TypeOK, FramingInv, DecStart PROVE FramingInv'
  OBVIOUS
<1>1. /\ pc = "coded" /\ pc' = "dblock" /\ rip' = 0 /\ rop' = 0
      /\ UNCHANGED <<opt, file, tot, buf, encVars, olen, plen>>
  BY DEF DecStart, confVars
<1>2. ASSUME ChainInv PROVE DecoderInv'
  BY <1>1, <1>2 DEF ChainInv, FirstInv, FirstItem, DecoderInv, encVars, Total
<1> QED
  BY <1>1, <1>2, FramingDecoder

LEMMA FramingDecBlockAll == TypeOK /\ FramingInv /\ DecBlockAll => FramingInv'
<1> SUFFICES ASSUME TypeOK, FramingInv, DecBlockAll PROVE FramingInv'
  OBVIOUS
<1>1. /\ pc = "dblock" /\ rop < Total /\ ~opt.mode /\ pc' = "dec"
      /\ outlen' = Total /\ rend' = rop + Total
      /\ UNCHANGED <<opt, file, tot, buf, encVars, olen, plen, rip, rop>>
  BY DEF DecBlockAll, confVars
<1>2. Total \in Nat /\ rop \in Nat /\ ip \in Nat
  BY TotalNat DEF TypeOK
<1>3. ASSUME ~failed PROVE DecoderInv'
  <2>1. DecoderInv /\ ip >= Total
    BY <1>1, <1>3 DEF FramingInv
  <2>2. rip \in DOMAIN out /\ FirstItem(out[rip]) /\ out[rip].src = rop
    BY <2>1, <1>1, <1>2 DEF DecoderInv
  <2> QED
    BY <2>2, <1>1, <1>2 DEF DecoderInv, FirstItem, encVars
<1> QED
  BY <1>1, <1>3, FramingDecoder

\* Where bedecomp is after it has taken the item at its place.
LEMMA DecoderMoves ==
  ASSUME TypeOK, ChainInv, ip >= Total, pc \in {"dblock", "dec"}, pc' = "dec",
         rip \in DOMAIN out, out[rip].src = rop,
         rip' = rip + ItemSize(out[rip]), rop' = rop + out[rip].len,
         rend' = out[rip].end, outlen' = out[rip].blk,
         UNCHANGED <<opt, buf, encVars>>
  PROVE  DecoderInv'
<1>1. LinkInv(rip) /\ rip \in Nat /\ out[rip] \in Items
  BY DEF ChainInv, TypeOK
<1>2. CASE rip' \in DOMAIN out
  <2>1. Follows(out[rip], out[rip'])
    BY <1>1, <1>2 DEF LinkInv
  <2> QED
    BY <2>1, <1>1, <1>2 DEF Follows, DecoderInv, encVars, TypeOK, Items
<1>3. CASE rip' \notin DOMAIN out
  <2>1. rip' = op /\ LastItem(out[rip])
    BY <1>1, <1>3 DEF LinkInv
  <2> QED
    BY <2>1, <1>1, <1>3 DEF LastItem, DecoderInv, encVars, TypeOK
<1> QED
  BY <1>2, <1>3

LEMMA FramingDecBlockOne == TypeOK /\ FramingInv /\ DecBlockOne => FramingInv'
<1> SUFFICES ASSUME TypeOK, FramingInv, DecBlockOne PROVE FramingInv'
  OBVIOUS
<1>1. /\ pc = "dblock" /\ rop < Total /\ opt.mode /\ pc' = "dec"
      /\ rip \in DOMAIN out /\ out[rip].kind = "blk" /\ out[rip].src = rop
      /\ rip' = rip + 4 /\ rop' = rop + 4
      /\ outlen' = Clamp(out[rip].val, Total - (rop + 4))
      /\ rend' = rop + 4 + Clamp(out[rip].val, Total - (rop + 4))
      /\ UNCHANGED <<opt, file, tot, buf, encVars, olen, plen>>
  BY DEF DecBlockOne, BlockItem, confVars
<1>2. ASSUME ~failed PROVE DecoderInv'
  <2>1. ChainInv /\ ip >= Total
    BY <1>1, <1>2 DEF FramingInv, Working
  <2>2. WellFormed(out[rip])
    BY <2>1, <1>1 DEF ChainInv
  <2>3. /\ ItemSize(out[rip]) = 4 /\ out[rip].len = 4
        /\ rend' = out[rip].end /\ outlen' = out[rip].blk
    BY <2>2, <1>1 DEF WellFormed, ItemSize
  <2> QED
    BY <2>1, <2>3, <1>1, DecoderMoves
<1> QED
  BY <1>1, <1>2, FramingDecoder

LEMMA FramingDecSub == TypeOK /\ FramingInv /\ DecSub => FramingInv'
<1> SUFFICES ASSUME TypeOK, FramingInv, DecSub PROVE FramingInv'
  OBVIOUS
<1>1. /\ pc = "dec" /\ rop < rend /\ pc' = "dec" /\ SubItem
      /\ rip' = rip + DSubHdr + DSubLen /\ rop' = rop + DSub
      /\ UNCHANGED <<opt, file, tot, buf, encVars, olen, plen, rend, outlen>>
  BY DEF DecSub, confVars
<1>2. ASSUME ~failed PROVE DecoderInv'
  <2>1. ChainInv /\ ip >= Total /\ DecoderInv
    BY <1>1, <1>2 DEF FramingInv, Working
  <2>2. /\ rip \in DOMAIN out /\ out[rip].kind = "sub" /\ out[rip].src = rop
        /\ out[rip].hdr = DSubHdr /\ out[rip].val = DSubLen /\ out[rip].len = DSub
    BY <1>1 DEF SubItem
  <2>3. rip \in Nat /\ out[rip] \in Items
    BY <2>2 DEF TypeOK
  <2>4. rip' = rip + ItemSize(out[rip]) /\ rop' = rop + out[rip].len
    BY <2>2, <2>3, <1>1 DEF ItemSize, Items
  <2>5. rend' = out[rip].end /\ outlen' = out[rip].blk
    BY <2>1, <2>2, <1>1 DEF DecoderInv
  <2> QED
    BY <2>1, <2>2, <2>4, <2>5, <1>1, DecoderMoves
<1> QED
  BY <1>1, <1>2, FramingDecoder

LEMMA FramingDecBlockEnd == TypeOK /\ FramingInv /\ DecBlockEnd => FramingInv'
<1> SUFFICES ASSUME TypeOK, FramingInv, DecBlockEnd PROVE FramingInv'
  OBVIOUS
<1>1. /\ pc = "dec" /\ rop >= rend /\ pc' = "dblock"
      /\ UNCHANGED <<opt, file, tot, buf, encVars, olen, plen, decVars>>
  BY DEF DecBlockEnd, confVars
<1>2. ASSUME ~failed PROVE DecoderInv'
  <2>1. DecoderInv
    BY <1>1, <1>2 DEF FramingInv
  <2> QED
    BY <2>1, <1>1 DEF DecoderInv, encVars, decVars, TypeOK
<1> QED
  BY <1>1, <1>2, FramingDecoder

LEMMA FramingDecEnd == TypeOK /\ FramingInv /\ DecEnd => FramingInv'
<1> SUFFICES ASSUME TypeOK, FramingInv, DecEnd PROVE FramingInv'
  OBVIOUS
<1>1. /\ pc = "dblock" /\ rop >= Total /\ pc' = "check"
      /\ UNCHANGED <<opt, file, tot, buf, encVars, olen, plen, decVars>>
  BY DEF DecEnd, confVars
<1>2. ASSUME ~failed PROVE DecoderInv'
  <2>1. DecoderInv
    BY <1>1, <1>2 DEF FramingInv
  <2> QED
    BY <2>1, <1>1 DEF DecoderInv, encVars, decVars
<1>3. rop' >= Total
  BY <1>1 DEF decVars
<1> QED
  BY <1>1, <1>2, <1>3, FramingDecoder

\* Another run of the timing loop starts a new chain.
LEMMA FramingEncAgain == TypeOK /\ FramingInv /\ EncAgain => FramingInv'
<1> SUFFICES ASSUME TypeOK, FramingInv, EncAgain PROVE FramingInv'
  OBVIOUS
<1>1. /\ pc = "block" /\ pc' = "block" /\ ip' = 0 /\ op' = 0 /\ out' = NoItems
      /\ UNCHANGED <<opt, buf>>
  BY DEF EncAgain, confVars
<1>2. ChainInv'
  BY <1>1 DEF ChainInv, FirstInv, NoItems
<1> QED
  BY <1>1, <1>2 DEF FramingInv, BufInv, Working, EncoderInv

\* becomp, or bedecomp, is left: only the buffer matters.
LEMMA FramingLeft ==
  ASSUME TypeOK, FramingInv, UNCHANGED <<opt, buf>>,
         pc' \in {"lost", "next", "read", "done", "larger", "overflow", "outside", "exit"}
  PROVE  FramingInv'
  BY DEF FramingInv, BufInv, Working, EncoderInv

LEMMA FramingNext == TypeOK /\ FramingInv /\ [Next]_vars => FramingInv'
<1> SUFFICES ASSUME TypeOK, FramingInv, [Next]_vars PROVE FramingInv'
  OBVIOUS
<1> USE DEF confVars
<1>1. CASE Read
  BY <1>1, FramingRead
<1>2. CASE EncBlockAll \/ EncBlockOne \/ EncBlockEnd \/ EncEnd
  BY <1>2, FramingEncBlockAll, FramingEncBlockOne, FramingEncBlockEnd, FramingEncEnd
<1>3. CASE Encode
  <2>1. PICK r \in CodecRet : EncStore(r) \/ EncFail(r) \/ EncDieLarger(r) \/ EncDieOverflow(r)
    BY <1>3 DEF Encode
  <2>2. CASE EncStore(r)
    BY <2>2, FramingEncStore
  <2>3. CASE EncFail(r)
    BY <2>3 DEF EncFail, EncGuard, FramingInv, BufInv, Working, EncoderInv
  <2>4. CASE EncDieLarger(r)
    BY <2>4, FramingLeft DEF EncDieLarger
  <2>5. CASE EncDieOverflow(r)
    BY <2>5, FramingLeft DEF EncDieOverflow
  <2> QED
    BY <2>1, <2>2, <2>3, <2>4, <2>5
<1>4. CASE DecStart \/ DecBlockAll \/ DecBlockOne \/ DecBlockEnd \/ DecSub \/ DecEnd
  BY <1>4, FramingDecStart, FramingDecBlockAll, FramingDecBlockOne, FramingDecBlockEnd,
     FramingDecSub, FramingDecEnd
<1>5. CASE ReadNothing
  BY <1>5, FramingLeft DEF ReadNothing
<1>6. CASE EncOutside
  BY <1>6, FramingLeft DEF EncOutside
<1>7. CASE DecSkip
  BY <1>7, FramingLeft DEF DecSkip
<1>8. CASE DecLost
  BY <1>8, FramingLeft DEF DecLost
<1>9. CASE CheckSame
  BY <1>9, FramingLeft DEF CheckSame
<1>10. CASE CheckDiffers
  BY <1>10, FramingLeft DEF CheckDiffers
<1>11. CASE Advance
  BY <1>11, FramingLeft DEF Advance
<1>12. CASE UNCHANGED vars
  <2>1. UNCHANGED <<pc, opt, file, buf, ip, iend, inlen, op, out, failed, olen, rip, rop, rend, outlen>>
    BY <1>12 DEF vars, encVars, decVars
  <2>2. ASSUME ChainInv PROVE ChainInv'
    BY <2>1, <2>2, ChainKept DEF LastItem, FirstInv, FirstItem, Total
  <2> QED
    BY <2>1, <2>2 DEF FramingInv, BufInv, EncoderInv, DecoderInv, FirstItem, Total
<1>13. CASE EncAgain
  BY <1>13, FramingEncAgain
<1>14. CASE DecUnsized
  BY <1>14 DEF DecUnsized, FramingInv, BufInv, Working, EncoderInv, encVars, Total
<1> QED
  BY <1>1, <1>2, <1>3, <1>4, <1>5, <1>6, <1>7, <1>8, <1>9, <1>10, <1>11, <1>12, <1>13, <1>14 DEF Next

-----------------------------------------------------------------------------
(* What follows from it.                                                   *)

\* Unless the codec failed, bedecomp finds the item it expects.
LEMMA NeverLost == TypeOK /\ FramingInv /\ DecLost => failed
<1> SUFFICES ASSUME TypeOK, FramingInv, DecLost, ~failed PROVE FALSE
  BY DEF TypeOK
<1>1. ChainInv /\ DecoderInv /\ ip >= Total /\ olen = op \div buf.nb /\ BufInv
  BY DEF FramingInv, DecLost, Working
<1>2. Total \in Nat /\ rop \in Nat /\ ip \in Nat /\ op \in Nat /\ rend \in Nat
  BY TotalNat DEF TypeOK
<1>3. CASE pc = "dblock" /\ rop < Total /\ opt.mode /\ ~BlockItem
  BY <1>1, <1>2, <1>3 DEF DecoderInv, BlockItem
<1>4. CASE pc = "dec" /\ rop < rend /\ ~SubItem
  <2>1. /\ rip \in DOMAIN out /\ out[rip].src = rop /\ out[rip].kind = "sub"
        /\ out[rip].end = rend /\ out[rip].blk = outlen
    BY <1>1, <1>2, <1>4 DEF DecoderInv
  <2>2. out[rip] \in Items /\ rip \in Nat
    BY <2>1 DEF TypeOK
  <2>3. /\ out[rip].len = DSub /\ out[rip].hdr = DSubHdr
        /\ out[rip].raw <=> (opt.mcpy /\ out[rip].val = DSub)
        /\ ~opt.mode => rend = Total /\ outlen = Total
        /\ LinkInv(rip)
        /\ out[rip].hdr = 0 => rip = 0
    BY <2>1, <1>1 DEF ChainInv, WellFormed, DSub, DSubHdr
  <2>4. ASSUME DSubHdr = 0 PROVE out[rip].val = olen
    <3>1. ~opt.mode /\ buf.bsize >= outlen
      BY <2>4, <2>2 DEF DSubHdr, HdrWidth, TypeOK
    <3>2. rend = Total /\ outlen = Total /\ buf.bsize >= Total /\ rip = 0
      BY <2>3, <2>4, <3>1
    <3>3. DSub = Total - rop
      BY <3>2, <1>2, <1>4 DEF DSub, Cut, Lesser, TypeOK
    <3>4. 0 + ItemSize(out[0]) = op
      <4>1. out[0].src + out[0].len = Total
        BY <3>2, <3>3, <2>1, <2>3, <1>2
      <4>2. ItemSize(out[0]) \notin DOMAIN out
        BY <4>1, <3>1, <3>2, <2>1, <2>2, <2>3, <1>2 DEF LinkInv, Follows, ItemSize, Items
      <4> QED
        BY <4>2, <3>2, <2>2, <2>3, <2>1 DEF LinkInv, ItemSize, Items
    <3>5. out[rip].val = op
      BY <3>4, <3>2, <2>1, <2>2, <2>3, <2>4 DEF ItemSize, Items
    <3>6. buf.nb = 1
      BY <3>2, <1>1, <1>4, CopiesLonger DEF Working
    <3>7. op \div 1 = op
      BY <1>2
    <3> QED
      BY <3>5, <3>6, <3>7, <1>1
  <2>5. out[rip].val = DSubLen
    BY <2>4 DEF DSubLen
  <2> QED
    BY <2>1, <2>3, <2>5, <1>4 DEF SubItem
<1> QED
  BY <1>3, <1>4 DEF DecLost

LEMMA InStepNext == TypeOK /\ FramingInv /\ InStep /\ [Next]_vars => InStep'
<1> SUFFICES ASSUME TypeOK, FramingInv, InStep, [Next]_vars, pc' = "lost" PROVE failed'
  BY DEF InStep
<1>1. CASE DecLost
  BY <1>1, NeverLost DEF DecLost, encVars
<1>2. CASE UNCHANGED vars
  BY <1>2 DEF vars, encVars, InStep
<1>3. ~Encode
  BY DEF Encode, EncStore, EncFail, EncDieLarger, EncDieOverflow, EncGuard
<1> QED
  BY <1>1, <1>2, <1>3 DEF Next, Read, ReadNothing, EncBlockAll, EncBlockOne, EncBlockEnd, EncEnd,
     EncOutside, DecSkip, DecStart, DecBlockAll, DecBlockOne, DecBlockEnd, DecSub, DecEnd,
     CheckSame, CheckDiffers, Advance, EncAgain, DecUnsized

\* The output of becomp is a chain of well-formed items, and bedecomp is always at
\* one of them, the one becomp wrote for the input position bedecomp has restored up to.
THEOREM FramingCorrect == Spec => []FramingInv
<1>1. Init => FramingInv
  BY FramingInit
<1>2. TypeOK /\ TypeOK' /\ FramingInv /\ [Next]_vars => FramingInv'
  BY FramingNext
<1> QED
  BY <1>1, <1>2, TypeCorrect, PTL DEF Spec

\* Whatever the file, the options and the sizes the codec returns, bedecomp finds
\* every length and sub-block where and as becomp wrote it, unless the codec failed.
THEOREM InStepCorrect == Spec => []InStep
<1>1. Init => InStep
  BY DEF Init, InStep
<1>2. TypeOK /\ FramingInv /\ InStep /\ [Next]_vars => InStep'
  BY InStepNext
<1> QED
  BY <1>1, <1>2, TypeCorrect, FramingCorrect, PTL DEF Spec

\* When bedecomp has restored the buffer it has used up all that becomp produced.
THEOREM AllConsumedCorrect == Spec => []AllConsumed
<1>1. TypeOK /\ FramingInv => AllConsumed
  <2> SUFFICES ASSUME TypeOK, FramingInv, pc = "check", ~failed PROVE rip = op
    BY DEF AllConsumed
  <2>1. ChainInv /\ DecoderInv /\ rop >= Total
    BY DEF FramingInv, Working
  <2>2. rip \notin DOMAIN out
    BY <2>1, TotalNat DEF ChainInv, DecoderInv, TypeOK, Items
  <2> QED
    BY <2>1, <2>2 DEF DecoderInv
<1> QED
  BY <1>1, TypeCorrect, FramingCorrect, PTL

-----------------------------------------------------------------------------
(* After a failure.                                                        *)

\* Unless the codec failed in a later run: what was written stands for input becomp
\* has passed; it never passes all of it when the codec fails, and bedecomp never
\* gets further than what was written.
CoverInv ==
  /\ ~failed \/ run = 1
       => \A p \in DOMAIN out : /\ out[p].src + out[p].len <= ip
                                /\ out[p].kind = "blk" => out[p].len = 4
  /\ run = 1 => old = NoItems
  /\ pc \in {"block", "enc"} => ~failed
  /\ failed /\ run = 1 => /\ ip < Total
                          /\ pc \in {"dblock", "dec"} => rop <= ip
                          /\ pc # "check"

\* A further item behind the input passed so far.
LEMMA CoverPut ==
  ASSUME TypeOK, CoverInv, ~failed, NEW pos \in Nat, NEW it \in Items, NEW n \in Nat, ip <= n,
         it.src + it.len <= n, it.kind = "blk" => it.len = 4
  PROVE  \A p \in DOMAIN Put(pos, it) : /\ Put(pos, it)[p].src + Put(pos, it)[p].len <= n
                                        /\ Put(pos, it)[p].kind = "blk" => Put(pos, it)[p].len = 4
<1> SUFFICES ASSUME NEW p \in DOMAIN Put(pos, it)
             PROVE  /\ Put(pos, it)[p].src + Put(pos, it)[p].len <= n
                    /\ Put(pos, it)[p].kind = "blk" => Put(pos, it)[p].len = 4
  OBVIOUS
<1>1. CASE p = pos
  BY <1>1 DEF Put
<1>2. CASE p # pos
  <2>1. p \in DOMAIN out /\ Put(pos, it)[p] = out[p]
    BY <1>2 DEF Put
  <2>2. out[p].src \in Nat /\ out[p].len \in Nat /\ out[p].src + out[p].len <= ip
    BY <2>1 DEF TypeOK, Items, CoverInv
  <2>3. out[p].kind = "blk" => out[p].len = 4
    BY <2>1 DEF CoverInv
  <2> QED
    BY <2>1, <2>2, <2>3 DEF TypeOK
<1> QED
  BY <1>1, <1>2

\* Encoder steps that change nothing but where becomp is, or belong to no codec.
LEMMA CoverSame ==
  ASSUME TypeOK, CoverInv, UNCHANGED <<out, runVars, ip, failed, buf>>,
         pc' \in {"block", "enc"} => pc \in {"block", "enc"},
         failed /\ run = 1 => pc' # "check" /\ (pc' \in {"dblock", "dec"} => rop' <= ip)
  PROVE  CoverInv'
  BY DEF CoverInv, Total, runVars

LEMMA CoverNext == TypeOK /\ TypeOK' /\ CoverInv /\ [Next]_vars => CoverInv'
<1> SUFFICES ASSUME TypeOK, TypeOK', CoverInv, [Next]_vars PROVE CoverInv'
  OBVIOUS
<1>0. /\ ip \in Nat /\ rop \in Nat /\ op \in Nat /\ Total \in Nat
  BY TotalNat DEF TypeOK
<1>1. CASE Read
  <2>1. out' = NoItems /\ old' = NoItems /\ failed' = FALSE /\ pc' = "block"
    BY <1>1 DEF Read
  <2> QED
    BY <2>1 DEF CoverInv, NoItems
<1>2. CASE EncBlockOne
  <2>1. PICK v \in LengthsAt(ip) :
          LET n == Clamp(v, Total - (ip + 4))
          IN  out' = Put(op, [kind |-> "blk", hdr |-> 4, val |-> v, src |-> ip, len |-> 4,
                              raw |-> TRUE, end |-> ip + 4 + n, blk |-> n])
    BY <1>2 DEF EncBlockOne
  <2> DEFINE n  == Clamp(v, Total - (ip + 4))
             it == [kind |-> "blk", hdr |-> 4, val |-> v, src |-> ip, len |-> 4,
                    raw |-> TRUE, end |-> ip + 4 + n, blk |-> n]
  <2>2. v \in Nat /\ n \in Nat
    <3>1. v \in Nat
      BY <1>0, <2>1, LengthNat
    <3>2. Total - (ip + 4) \in Int
      BY <1>0
    <3> QED
      BY <3>1, <3>2, ClampNat
  <2>3. it \in Items /\ it.src + it.len <= ip + 4 /\ it.len = 4
    BY <1>0, <2>2 DEF Items
  <2>4. /\ ip' = ip + 4 /\ UNCHANGED <<failed, run, old>> /\ pc = "block" /\ pc' = "enc"
        /\ ~failed
    BY <1>2 DEF EncBlockOne, runVars, CoverInv
  <2>5. ip + 4 \in Nat /\ ip <= ip + 4 /\ out' = Put(op, it)
    BY <1>0, <2>1
  <2> HIDE DEF it, n
  <2>6. \A p \in DOMAIN out' : /\ out'[p].src + out'[p].len <= ip + 4
                               /\ out'[p].kind = "blk" => out'[p].len = 4
    BY <1>0, <2>3, <2>4, <2>5, CoverPut
  <2> QED
    BY <2>4, <2>6 DEF CoverInv
<1>3. ASSUME NEW r \in CodecRet, EncStore(r) PROVE CoverInv'
  <2> DEFINE it == [kind |-> "sub", hdr |-> SubHdr, val |-> Stored(r), src |-> ip, len |-> Sub,
                    raw |-> StoreRaw(r, Sub), end |-> iend, blk |-> inlen]
  <2>1. out' = Put(op, it) /\ ip' = ip + Sub /\ UNCHANGED <<failed, run, old, pc>> /\ pc = "enc" /\ ~failed
    BY <1>3 DEF EncStore, EncGuard, runVars, CoverInv
  <2>2. Sub \in Nat
    BY <1>3 DEF EncStore, EncGuard, Sub, Cut, Lesser, TypeOK
  <2>3. it \in Items
    <3>1. r \in Nat
      BY CodecAssumption
    <3>2. SubHdr \in {0, 2, 4} /\ StoreRaw(r, Sub) \in BOOLEAN /\ Stored(r) \in Nat
      BY <2>2, <3>1, OptAssumption DEF SubHdr, HdrWidth, StoreRaw, Stored, TypeOK
    <3> QED
      BY <2>2, <3>2 DEF Items, TypeOK
  <2>4. it.src + it.len <= ip + Sub /\ it.kind # "blk"
    BY <1>0, <2>2
  <2>5. ip + Sub \in Nat /\ ip <= ip + Sub
    BY <1>0, <2>2
  <2> HIDE DEF it
  <2>6. \A p \in DOMAIN out' : /\ out'[p].src + out'[p].len <= ip + Sub
                               /\ out'[p].kind = "blk" => out'[p].len = 4
    BY <1>0, <2>1, <2>3, <2>4, <2>5, CoverPut
  <2> QED
    BY <2>1, <2>6 DEF CoverInv
<1>4. ASSUME NEW r \in CodecRet, EncFail(r) PROVE CoverInv'
  <2>1. /\ UNCHANGED <<run, old, ip, buf>> /\ pc' = "coded" /\ ip < iend /\ ip + Sub <= Total
        /\ ~failed
    BY <1>4 DEF EncFail, EncGuard, runVars, CoverInv
  <2>2. Sub \in Nat \ {0}
    BY <2>1 DEF Sub, Cut, Lesser, TypeOK
  <2>3. ip < Total
    BY <1>0, <2>1, <2>2
  <2>4. PICK kept \in SUBSET Behind : out' = OnTop(kept)
    BY <1>4 DEF EncFail
  <2>5. ASSUME run = 1, NEW p \in DOMAIN out'
        PROVE  out'[p].src + out'[p].len <= ip /\ (out'[p].kind = "blk" => out'[p].len = 4)
    <3>1. DOMAIN old = {}
      BY <2>5 DEF CoverInv, NoItems
    <3>2. \/ p \in DOMAIN out /\ out'[p] = out[p]
          \/ p \in DOMAIN old /\ out'[p] = old[p]
      BY <2>4, <2>5, BehindOld, OnTopTyped
    <3> QED
      BY <2>1, <3>1, <3>2 DEF CoverInv
  <2>6. run' = 1 => old' = NoItems
    BY <2>1 DEF CoverInv
  <2>7. Total' = Total
    BY <2>1 DEF Total
  <2>8. run' = 1 => \A p \in DOMAIN out' : /\ out'[p].src + out'[p].len <= ip'
                                           /\ out'[p].kind = "blk" => out'[p].len = 4
    BY <2>1, <2>5
  <2>9. failed'
    BY <1>4 DEF EncFail
  <2>10. ip' < Total'
    BY <2>1, <2>3, <2>7
  <2>11. pc' = "coded"
    BY <2>1
  <2> HIDE <1>4
  <2> QED
    BY <2>6, <2>8, <2>9, <2>10, <2>11 DEF CoverInv
<1>5. CASE DecStart
  BY <1>0, <1>5, CoverSame DEF DecStart, encVars
<1>6. CASE DecBlockOne
  <2>1. UNCHANGED <<out, runVars, ip, failed, buf>> /\ pc' = "dec" /\ rop' = rop + 4
    BY <1>6 DEF DecBlockOne, encVars
  <2>2. rip \in DOMAIN out /\ out[rip].src = rop /\ out[rip].kind = "blk"
    BY <1>6 DEF DecBlockOne, BlockItem
  <2>3. failed /\ run = 1 => rop' <= ip
    BY <2>1, <2>2 DEF CoverInv
  <2> QED
    BY <2>1, <2>3, CoverSame
<1>7. CASE DecSub
  <2>1. UNCHANGED <<out, runVars, ip, failed, buf>> /\ pc' = "dec" /\ rop' = rop + DSub
    BY <1>7 DEF DecSub, encVars
  <2>2. rip \in DOMAIN out /\ out[rip].src = rop /\ out[rip].len = DSub
    BY <1>7 DEF DecSub, SubItem
  <2>3. failed /\ run = 1 => rop' <= ip
    BY <2>1, <2>2 DEF CoverInv
  <2> QED
    BY <2>1, <2>3, CoverSame
<1>8. CASE DecEnd
  <2>1. UNCHANGED <<out, runVars, ip, failed, buf>> /\ pc = "dblock" /\ pc' = "check" /\ rop >= Total
    BY <1>8 DEF DecEnd, encVars
  <2>2. ~(failed /\ run = 1)
    BY <1>0, <2>1 DEF CoverInv
  <2> QED
    BY <2>1, <2>2, CoverSame
<1>9. CASE DecBlockAll
  BY <1>9, CoverSame DEF DecBlockAll, encVars, CoverInv
<1>10. CASE DecBlockEnd
  BY <1>10, CoverSame DEF DecBlockEnd, decVars, encVars, CoverInv
<1>11. CASE EncBlockAll
  BY <1>11, CoverSame DEF EncBlockAll, CoverInv
<1>12. CASE \/ ReadNothing \/ EncBlockEnd \/ EncEnd \/ EncOutside \/ DecSkip \/ DecLost
            \/ CheckSame \/ CheckDiffers \/ Advance
  <2>1. UNCHANGED <<out, runVars, ip, failed, buf>> /\ pc' \notin {"check", "dblock", "dec"}
    BY <1>12 DEF ReadNothing, EncBlockEnd, EncEnd, EncOutside, DecSkip, DecLost, CheckSame,
       CheckDiffers, Advance, encVars
  <2>2. pc' \in {"block", "enc"} => pc \in {"block", "enc"}
    BY <1>12 DEF ReadNothing, EncBlockEnd, EncEnd, EncOutside, DecSkip, DecLost, CheckSame,
       CheckDiffers, Advance
  <2> QED
    BY <2>1, <2>2, CoverSame
<1>13. ASSUME NEW r \in CodecRet, EncDieLarger(r) \/ EncDieOverflow(r) PROVE CoverInv'
  BY <1>13, CoverSame DEF EncDieLarger, EncDieOverflow, encVars
<1>14. CASE UNCHANGED vars
  BY <1>14, CoverSame DEF vars, encVars, decVars, CoverInv
<1>15. CASE EncAgain
  <2>1. run' # 1 /\ out' = NoItems /\ ~failed'
    BY <1>15 DEF EncAgain, CoverInv, TypeOK
  <2> QED
    BY <2>1 DEF CoverInv, NoItems
<1>16. CASE DecUnsized
  <2>1. UNCHANGED <<out, runVars, ip, failed, buf>> /\ pc' = "dec" /\ rop' = rop + DSub
    BY <1>16 DEF DecUnsized, encVars
  <2>2. rip \in DOMAIN out /\ out[rip].src = rop /\ out[rip].len = DSub
    BY <1>16 DEF DecUnsized
  <2>3. failed /\ run = 1 => rop' <= ip
    BY <2>1, <2>2 DEF CoverInv
  <2> QED
    BY <2>1, <2>3, CoverSame
<1> QED
  BY <1>15, <1>16, <1>1, <1>2, <1>3, <1>4, <1>5, <1>6, <1>7, <1>8, <1>9, <1>10, <1>11, <1>12, <1>13, <1>14
     DEF Next, Encode

LEMMA CoverCorrect == Spec => []CoverInv
<1>1. Init => CoverInv
  BY DEF Init, NoItems, CoverInv
<1> QED
  BY <1>1, CoverNext, TypeCorrect, PTL DEF Spec

\* After a codec failed in the first run of the timing loop, bedecomp never restores
\* the whole buffer, whatever becomp had left in it: memcheck has something to find.
THEOREM FailureShowsCorrect == Spec => []FailureShows
<1>1. TypeOK /\ CoverInv => FailureShows
  BY DEF TypeOK, CoverInv, FailureShows
<1> QED
  BY <1>1, TypeCorrect, CoverCorrect, PTL

-----------------------------------------------------------------------------
(* Refinement.                                                             *)

Stopping == {"larger", "overflow", "outside"}

\* Until a chunk is compared the bytes read are those before it and it, and only
\* with -C1 and above bedecomp runs.
PlaceInv ==
  /\ pc \in Working \cup Stopping \cup {"lost"} => tot = buf.base + buf.len
  /\ pc \in {"dblock", "dec", "check", "lost"} => opt.cmp # 0

LEMMA PlaceNext == TypeOK /\ PlaceInv /\ [Next]_vars => PlaceInv'
<1> SUFFICES ASSUME TypeOK, PlaceInv, [Next]_vars PROVE PlaceInv'
  OBVIOUS
<1> USE DEF PlaceInv, Working, Stopping
<1>1. CASE Read
  BY <1>1 DEF Read
<1>2. CASE ReadNothing \/ Advance \/ DecSkip \/ CheckSame \/ CheckDiffers
  BY <1>2 DEF ReadNothing, Advance, DecSkip, CheckSame, CheckDiffers
<1>3. CASE EncBlockAll \/ EncBlockOne \/ EncBlockEnd \/ EncAgain \/ EncEnd \/ EncOutside
  BY <1>3 DEF EncBlockAll, EncBlockOne, EncBlockEnd, EncAgain, EncEnd, EncOutside, EncGuard, confVars
<1>4. ASSUME NEW r \in CodecRet,
             EncStore(r) \/ EncFail(r) \/ EncDieLarger(r) \/ EncDieOverflow(r)
      PROVE  PlaceInv'
  BY <1>4 DEF EncStore, EncFail, EncDieLarger, EncDieOverflow, EncGuard, confVars
<1>5. CASE DecStart
  BY <1>5 DEF DecStart, confVars
<1>6. CASE DecBlockAll \/ DecBlockOne \/ DecBlockEnd \/ DecSub \/ DecUnsized \/ DecLost \/ DecEnd
  BY <1>6 DEF DecBlockAll, DecBlockOne, DecBlockEnd, DecSub, DecUnsized, DecLost, DecEnd, confVars
<1>7. CASE UNCHANGED vars
  BY <1>7 DEF vars, confVars
<1> QED
  BY <1>1, <1>2, <1>3, <1>4, <1>5, <1>6, <1>7 DEF Next, Encode

LEMMA PlaceCorrect == Spec => []PlaceInv
<1>1. Init => PlaceInv
  BY DEF Init, PlaceInv, Working, Stopping
<1> QED
  BY <1>1, PlaceNext, TypeCorrect, PTL DEF Spec

\* All copies of a chunk are as long as it.
LEMMA ChunkFits == ASSUME TypeOK PROVE buf.len <= Total
<1>1. buf.len \in Nat /\ buf.nb \in Nat \ {0}
  BY DEF TypeOK
<1>2. \A l \in Nat, n \in Nat \ {0} : l <= l * n
  OBVIOUS
<1> QED
  BY <1>1, <1>2 DEF Total

\* bedecomp restores more of the piece, or only more of its copies.
LEMMA ReturnStep ==
  ASSUME TypeOK, PlaceInv, ~failed, pc \in {"dblock", "dec"}, pc' \in {"dblock", "dec", "check"},
         UNCHANGED <<confVars, tot, buf, failed>>, rop' \in Nat, rop <= rop'
  PROVE  [RT!Next]_<<tot, backBar, stateBar, opt.cmp # 0>>
<1> DEFINE b == buf.base + Lesser(rop, buf.len)
           c == buf.base + Lesser(rop', buf.len)
<1>1. backBar = b /\ backBar' = c /\ stateBar = "busy" /\ stateBar' = "busy"
  BY DEF backBar, stateBar
<1>2. b \in Nat /\ c \in Nat /\ b <= c /\ c <= tot /\ opt.cmp # 0
  BY DEF TypeOK, PlaceInv, Working, Lesser
<1>3. CASE b = c
  BY <1>1, <1>3 DEF confVars
<1>4. CASE b < c
  <2>1. RT!Return
    BY <1>1, <1>2, <1>4 DEF RT!Return, confVars
  <2> QED
    BY <2>1 DEF RT!Next
<1> QED
  BY <1>2, <1>3, <1>4

\* What the abstract program sees while becomp works, and of a chunk bedecomp
\* cannot restore.
LEMMA BarEncode ==
  ASSUME pc \in {"block", "enc", "coded"}, ~failed
  PROVE  backBar = buf.base /\ stateBar = "busy"
  BY DEF backBar, stateBar
LEMMA BarFailed ==
  ASSUME pc \in {"coded", "dblock", "dec", "check", "lost"}, failed
  PROVE  backBar = buf.base /\ stateBar = "lost"
  BY DEF backBar, stateBar
LEMMA BarIdle ==
  ASSUME pc \in {"read", "next", "done", "exit"}
  PROVE  backBar = tot /\ stateBar = "idle"
  BY DEF backBar, stateBar
LEMMA BarStopped ==
  ASSUME pc \in Stopping
  PROVE  backBar = buf.base /\ stateBar = "dead"
  BY DEF backBar, stateBar, Stopping

\* Each step of the program is one of RoundTrip, or none.
LEMMA RoundTripNext ==
  TypeOK /\ TypeOK' /\ CoverInv /\ PlaceInv /\ FramingInv /\ InStep /\ InStep' /\ [Next]_vars
    => [RT!Next]_<<tot, backBar, stateBar, opt.cmp # 0>>
<1> SUFFICES ASSUME TypeOK, TypeOK', CoverInv, PlaceInv, FramingInv, InStep, InStep', [Next]_vars
             PROVE  [RT!Next]_<<tot, backBar, stateBar, opt.cmp # 0>>
  OBVIOUS
<1>1. CASE Read
  <2>1. pc = "read" /\ pc' = "block" /\ ~failed' /\ buf'.base = tot /\ UNCHANGED opt
    BY <1>1 DEF Read, confVars
  <2>2. tot' > tot
    BY <1>1 DEF Read, TypeOK
  <2>3. backBar = tot /\ stateBar = "idle" /\ backBar' = tot /\ stateBar' = "busy"
    BY <2>1 DEF backBar, stateBar
  <2>4. RT!Send
    BY <2>1, <2>2, <2>3 DEF RT!Send
  <2> QED
    BY <2>4 DEF RT!Next
<1>2. CASE ReadNothing \/ Advance
  <2>1. pc \in {"read", "next"} /\ pc' \in {"read", "done"} /\ UNCHANGED <<opt, tot>>
    BY <1>2 DEF ReadNothing, Advance, confVars
  <2> QED
    BY <2>1 DEF backBar, stateBar
<1>3. CASE EncBlockAll \/ EncBlockOne \/ EncBlockEnd \/ EncAgain \/ EncEnd
  <2>1. /\ pc \in {"block", "enc"} /\ pc' \in {"block", "enc", "coded"}
        /\ UNCHANGED <<opt, tot, buf, failed>>
    BY <1>3 DEF EncBlockAll, EncBlockOne, EncBlockEnd, EncAgain, EncEnd, encVars, confVars
  <2>2. ~failed
    BY <2>1 DEF CoverInv
  <2> QED
    BY <2>1, <2>2 DEF backBar, stateBar
<1>4. ASSUME NEW r \in CodecRet, EncStore(r)
      PROVE  [RT!Next]_<<tot, backBar, stateBar, opt.cmp # 0>>
  <2>1. pc = "enc" /\ pc' = "enc" /\ UNCHANGED <<opt, tot, buf, failed>>
    BY <1>4 DEF EncStore, EncGuard, confVars
  <2>2. ~failed
    BY <2>1 DEF CoverInv
  <2> QED
    BY <2>1, <2>2 DEF backBar, stateBar
<1>5. ASSUME NEW r \in CodecRet, EncFail(r)
      PROVE  [RT!Next]_<<tot, backBar, stateBar, opt.cmp # 0>>
  <2>1. pc = "enc" /\ pc' = "coded" /\ failed' /\ UNCHANGED <<opt, tot, buf>>
    BY <1>5 DEF EncFail, EncGuard, confVars
  <2>2. ~failed
    BY <2>1 DEF CoverInv
  <2>3. UNCHANGED backBar /\ stateBar = "busy" /\ stateBar' = "lost"
    BY <2>1, <2>2 DEF backBar, stateBar
  <2>4. RT!Lose
    BY <2>1, <2>3 DEF RT!Lose
  <2> QED
    BY <2>4 DEF RT!Next
<1>6. CASE EncOutside \/ \E r \in CodecRet : EncDieLarger(r) \/ EncDieOverflow(r)
  <2>1. pc = "enc" /\ pc' \in Stopping /\ UNCHANGED <<opt, tot, buf>>
    BY <1>6 DEF EncOutside, EncDieLarger, EncDieOverflow, EncGuard, confVars, Stopping
  <2>2. ~failed
    BY <2>1 DEF CoverInv
  <2>3. UNCHANGED backBar /\ stateBar = "busy" /\ stateBar' = "dead"
    BY <2>1, <2>2 DEF backBar, stateBar, Stopping
  <2>4. RT!Die
    BY <2>1, <2>3 DEF RT!Die
  <2> QED
    BY <2>4 DEF RT!Next
<1>7. CASE DecSkip
  <2>1. pc = "coded" /\ pc' = "next" /\ opt.cmp = 0 /\ UNCHANGED <<opt, tot>>
    BY <1>7 DEF DecSkip, confVars
  <2>2. backBar' = tot' /\ stateBar' = "idle"
    BY <2>1 DEF backBar, stateBar
  <2>3. CASE failed
    <3>1. stateBar = "lost"
      BY <2>1, <2>3, BarFailed
    <3>2. RT!GiveUp
      BY <2>1, <2>2, <3>1 DEF RT!GiveUp
    <3> QED
      BY <3>2 DEF RT!Next
  <2>4. CASE ~failed
    <3>1. stateBar = "busy"
      BY <2>1, <2>4, BarEncode
    <3>2. RT!Skip
      BY <2>1, <2>2, <3>1 DEF RT!Skip
    <3> QED
      BY <3>2 DEF RT!Next
  <2> QED
    BY <2>3, <2>4
<1>8. CASE DecStart
  <2>1. /\ pc = "coded" /\ pc' = "dblock" /\ rop' = 0
        /\ UNCHANGED <<opt, tot, buf, failed>>
    BY <1>8 DEF DecStart, encVars, confVars
  <2>2. buf.base + Lesser(0, buf.len) = buf.base
    BY DEF Lesser, TypeOK
  <2> QED
    BY <2>1, <2>2 DEF backBar, stateBar
<1>9. CASE DecBlockAll \/ DecBlockOne \/ DecBlockEnd \/ DecSub \/ DecUnsized \/ DecEnd
  <2>1. /\ pc \in {"dblock", "dec"} /\ pc' \in {"dblock", "dec", "check"}
        /\ UNCHANGED <<confVars, tot, buf, failed>>
    BY <1>9 DEF DecBlockAll, DecBlockOne, DecBlockEnd, DecSub, DecUnsized, DecEnd, encVars
  <2>2. rop' \in Nat /\ rop <= rop'
    <3>1. CASE DecSub \/ DecUnsized
      <4>1. rop' = rop + DSub /\ rop < rend
        BY <3>1 DEF DecSub, DecUnsized
      <4>2. DSub \in Nat
        BY <4>1 DEF DSub, Cut, Lesser, TypeOK
      <4> QED
        BY <4>1, <4>2 DEF TypeOK
    <3>2. CASE DecBlockOne
      BY <3>2 DEF DecBlockOne, TypeOK
    <3>3. CASE DecBlockAll \/ DecBlockEnd \/ DecEnd
      BY <3>3 DEF DecBlockAll, DecBlockEnd, DecEnd, decVars, TypeOK
    <3> QED
      BY <1>9, <3>1, <3>2, <3>3
  <2>3. CASE failed
    BY <2>1, <2>3 DEF backBar, stateBar, confVars
  <2>4. CASE ~failed
    BY <2>1, <2>2, <2>4, ReturnStep
  <2> QED
    BY <2>3, <2>4
<1>10. CASE DecLost
  <2>1. /\ pc \in {"dblock", "dec"} /\ pc' = "lost"
        /\ UNCHANGED <<opt, tot, buf, failed>>
    BY <1>10 DEF DecLost, encVars, confVars
  <2>2. failed
    BY <2>1 DEF InStep
  <2> QED
    BY <2>1, <2>2 DEF backBar, stateBar
<1>11. CASE CheckSame \/ CheckDiffers
  <2>1. pc \in {"check", "lost"} /\ pc' \in {"next", "exit"} /\ UNCHANGED <<opt, tot>>
    BY <1>11 DEF CheckSame, CheckDiffers, confVars
  <2>2. backBar' = tot' /\ stateBar' = "idle"
    BY <2>1 DEF backBar, stateBar
  <2>3. CASE failed
    <3>1. stateBar = "lost"
      BY <2>1, <2>3, BarFailed
    <3>2. RT!GiveUp
      BY <2>1, <2>2, <3>1 DEF RT!GiveUp
    <3> QED
      BY <3>2 DEF RT!Next
  <2>4. CASE ~failed
    <3>1. pc = "check" /\ opt.cmp # 0
      BY <2>1, <2>4 DEF InStep, PlaceInv
    <3>2. rop >= Total /\ tot = buf.base + buf.len
      BY <2>4, <3>1 DEF FramingInv, PlaceInv, Working
    <3>3. Lesser(rop, buf.len) = buf.len
      BY <3>2, ChunkFits, TotalNat DEF Lesser, TypeOK
    <3>4. backBar = tot /\ stateBar = "busy"
      BY <2>4, <3>1, <3>2, <3>3 DEF backBar, stateBar
    <3>5. RT!Accept
      BY <2>1, <2>2, <3>1, <3>4 DEF RT!Accept
    <3> QED
      BY <3>5 DEF RT!Next
  <2> QED
    BY <2>3, <2>4
<1>12. CASE UNCHANGED vars
  BY <1>12 DEF vars, confVars, encVars, decVars, backBar, stateBar
<1> QED
  BY <1>1, <1>2, <1>3, <1>4, <1>5, <1>6, <1>7, <1>8, <1>9, <1>10, <1>11, <1>12 DEF Next, Encode

\* Whatever the file, the options and the codec: the bytes of the file are sent piece
\* by piece, and each piece comes back in order and in full before the next, or is
\* given up as a whole.
THEOREM RoundTripCorrect == Spec => RoundTripSpec
<1>1. Init => RT!Init
  BY OptAssumption DEF Init, RT!Init, backBar, stateBar
<1> QED
  BY <1>1, RoundTripNext, CoverCorrect, PlaceCorrect, FramingCorrect, InStepCorrect, TypeCorrect, PTL
     DEF Spec, RoundTripSpec, RT!Spec

-----------------------------------------------------------------------------
(* Arithmetic of positions in a buffer of n copies of a chunk of l bytes.  *)

LEMMA Split ==
  ASSUME NEW s \in Nat, NEW l \in Nat \ {0}
  PROVE  s % l \in 0..(l - 1) /\ s \div l \in Nat /\ s = l * (s \div l) + (s % l)
<1>1. s % l \in 0..(l - 1)
  OBVIOUS
<1>2. s \div l \in Nat
  OBVIOUS
<1>3. s = l * (s \div l) + (s % l)
  OBVIOUS
<1> QED
  BY <1>1, <1>2, <1>3

LEMMA Remainder ==
  ASSUME NEW l \in Nat \ {0}, NEW q \in Nat, NEW r \in 0..(l - 1)
  PROVE  (l * q + r) % l = r
  OBVIOUS

\* Within a copy positions and remainders go together.
LEMMA ModAdd ==
  ASSUME NEW s \in Nat, NEW l \in Nat \ {0}, NEW k \in Nat, (s % l) + k < l
  PROVE  (s + k) % l = (s % l) + k
<1> DEFINE q == s \div l
           r == s % l
<1>0. r \in 0..(l - 1) /\ q \in Nat /\ s = l * q + r /\ r + k < l
  BY Split
<1>1. r \in Nat /\ r + k \in 0..(l - 1) /\ q \in Nat /\ s = l * q + r
  <2> HIDE DEF q, r
  <2> QED
    BY <1>0
<1>2. (l * q + (r + k)) % l = r + k
  BY <1>1, Remainder
<1>3. l * q \in Nat
  BY <1>1
<1> HIDE DEF q, r
<1>4. s + k = l * q + (r + k)
  BY <1>1, <1>3
<1> QED
  BY <1>2, <1>4 DEF r

\* The end of a copy is the start of the next.
LEMMA ModWrap ==
  ASSUME NEW s \in Nat, NEW l \in Nat \ {0}, NEW k \in Nat, (s % l) + k = l
  PROVE  (s + k) % l = 0
<1> DEFINE q == s \div l
           r == s % l
<1>1. r \in Nat /\ q \in Nat /\ s = l * q + r
  BY Split
<1>2. (l * (q + 1) + 0) % l = 0
  BY <1>1, Remainder
<1>3. l * (q + 1) = l * q + l /\ l * q \in Nat
  BY <1>1
<1> HIDE DEF q, r
<1>4. s + k = l * (q + 1) + 0
  BY <1>1, <1>3 DEF r
<1> QED
  BY <1>2, <1>4

\* What does not leave its copy does not leave the buffer.
LEMMA InCopy ==
  ASSUME NEW s \in Nat, NEW l \in Nat \ {0}, NEW n \in Nat, NEW k \in Nat,
         s < l * n, (s % l) + k <= l
  PROVE  s + k <= l * n
<1> DEFINE q == s \div l
           r == s % l
<1>1. r \in Nat /\ q \in Nat /\ s = l * q + r
  BY Split
<1>2. q < n
  <2>1. ASSUME n <= q PROVE FALSE
    <3>1. \A a, b, c \in Nat : a <= b => c * a <= c * b
      OBVIOUS
    <3>2. l * n <= l * q
      BY <1>1, <2>1, <3>1
    <3>3. l * q \in Nat /\ l * n \in Nat
      BY <1>1
    <3> HIDE DEF q, r
    <3> QED
      BY <1>1, <3>2, <3>3
  <2> QED
    BY <1>1, <2>1
<1>3. l * q + l <= l * n
  <2>1. \A a, b, c \in Nat : a + 1 <= b => c * a + c <= c * b
    OBVIOUS
  <2> QED
    BY <1>1, <1>2, <2>1
<1>4. l * q \in Nat /\ l * n \in Nat
  BY <1>1
<1> HIDE DEF q
<1> QED
  BY <1>1, <1>3, <1>4

\* The copies of a chunk fill the buffer at most.
LEMMA CopiesFit ==
  ASSUME NEW a \in Nat, NEW n \in Nat \ {0}, n <= a
  PROVE  n * (a \div n) <= a
  BY Split

-----------------------------------------------------------------------------
(* Merged files.                                                           *)

\* A position at which the length of a block stands, or the end.
Boundary(x) == x \in Nat /\ x <= Total /\ x % buf.len \in DOMAIN file.at

\* The block whose length stands at s.
BlockEnd(s) == s + 4 + file.at[s % buf.len]

\* From a block's end the next block starts.
LEMMA NextBoundary ==
  ASSUME TypeOK, WholeBlocks, buf.len = file.size, buf.len > 0, NEW s \in Nat, s < Total, Boundary(s)
  PROVE  BlockEnd(s) \in Nat /\ file.at[s % buf.len] \in Nat /\ Boundary(BlockEnd(s))
<1> DEFINE l == buf.len
           o == s % l
           k == 4 + file.at[o]
<1>1. l \in Nat \ {0} /\ buf.nb \in Nat /\ file \in Files
  BY DEF TypeOK
<1>2. o \in DOMAIN file.at /\ o \in Nat
  BY <1>1, Split DEF Boundary
<1>3. file.at[o] \in Nat /\ k \in Nat
  BY <1>1, <1>2, FileAssumption
<1>4. o + k <= l /\ o + k \in DOMAIN file.at \cup {l} /\ 0 \in DOMAIN file.at
  <2>1. 0 \in DOMAIN file.at
    BY DEF WholeBlocks
  <2>2. o + 4 + file.at[o] <= file.size /\ o + 4 + file.at[o] \in DOMAIN file.at \cup {file.size}
    BY <1>1, <1>2, <2>1, MergedAssumption
  <2>3. o + k = o + 4 + file.at[o]
    BY <1>2, <1>3
  <2> QED
    BY <2>1, <2>2, <2>3
<1>5. s + k <= Total
  BY <1>1, <1>3, <1>4, InCopy DEF Total
<1>6. BlockEnd(s) = s + k
  BY <1>2, <1>3 DEF BlockEnd
<1>7. (s + k) % l \in DOMAIN file.at
  <2>1. CASE o + k < l
    <3>1. (s + k) % l = o + k
      BY <1>1, <1>3, <2>1, ModAdd
    <3>2. o + k # l
      BY <1>1, <1>2, <1>3, <2>1
    <3> HIDE DEF k, o
    <3> QED
      BY <1>4, <3>1, <3>2
  <2>2. CASE o + k = l
    <3>1. (s + k) % l = 0
      BY <1>1, <1>3, <2>2, ModWrap
    <3> QED
      BY <1>4, <3>1
  <2> HIDE DEF k, o
  <2> QED
    BY <1>1, <1>2, <1>3, <1>4, <2>1, <2>2
<1> HIDE DEF k
<1> QED
  BY <1>3, <1>5, <1>6, <1>7 DEF Boundary

\* Bytes src to src + n of the buffer are content of one block.
Content(src, n) ==
  \E s \in Nat : /\ s < Total /\ Boundary(s)
                 /\ s + 4 <= src /\ src + n <= BlockEnd(s)

\* So is what earlier runs gave to the codec.
OldContent == \A p \in DOMAIN old : old[p].kind = "sub" => Content(old[p].src, old[p].len)

\* A chunk of a merged file read in one piece is the file; the encoder is at the
\* start of a block or inside one, and what it gives to the codec is content.
WholeInv ==
  WholeBlocks =>
    /\ tot \in {0, file.size}
    /\ buf.len \in {0, file.size}
    /\ pc \in Working \cup {"lost"} => buf.base = 0 /\ buf.len = file.size /\ buf.len > 0
    /\ pc = "block" => Boundary(ip)
    /\ pc = "enc" => \E s \in Nat : /\ s < Total /\ Boundary(s) /\ s + 4 <= ip
                                    /\ iend = BlockEnd(s) /\ ip <= iend
    /\ \A p \in DOMAIN out : out[p].kind = "sub" => Content(out[p].src, out[p].len)
    /\ OldContent
    /\ pc # "outside"

\* Content stays content as long as the file and the buffer stay.
LEMMA ContentKept ==
  ASSUME UNCHANGED <<file, buf>>, NEW CONSTANT a, NEW CONSTANT n, Content(a, n)
  PROVE  Content(a, n)'
  BY DEF Content, Boundary, BlockEnd, Total

LEMMA OldKept == ASSUME UNCHANGED <<file, buf, old>>, OldContent PROVE OldContent'
<1> SUFFICES ASSUME NEW p \in DOMAIN old, old[p].kind = "sub"
             PROVE  Content(old[p].src, old[p].len)'
  BY DEF OldContent
<1>1. PICK a, n : a = old[p].src /\ n = old[p].len
  OBVIOUS
<1>2. Content(a, n)
  BY <1>1 DEF OldContent
<1>3. Content(a, n)'
  BY <1>2, ContentKept
<1> QED
  BY <1>1, <1>3

\* The buffer after a failure, and what a new run finds, hold items of both.
LEMMA OnTopContent ==
  ASSUME TypeOK, WholeInv, WholeBlocks, UNCHANGED <<file, buf>>,
         NEW kept \in SUBSET Behind, NEW p \in DOMAIN OnTop(kept), OnTop(kept)[p].kind = "sub",
         NEW CONSTANT a, NEW CONSTANT n, a = OnTop(kept)[p].src, n = OnTop(kept)[p].len
  PROVE  Content(a, n)'
<1>1. \/ p \in DOMAIN out /\ OnTop(kept)[p] = out[p]
      \/ p \in DOMAIN old /\ OnTop(kept)[p] = old[p]
  BY BehindOld, OnTopTyped
<1>2. Content(a, n)
  BY <1>1 DEF WholeInv, OldContent
<1> QED
  BY <1>2, ContentKept

LEMMA WholeFile ==
  ASSUME TypeOK, WholeBlocks
  PROVE  /\ file \in Files /\ file.size \in Nat /\ opt.mode
         /\ 0 \in DOMAIN file.at /\ file.at[0] \in Nat /\ 4 <= file.size /\ file.size <= Insize
<1>1. file \in Files /\ opt.mode /\ 0 \in DOMAIN file.at /\ file.size <= Insize
  BY FilenNat, FileAssumption DEF TypeOK, WholeBlocks
<1>2. file.size \in Nat /\ file.at[0] \in Nat
  BY <1>1, FileAssumption
<1>3. 0 + 4 + file.at[0] <= file.size
  BY <1>1, MergedAssumption
<1> QED
  BY <1>1, <1>2, <1>3

\* Steps of bedecomp and plugfile, and the ends of a block, move nothing.
LEMMA WholeSame ==
  ASSUME WholeInv, UNCHANGED <<confVars, tot, buf, out, old, ip, iend>>,
         pc' \in Working \cup {"lost"} => pc \in Working \cup {"lost"},
         pc' = "block" => pc = "block" \/ Boundary(ip), pc' = "enc" => pc = "enc", pc' # "outside"
  PROVE  WholeInv'
<1>1. /\ opt' = opt /\ file' = file /\ tot' = tot /\ buf' = buf /\ out' = out /\ old' = old
      /\ ip' = ip /\ iend' = iend
  BY DEF confVars
<1>2. WholeBlocks' <=> WholeBlocks
  BY <1>1 DEF WholeBlocks, Insize, Filen, Lesser
<1>3. Total' = Total /\ \A p : (Boundary(p)' <=> Boundary(p)) /\ BlockEnd(p)' = BlockEnd(p)
  BY <1>1 DEF Total, Boundary, BlockEnd
<1>4. ASSUME NEW p, NEW n, Content(p, n) PROVE Content(p, n)'
  <2>1. PICK s \in Nat : /\ s < Total /\ Boundary(s)
                         /\ s + 4 <= p /\ p + n <= BlockEnd(s)
    BY <1>4 DEF Content
  <2>2. s < Total' /\ Boundary(s)' /\ p + n <= BlockEnd(s)'
    BY <1>3, <2>1
  <2> QED
    BY <2>1, <2>2 DEF Content
<1>5. ASSUME WholeBlocks
      PROVE  /\ tot' \in {0, file'.size} /\ buf'.len \in {0, file'.size} /\ pc' # "outside"
             /\ pc' \in Working \cup {"lost"} =>
                  buf'.base = 0 /\ buf'.len = file'.size /\ buf'.len > 0
  BY <1>1, <1>5 DEF WholeInv
<1>6. WholeBlocks /\ pc' = "block" => Boundary(ip)'
  BY <1>1, <1>3 DEF WholeInv
<1>7. ASSUME WholeBlocks, pc' = "enc"
      PROVE  \E s \in Nat : /\ s < Total /\ Boundary(s) /\ s + 4 <= ip
                            /\ iend = BlockEnd(s) /\ ip <= iend
  BY <1>7 DEF WholeInv
<1>8. ASSUME WholeBlocks, NEW p \in DOMAIN out, out[p].kind = "sub"
      PROVE  Content(out[p].src, out[p].len)'
  BY <1>4, <1>8 DEF WholeInv
<1>9. WholeBlocks => OldContent'
  BY <1>1, OldKept DEF WholeInv
<1> QED
  BY <1>1, <1>2, <1>3, <1>5, <1>6, <1>7, <1>8, <1>9 DEF WholeInv

\* The length at a block's start is that of the block, and is not clamped.
LEMMA WholeLength ==
  ASSUME TypeOK, WholeInv, WholeBlocks, pc = "block", ip < Total, NEW v \in LengthsAt(ip)
  PROVE  /\ Boundary(ip) /\ Boundary(BlockEnd(ip)) /\ v = file.at[ip % buf.len] /\ v \in Nat
         /\ Clamp(v, Total - (ip + 4)) = v /\ ip + 4 + v = BlockEnd(ip)
<1>1. Boundary(ip) /\ buf.base = 0 /\ buf.len = file.size /\ buf.len > 0
  BY DEF WholeInv, Working
<1>2. ip \in Nat /\ Total \in Nat /\ buf.len \in Nat \ {0}
  BY <1>1, TotalNat DEF TypeOK
<1>3. (ip % buf.len) \in Nat
  BY <1>2, Split
<1>4. v = file.at[ip % buf.len]
  <2>1. buf.base + (ip % buf.len) = ip % buf.len
    BY <1>1, <1>3
  <2>2. (ip % buf.len) \in DOMAIN file.at
    BY <1>1 DEF Boundary
  <2> QED
    BY <2>1, <2>2 DEF LengthsAt
<1>5. v \in Nat /\ Boundary(BlockEnd(ip))
  BY <1>1, <1>2, <1>4, NextBoundary
<1>6. BlockEnd(ip) = ip + 4 + v
  BY <1>4 DEF BlockEnd
<1>7. v <= Total - (ip + 4)
  BY <1>2, <1>5, <1>6 DEF Boundary
<1>8. Clamp(v, Total - (ip + 4)) = v
  BY <1>2, <1>5, <1>7 DEF Clamp
<1> QED
  BY <1>1, <1>4, <1>5, <1>6, <1>8

LEMMA WholeNext == TypeOK /\ TypeOK' /\ WholeInv /\ [Next]_vars => WholeInv'
<1> SUFFICES ASSUME TypeOK, TypeOK', WholeInv, [Next]_vars PROVE WholeInv'
  OBVIOUS
<1>1. CASE Read
  <2> SUFFICES ASSUME WholeBlocks' PROVE WholeInv'
    BY DEF WholeInv
  <2>1. /\ WholeBlocks /\ file' = file /\ pc' = "block" /\ ip' = 0 /\ out' = NoItems
        /\ old' = NoItems
    BY <1>1 DEF Read, WholeBlocks, Insize, Filen, Lesser, confVars
  <2> DEFINE n == Lesser(Insize, file.size - tot)
  <2>2. n > 0 /\ tot' = tot + n /\ buf'.base = tot /\ buf'.len = n
    BY <1>1 DEF Read
  <2>3. tot = 0
    <3>1. tot \in {0, file.size}
      BY <2>1 DEF WholeInv
    <3>2. CASE tot = file.size
      BY <2>1, <2>2, <3>2, WholeFile, FilenNat DEF Lesser
    <3> QED
      BY <3>1, <3>2
  <2>4. n = file.size
    BY <2>1, <2>3, WholeFile, FilenNat DEF Lesser
  <2>5. tot' = file.size /\ buf'.base = 0 /\ buf'.len = file.size /\ file.size \in Nat \ {0}
    BY <2>1, <2>2, <2>3, <2>4, WholeFile
  <2>6. Boundary(ip)'
    <3>1. 0 % file.size = 0 /\ 0 \in DOMAIN file.at
      BY <2>1, <2>5, WholeFile
    <3>2. Total' \in Nat
      BY TotalNat DEF TypeOK, Total
    <3> QED
      BY <2>1, <2>5, <3>1, <3>2 DEF Boundary
  <2> QED
    BY <2>1, <2>5, <2>6 DEF WholeInv, OldContent, NoItems
<1>2. CASE EncBlockOne
  <2> SUFFICES ASSUME WholeBlocks' PROVE WholeInv'
    BY DEF WholeInv
  <2>1. /\ WholeBlocks /\ UNCHANGED <<file, tot, buf, old>> /\ pc = "block" /\ pc' = "enc"
        /\ ip < Total /\ ip' = ip + 4
    BY <1>2 DEF EncBlockOne, WholeBlocks, Insize, Filen, Lesser, confVars, runVars
  <2>2. PICK v \in LengthsAt(ip) :
          LET n == Clamp(v, Total - (ip + 4))
          IN  /\ iend' = ip + 4 + n
              /\ out' = Put(op, [kind |-> "blk", hdr |-> 4, val |-> v, src |-> ip, len |-> 4,
                                 raw |-> TRUE, end |-> ip + 4 + n, blk |-> n])
    BY <1>2 DEF EncBlockOne
  <2>3. Boundary(ip) /\ iend' = BlockEnd(ip) /\ v \in Nat /\ BlockEnd(ip) = ip + 4 + v
    BY <2>1, <2>2, WholeLength
  <2>4. ip' <= iend' /\ ip \in Nat /\ ip + 4 <= ip'
    BY <2>1, <2>3 DEF TypeOK
  <2>5. \E s \in Nat : /\ s < Total' /\ Boundary(s)' /\ s + 4 <= ip'
                       /\ iend' = BlockEnd(s)' /\ ip' <= iend'
    <3>1. ip < Total' /\ Boundary(ip) /\ BlockEnd(ip) = iend'
      BY <2>1, <2>3 DEF Total
    <3>2. \A s : (Boundary(s) <=> Boundary(s)') /\ BlockEnd(s) = BlockEnd(s)'
      BY <2>1 DEF Boundary, BlockEnd, Total
    <3> QED
      BY <2>4, <3>1, <3>2
  <2>6. ASSUME NEW p \in DOMAIN out', out'[p].kind = "sub"
        PROVE  Content(out[p].src, out[p].len)'
    <3>1. p # op /\ p \in DOMAIN out /\ out'[p] = out[p]
      BY <2>2, <2>6 DEF Put
    <3>2. Content(out[p].src, out[p].len)
      BY <2>1, <2>6, <3>1 DEF WholeInv
    <3>3. out'[p].src = out[p].src /\ out'[p].len = out[p].len
      BY <3>1
    <3> QED
      BY <2>1, <3>2, <3>3 DEF Content, Boundary, BlockEnd, Total
  <2>7. tot \in {0, file.size} /\ buf.len \in {0, file.size} /\ buf.base = 0 /\ buf.len = file.size /\ buf.len > 0
    BY <2>1 DEF WholeInv, Working
  <2>8. OldContent'
    BY <2>1, OldKept DEF WholeInv
  <2> QED
    BY <2>1, <2>5, <2>6, <2>7, <2>8 DEF WholeInv
<1>3. ASSUME NEW r \in CodecRet, EncStore(r) PROVE WholeInv'
  <2> SUFFICES ASSUME WholeBlocks' PROVE WholeInv'
    BY DEF WholeInv
  <2>1. /\ WholeBlocks /\ UNCHANGED <<file, tot, buf, old, iend>> /\ pc = "enc" /\ pc' = "enc"
        /\ ip < iend /\ ip' = ip + Sub
    BY <1>3 DEF EncStore, EncGuard, WholeBlocks, Insize, Filen, Lesser, confVars, runVars
  <2>2. Sub \in Nat /\ ip + Sub <= iend
    BY <2>1 DEF Sub, Cut, Lesser, TypeOK
  <2>3. PICK s \in Nat : s < Total /\ Boundary(s) /\ s + 4 <= ip /\ iend = BlockEnd(s)
    BY <2>1 DEF WholeInv
  <2>4. s + 4 <= ip' /\ ip' <= iend'
    BY <2>1, <2>2, <2>3 DEF TypeOK
  <2>5. Content(ip, Sub)
    BY <2>2, <2>3 DEF Content
  <2>6. ASSUME NEW p \in DOMAIN out', out'[p].kind = "sub"
        PROVE  Content(out[p].src, out[p].len)'
    <3>1. CASE p = op
      <4>1. out'[p].src = ip /\ out'[p].len = Sub
        BY <1>3, <3>1 DEF EncStore, Put
      <4> QED
        BY <2>1, <2>5, <4>1 DEF Content, Boundary, BlockEnd, Total
    <3>2. CASE p # op
      <4>1. p \in DOMAIN out /\ out'[p] = out[p]
        BY <1>3, <2>6, <3>2 DEF EncStore, Put
      <4>2. Content(out[p].src, out[p].len)
        BY <2>1, <2>6, <4>1 DEF WholeInv
      <4>3. out'[p].src = out[p].src /\ out'[p].len = out[p].len
        BY <4>1
      <4> QED
        BY <2>1, <4>2, <4>3 DEF Content, Boundary, BlockEnd, Total
    <3> QED
      BY <3>1, <3>2
  <2>7. s < Total' /\ Boundary(s)' /\ iend' = BlockEnd(s)'
    BY <2>1, <2>3 DEF Boundary, BlockEnd, Total
  <2>8. tot \in {0, file.size} /\ buf.len \in {0, file.size} /\ buf.base = 0 /\ buf.len = file.size /\ buf.len > 0
    BY <2>1 DEF WholeInv, Working
  <2>9. OldContent'
    BY <2>1, OldKept DEF WholeInv
  <2> QED
    BY <2>1, <2>4, <2>6, <2>7, <2>8, <2>9 DEF WholeInv
<1>4. CASE EncOutside
  <2> SUFFICES ASSUME WholeBlocks' PROVE WholeInv'
    BY DEF WholeInv
  <2>1. WholeBlocks /\ pc = "enc" /\ ip < iend /\ ip + Sub > Total
    BY <1>4 DEF EncOutside, EncGuard, WholeBlocks, Insize, Filen, Lesser, confVars
  <2>2. PICK s \in Nat : s < Total /\ Boundary(s) /\ iend = BlockEnd(s)
    BY <2>1 DEF WholeInv
  <2>3. iend <= Total
    <3>1. buf.len = file.size /\ buf.len > 0
      BY <2>1 DEF WholeInv, Working
    <3>2. Boundary(BlockEnd(s))
      BY <2>1, <2>2, <3>1, NextBoundary
    <3> QED
      BY <2>2, <3>2 DEF Boundary
  <2>4. ip + Sub <= iend /\ Sub \in Nat
    BY <2>1 DEF Sub, Cut, Lesser, TypeOK
  <2> QED
    BY <2>1, <2>3, <2>4, TotalNat DEF TypeOK
<1>5. CASE EncBlockEnd
  <2>1. UNCHANGED <<confVars, tot, buf, out, old, ip, iend>> /\ pc = "enc" /\ pc' = "block" /\ ip >= iend
    BY <1>5 DEF EncBlockEnd, encVars, runVars
  <2>2. WholeBlocks => Boundary(ip)
    <3> SUFFICES ASSUME WholeBlocks PROVE Boundary(ip)
      OBVIOUS
    <3>1. PICK s \in Nat : s < Total /\ Boundary(s) /\ iend = BlockEnd(s) /\ ip <= iend
      BY <2>1 DEF WholeInv
    <3>2. buf.len = file.size /\ buf.len > 0
      BY <2>1 DEF WholeInv, Working
    <3>3. Boundary(iend)
      BY <3>1, <3>2, NextBoundary
    <3>4. ip = iend
      BY <2>1, <3>1 DEF TypeOK
    <3> QED
      BY <3>3, <3>4
  <2>3. CASE WholeBlocks
    BY <2>1, <2>2, <2>3, WholeSame DEF Working
  <2>4. CASE ~WholeBlocks
    BY <2>1, <2>4 DEF WholeInv, WholeBlocks, Insize, Filen, Lesser, confVars
  <2> QED
    BY <2>3, <2>4
<1>6. CASE EncBlockAll
  BY <1>6 DEF EncBlockAll, WholeInv, WholeBlocks, confVars
<1>7. ASSUME NEW r \in CodecRet, EncDieLarger(r) \/ EncDieOverflow(r) PROVE WholeInv'
  <2>1. /\ UNCHANGED <<confVars, tot, buf, out, old, ip, iend>> /\ pc = "enc"
        /\ pc' \in {"larger", "overflow"}
    BY <1>7 DEF EncDieLarger, EncDieOverflow, EncGuard, encVars, runVars
  <2> QED
    BY <2>1, WholeSame DEF Working
<1>8. CASE EncEnd \/ DecSkip \/ DecStart
  <2>1. UNCHANGED <<confVars, tot, buf, out, old, ip, iend>> /\ pc \in Working
        /\ pc' \in {"coded", "next", "dblock"}
    BY <1>8 DEF EncEnd, DecSkip, DecStart, encVars, runVars, Working
  <2> QED
    BY <2>1, WholeSame
<1>9. CASE DecBlockAll \/ DecBlockOne \/ DecBlockEnd \/ DecSub \/ DecUnsized \/ DecLost \/ DecEnd
  <2>1. UNCHANGED <<confVars, tot, buf, out, old, ip, iend>> /\ pc \in Working
        /\ pc' \in {"dec", "dblock", "lost", "check"}
    BY <1>9 DEF DecBlockAll, DecBlockOne, DecBlockEnd, DecSub, DecUnsized, DecLost, DecEnd, encVars, runVars, Working
  <2> QED
    BY <2>1, WholeSame
<1>10. CASE ReadNothing \/ CheckSame \/ CheckDiffers \/ Advance
  <2>1. UNCHANGED <<confVars, tot, buf, out, old, ip, iend>> /\ pc' \in {"next", "exit", "read", "done"}
    BY <1>10 DEF ReadNothing, CheckSame, CheckDiffers, Advance, encVars, runVars
  <2> QED
    BY <2>1, WholeSame DEF Working
<1>11. CASE UNCHANGED vars
  <2>1. UNCHANGED <<confVars, tot, buf, out, old, ip, iend, pc>>
    BY <1>11 DEF vars, encVars, runVars
  <2>2. CASE pc # "outside"
    BY <2>1, <2>2, WholeSame
  <2>3. CASE pc = "outside"
    BY <2>1, <2>3 DEF WholeInv, WholeBlocks, Insize, Filen, Lesser, confVars
  <2> QED
    BY <2>2, <2>3
<1>12. CASE EncAgain
  <2> SUFFICES ASSUME WholeBlocks' PROVE WholeInv'
    BY DEF WholeInv
  <2>1. /\ WholeBlocks /\ UNCHANGED <<file, tot, buf>> /\ pc = "block" /\ pc' = "block"
        /\ ip' = 0 /\ out' = NoItems /\ old' = OnTop(Behind)
    BY <1>12 DEF EncAgain, WholeBlocks, Insize, Filen, Lesser, confVars
  <2>2. tot \in {0, file.size} /\ buf.base = 0 /\ buf.len = file.size /\ buf.len > 0
    BY <2>1 DEF WholeInv, Working
  <2>3. Boundary(ip)'
    <3>1. file.size \in Nat \ {0} /\ 0 \in DOMAIN file.at
      BY <2>1, <2>2, WholeFile
    <3>2. 0 % file.size = 0
      BY <3>1
    <3> QED
      BY <2>1, <2>2, <3>1, <3>2, TotalNat DEF Boundary, Total
  <2>4. OldContent'
    <3> SUFFICES ASSUME NEW p \in DOMAIN old', old'[p].kind = "sub"
                 PROVE  Content(old[p].src, old[p].len)'
      BY DEF OldContent
    <3>1. PICK a, n : a = old'[p].src /\ n = old'[p].len
      OBVIOUS
    <3>2. Content(a, n)'
      BY <2>1, <3>1, OnTopContent
    <3> QED
      BY <3>1, <3>2
  <2> QED
    BY <2>1, <2>2, <2>3, <2>4 DEF WholeInv, NoItems
<1>13. ASSUME NEW r \in CodecRet, EncFail(r) PROVE WholeInv'
  <2> SUFFICES ASSUME WholeBlocks' PROVE WholeInv'
    BY DEF WholeInv
  <2>1. WholeBlocks /\ UNCHANGED <<file, tot, buf, old>> /\ pc = "enc" /\ pc' = "coded"
    BY <1>13 DEF EncFail, EncGuard, WholeBlocks, Insize, Filen, Lesser, confVars, runVars
  <2>2. tot \in {0, file.size} /\ buf.base = 0 /\ buf.len = file.size /\ buf.len > 0
    BY <2>1 DEF WholeInv, Working
  <2>3. PICK kept \in SUBSET Behind : out' = OnTop(kept)
    BY <1>13 DEF EncFail
  <2>4. ASSUME NEW p \in DOMAIN out', out'[p].kind = "sub"
        PROVE  Content(out[p].src, out[p].len)'
    <3>1. PICK a, n : a = out'[p].src /\ n = out'[p].len
      OBVIOUS
    <3>2. Content(a, n)'
      BY <2>1, <2>3, <2>4, <3>1, OnTopContent
    <3> QED
      BY <3>1, <3>2
  <2>5. OldContent'
    BY <2>1, OldKept DEF WholeInv
  <2> QED
    BY <2>1, <2>2, <2>4, <2>5 DEF WholeInv
<1> QED
  BY <1>12, <1>13, <1>1, <1>2, <1>3, <1>4, <1>5, <1>6, <1>7, <1>8, <1>9, <1>10, <1>11 DEF Next, Encode

LEMMA WholeCorrect == Spec => []WholeInv
<1>1. Init => WholeInv
  BY DEF Init, WholeInv, OldContent, Working, NoItems
<1> QED
  BY <1>1, WholeNext, TypeCorrect, PTL DEF Spec

\* A merged file's content is never the length in front of a block.
LEMMA ContentIsContent ==
  ASSUME TypeOK, WholeInv, WholeBlocks, NEW a \in Nat, NEW n \in Nat, Content(a, n),
         NEW q \in a..(a + n - 1), NEW o \in DOMAIN file.at
  PROVE  (q % buf.len) \notin o..(o + 3)
<1> DEFINE l == buf.len
<1>1. PICK s \in Nat : /\ s < Total /\ Boundary(s)
                       /\ s + 4 <= a /\ a + n <= BlockEnd(s)
  BY DEF Content
<1>2. l = file.size /\ l \in Nat \ {0} /\ buf.nb \in Nat /\ file \in Files
  <2>1. l # 0
    <3>1. ASSUME l = 0 PROVE Total = 0
      BY <3>1 DEF Total, TypeOK
    <3> QED
      BY <1>1, <3>1
  <2> QED
    BY <2>1 DEF WholeInv, TypeOK
<1> DEFINE b == s % l
           k == q - s
<1>3. b \in DOMAIN file.at /\ b \in Nat
  <2>1. b \in DOMAIN file.at
    BY <1>1 DEF Boundary
  <2>2. s % l \in Nat
    <3>1. s \in Nat
      BY <1>1
    <3> HIDE DEF l
    <3>2. s % l \in 0..(l - 1)
      BY <1>2, <3>1, Split
    <3> QED
      BY <1>2, <3>1, <3>2
  <2> QED
    BY <2>1, <2>2
<1>4. file.at[b] \in Nat /\ file.at[o] \in Nat /\ o \in Nat /\ 0 \in DOMAIN file.at
  <2>1. 0 \in DOMAIN file.at
    BY DEF WholeBlocks
  <2> QED
    BY <1>2, <1>3, <2>1, FileAssumption, MergedAssumption
<1>5. k \in Nat /\ 4 <= k /\ k < 4 + file.at[b] /\ q = s + k
  BY <1>1, <1>3, <1>4 DEF BlockEnd
<1>6. b + 4 + file.at[b] <= l /\ (b < o => b + 4 + file.at[b] <= o) /\ (o < b => o + 4 + file.at[o] <= b)
  BY <1>2, <1>3, <1>4, MergedAssumption
<1>7. b + k < l
  <2> HIDE DEF b, k, l
  <2> QED
    BY <1>2, <1>3, <1>4, <1>5, <1>6
<1>8. q % l = b + k
  <2>1. s \in Nat /\ k \in Nat /\ (s % l) + k < l
    BY <1>5, <1>7
  <2>2. (s + k) % l = (s % l) + k
    <3> HIDE DEF k
    <3> QED
      BY <1>2, <2>1, ModAdd
  <2> HIDE DEF k
  <2> QED
    BY <1>5, <2>2
<1> HIDE DEF b, k
<1>9. b + k \notin o..(o + 3)
  BY <1>3, <1>4, <1>5, <1>6
<1> QED
  BY <1>8, <1>9

\* With -m no sub-block given to a codec overlaps the length in front of a block of
\* a merged file read in one piece: becomp processes each block on its own.
THEOREM BlocksApartCorrect == Spec => []BlocksApart
<1>1. TypeOK /\ WholeInv => BlocksApart
  <2> SUFFICES ASSUME TypeOK, WholeInv, WholeBlocks,
                      NEW p \in DOMAIN out, out[p].kind = "sub",
                      NEW q \in out[p].src .. (out[p].src + out[p].len - 1), NEW o \in DOMAIN file.at
               PROVE  (q % buf.len) \notin o..(o + 3)
    BY DEF BlocksApart
  <2>1. out[p].src \in Nat /\ out[p].len \in Nat
    BY DEF TypeOK, Items
  <2>2. Content(out[p].src, out[p].len)
    BY DEF WholeInv
  <2> QED
    BY <2>1, <2>2, ContentIsContent
<1> QED
  BY <1>1, WholeCorrect, TypeCorrect, PTL

-----------------------------------------------------------------------------
(* How a file ends.                                                        *)

\* EndsAsSaid, with the chunk and its copies inside the input buffer and the
\* bytes read inside the file.
EndInv ==
  /\ tot <= file.size
  /\ Total <= Insize
  /\ pc = "done" => tot >= Filen
  /\ pc = "read" => tot < Filen \/ tot = 0
  /\ pc = "larger" => ~opt.mcpy
  /\ pc = "overflow" /\ opt.mcpy => opt.mode \/ buf.bsize < Total
  /\ pc = "outside" => opt.mode

\* With -P a sub-block never takes more than its own length in the output.
LEMMA StoredFits ==
  ASSUME TypeOK, EncGuard, NEW r \in CodecRet, opt.mcpy
  PROVE  Stored(r) <= Sub /\ Sub <= iend - ip /\ Sub <= buf.bsize /\ Sub \in Nat
  BY CodecAssumption DEF TypeOK, EncGuard, Sub, Cut, Lesser, Stored, StoreRaw

\* No step but Read changes what EndInv says of the buffer.
LEMMA EndSame ==
  ASSUME EndInv, UNCHANGED <<confVars, tot, buf>>,
         pc' \in {"done", "read", "larger", "overflow", "outside"} => pc' = pc
  PROVE  EndInv'
  BY DEF EndInv, Total, Insize, Filen, Lesser, confVars

LEMMA EndNext == TypeOK /\ TypeOK' /\ FramingInv /\ EndInv /\ [Next]_vars => EndInv'
<1> SUFFICES ASSUME TypeOK, TypeOK', FramingInv, EndInv, [Next]_vars PROVE EndInv'
  OBVIOUS
<1>1. CASE Read
  <2>1. PICK n : /\ n = Lesser(Insize, file.size - tot) /\ n > 0 /\ tot' = tot + n
                 /\ buf' = [base |-> tot, len |-> n, nb |-> Copies(n), bsize |-> SubSize(n)]
    BY <1>1 DEF Read
  <2>2. /\ Insize \in Nat /\ file.size \in Nat /\ tot \in Nat /\ tot <= file.size
        /\ opt.min \in Nat
    BY FilenNat, FileAssumption, OptAssumption DEF EndInv, TypeOK
  <2>3. n \in Nat \ {0} /\ n <= Insize /\ tot' <= file.size
    BY <2>1, <2>2 DEF Lesser
  <2>4. n * Copies(n) <= Insize
    <3>1. CASE n < opt.min
      BY <2>2, <2>3, <3>1, CopiesFit DEF Copies
    <3>2. CASE ~(n < opt.min)
      BY <2>3, <3>2 DEF Copies
    <3> QED
      BY <3>1, <3>2
  <2>5. pc' = "block" /\ opt' = opt /\ file' = file
    BY <1>1 DEF Read, confVars
  <2>6. Total' = n * Copies(n) /\ Insize' = Insize
    BY <2>1, <2>5 DEF Total, Insize, Filen, Lesser
  <2> QED
    BY <2>3, <2>4, <2>5, <2>6 DEF EndInv
<1>2. CASE ReadNothing
  <2>1. /\ UNCHANGED <<confVars, tot, buf>> /\ pc' = "done" /\ Lesser(Insize, file.size - tot) = 0
    BY <1>2 DEF ReadNothing
  <2>2. /\ Filen \in Nat /\ file.size \in Nat /\ tot \in Nat /\ tot <= file.size /\ Filen <= file.size
        /\ opt.min \in Nat /\ opt.bsize \in Nat \ {0}
    BY FilenNat, FileAssumption, OptAssumption DEF EndInv, TypeOK, Filen
  <2>3. Insize = 0 => Filen = 0
    BY <2>2 DEF Insize, Lesser
  <2>4. tot >= Filen
    BY <2>1, <2>2, <2>3 DEF Lesser
  <2>5. tot' >= Filen'
    BY <2>1, <2>4 DEF Filen, confVars
  <2> QED
    BY <2>1, <2>5 DEF EndInv, Total, Insize, Filen, Lesser, confVars
<1>3. CASE Advance
  <2>1. /\ UNCHANGED <<confVars, tot, buf>> /\ pc' = IF tot >= Filen THEN "done" ELSE "read"
    BY <1>3 DEF Advance
  <2>2. Filen' = Filen /\ Filen \in Nat /\ tot \in Nat
    BY <2>1, FilenNat DEF Filen, confVars, TypeOK
  <2> QED
    BY <2>1, <2>2 DEF EndInv, Total, Insize, Filen, Lesser, confVars
<1>4. ASSUME NEW r \in CodecRet, EncDieLarger(r) PROVE EndInv'
  <2>1. UNCHANGED <<confVars, tot, buf>> /\ pc' = "larger" /\ EncGuard
        /\ SubHdr = 2 /\ Stored(r) >= W16
    BY <1>4 DEF EncDieLarger
  <2>2. ASSUME opt.mcpy PROVE FALSE
    <3>1. Stored(r) <= Sub /\ Sub <= buf.bsize /\ Sub \in Nat /\ Stored(r) \in Nat /\ buf.bsize \in Nat
      BY <2>1, <2>2, StoredFits, SubTyped DEF TypeOK
    <3>2. Lesser(buf.bsize, Sub) = Sub
      BY <3>1 DEF Lesser
    <3>3. Sub < W16
      BY <2>1, <3>2 DEF SubHdr, HdrWidth
    <3> QED
      BY <2>1, <3>1, <3>3, WidthAssumption
  <2>3. ~opt'.mcpy
    BY <2>1, <2>2 DEF confVars
  <2> QED
    BY <2>1, <2>3 DEF EndInv, Total, Insize, Filen, Lesser, confVars
<1>5. ASSUME NEW r \in CodecRet, EncDieOverflow(r) PROVE EndInv'
  <2>1. UNCHANGED <<confVars, tot, buf>> /\ pc' = "overflow" /\ EncGuard /\ pc = "enc" /\ ip < iend
        /\ op + SubHdr + Stored(r) > Outsize
    BY <1>5 DEF EncDieOverflow, EncGuard
  <2>2. ASSUME opt.mcpy, ~opt.mode, ~(buf.bsize < Total) PROVE FALSE
    <3>1. iend = Total /\ inlen = Total /\ ip = 0 /\ op = 0
      BY <2>1, <2>2, TotalNat DEF FramingInv, EncoderInv, TypeOK
    <3>2. SubHdr = 0
      BY <2>2, <3>1 DEF SubHdr, HdrWidth
    <3>3. Stored(r) <= Sub /\ Sub <= Total /\ Sub \in Nat /\ Stored(r) \in Nat
      BY <2>1, <2>2, <3>1, StoredFits, SubTyped, TotalNat DEF TypeOK
    <3>4. Total <= Insize /\ Insize \in Nat /\ Total \in Nat
      BY FilenNat, TotalNat DEF EndInv
    <3>5. Insize <= Outsize
      <4>1. \A a \in Nat : a <= (a * 13) \div 10
        OBVIOUS
      <4>2. (Insize * 13) \div 10 \in Nat /\ Insize <= (Insize * 13) \div 10
        BY <3>4, <4>1, DivNat
      <4> QED
        BY <3>4, <4>2, SlackAssumption DEF Outsize
    <3>6. Outsize \in Nat
      <4>1. (Insize * 13) \div 10 \in Nat
        BY <3>4, DivNat
      <4> QED
        BY <4>1, SlackAssumption DEF Outsize
    <3> QED
      BY <2>1, <3>1, <3>2, <3>3, <3>4, <3>5, <3>6
  <2>3. opt'.mcpy => opt'.mode \/ buf'.bsize < Total'
    BY <2>1, <2>2 DEF confVars, Total
  <2> QED
    BY <2>1, <2>3 DEF EndInv, Total, Insize, Filen, Lesser, confVars
<1>6. CASE EncOutside
  <2>1. UNCHANGED <<confVars, tot, buf>> /\ pc' = "outside" /\ pc = "enc" /\ ip < iend /\ ip + Sub > Total
    BY <1>6 DEF EncOutside, EncGuard
  <2>2. ip + Sub <= iend /\ Sub \in Nat
    BY <2>1 DEF Sub, Cut, Lesser, TypeOK
  <2>3. ASSUME ~opt.mode PROVE FALSE
    <3>1. iend = Total
      BY <2>1, <2>3 DEF FramingInv, EncoderInv
    <3> QED
      BY <2>1, <2>2, <3>1, TotalNat DEF TypeOK
  <2>4. opt'.mode
    BY <2>1, <2>3 DEF confVars
  <2> QED
    BY <2>1, <2>4 DEF EndInv, Total, Insize, Filen, Lesser, confVars
<1>7. ASSUME NEW r \in CodecRet, EncStore(r) \/ EncFail(r) PROVE EndInv'
  <2>1. UNCHANGED <<confVars, tot, buf>> /\ pc' \in {"enc", "coded"}
    BY <1>7 DEF EncStore, EncFail, EncGuard
  <2> QED
    BY <2>1, EndSame
<1>8. CASE EncBlockAll \/ EncBlockOne \/ EncBlockEnd \/ EncAgain \/ EncEnd
  <2>1. UNCHANGED <<confVars, tot, buf>> /\ pc' \in {"enc", "block", "coded"}
    BY <1>8 DEF EncBlockAll, EncBlockOne, EncBlockEnd, EncAgain, EncEnd
  <2> QED
    BY <2>1, EndSame
<1>9. CASE DecSkip \/ DecStart \/ DecBlockAll \/ DecBlockOne \/ DecBlockEnd \/ DecSub \/ DecUnsized
  <2>1. UNCHANGED <<confVars, tot, buf>> /\ pc' \in {"next", "dblock", "dec"}
    BY <1>9 DEF DecSkip, DecStart, DecBlockAll, DecBlockOne, DecBlockEnd, DecSub, DecUnsized
  <2> QED
    BY <2>1, EndSame
<1>10. CASE DecLost \/ DecEnd \/ CheckSame \/ CheckDiffers
  <2>1. UNCHANGED <<confVars, tot, buf>> /\ pc' \in {"lost", "check", "next", "exit"}
    BY <1>10 DEF DecLost, DecEnd, CheckSame, CheckDiffers
  <2> QED
    BY <2>1, EndSame
<1>11. CASE UNCHANGED vars
  BY <1>11, EndSame DEF vars
<1> QED
  BY <1>1, <1>2, <1>3, <1>4, <1>5, <1>6, <1>7, <1>8, <1>9, <1>10, <1>11 DEF Next, Encode

LEMMA EndCorrect == Spec => []EndInv
<1>1. Init => EndInv
  <2> SUFFICES ASSUME Init PROVE EndInv
    OBVIOUS
  <2>1. TypeOK
    BY TypeInit
  <2>2. Insize \in Nat /\ file.size \in Nat /\ Total = 0
    BY <2>1, FilenNat, FileAssumption DEF Init, TypeOK, Total
  <2> QED
    BY <2>2 DEF Init, EndInv
<1> QED
  BY <1>1, EndNext, FramingCorrect, TypeCorrect, PTL DEF Spec

\* A file ends as its messages say: read to its size or to -B, "Use option '-P'"
\* only without -P, the output full with -P only when lengths take room, bytes
\* outside the buffer only when a -m chunk is cut inside a block.
THEOREM EndsAsSaidCorrect == Spec => []EndsAsSaid
<1>1. EndInv /\ WholeInv => EndsAsSaid
  BY DEF EndInv, WholeInv, EndsAsSaid
<1> QED
  BY <1>1, EndCorrect, WholeCorrect, PTL
=============================================================================

------------------------------ MODULE MemTrack ------------------------------
(***************************************************************************)
(* The malloc family that counts what a codec allocates, and the painted   *)
(* stack (src/turbobench.c 222-405).  mempeakinit opens a window with both *)
(* counters at 0; mempeak reads the peak.                                  *)
(*                                                                         *)
(* mem_used and mem_peak are plain variables and every thread of a codec   *)
(* calls malloc: an update is a load and a store, the comparison with the  *)
(* peak and its store are further steps, and other threads may come        *)
(* between.  Blocks live on when a window ends; their bytes are no longer  *)
(* in mem_used, but are subtracted from it when they are freed.            *)
(***************************************************************************)
EXTENDS Integers, FiniteSets, FiniteSetsExt

CONSTANTS
  Thread, Block, NoBlock,
  SizeMax,       \* 2^64
  Size,          \* bytes of a block
  StackHere      \* words of stack in use where stackini is called

ASSUME MemAssumption ==
  /\ Size \subseteq Nat \ {0} /\ StackHere \in Nat
  /\ IsFiniteSet(Block) /\ NoBlock \notin Block /\ SizeMax \in Nat \ {0}

VARIABLES
  used, peak,    \* mem_used, mem_peak
  heap,          \* the live blocks: [size, win], win: of this window
  thr,           \* each thread inside the malloc family: [op, b, n, reg]
  mark,          \* the deepest word of stack that is not STACK_MAGIC
  top,           \* history: the most bytes of this window's blocks live at once
  shared,        \* history: two threads were inside the family at once
  raced,         \* history: a counter was stored while another thread held its value
  skewed,        \* history: a foreign block was freed, or a realloc refused
  again,         \* history: a posix_memalign that failed was counted
  reached        \* history: how deep the codec went in this window

memVars == <<used, peak, heap, thr, mark, top, shared, raced, skewed, again, reached>>

Idle == [op |-> "idle", step |-> "load", b |-> NoBlock, n |-> 0, reg |-> 0]
Quiet == \A t \in Thread : thr[t] = Idle

(* Bytes of the live blocks of this window. *)
Sizes(h) == [b \in DOMAIN h |-> h[b].size]
Live(h) == MapThenSumSet(LAMBDA b : Sizes(h)[b], {b \in DOMAIN h : h[b].win})

Larger(a, b) == IF a > b THEN a ELSE b

MemTypeOK ==
  /\ used \in Nat /\ peak \in Nat
  /\ DOMAIN heap \subseteq Block /\ heap \in [DOMAIN heap -> [size : Size, win : BOOLEAN]]
  /\ \A t \in Thread : /\ thr[t].op \in {"idle", "malloc", "recount", "free", "realloc"}
                       /\ thr[t].step \in {"load", "store", "compare", "keep", "system"}
  /\ mark \in Nat

MemInit ==
  /\ used = 0 /\ peak = 0 /\ heap = <<>> /\ thr = [t \in Thread |-> Idle]
  /\ mark = StackHere
  /\ top = 0 /\ shared = FALSE /\ raced = FALSE /\ skewed = FALSE
  /\ again = FALSE /\ reached = StackHere

(* Mutant: the peak of the window before stays. *)
mempeakinitUsed == used' = 0 /\ UNCHANGED peak

mempeakinit == used' = 0 /\ peak' = 0

(* Mutant: nothing is painted. *)
stackiniSkip == UNCHANGED mark

(* Everything below the frame of the caller is painted. *)
stackini == mark' = StackHere

(* mempeakinit and stackini, called one after the other by plugfile. *)
OpenWindow ==
  /\ Quiet
  /\ mempeakinit /\ stackini
  /\ heap' = [b \in DOMAIN heap |-> [heap[b] EXCEPT !.win = FALSE]]
  /\ top' = 0 /\ shared' = FALSE /\ raced' = FALSE /\ skewed' = FALSE
  /\ again' = FALSE /\ reached' = StackHere
  /\ UNCHANGED thr

(* mempeak and stackpeak. *)
mempeak == peak
stackpeak == mark

-----------------------------------------------------------------------------
(* One thread inside the family.                                           *)

Enter(t, op, b, n) ==
  /\ thr[t] = Idle
  /\ thr' = [thr EXCEPT ![t] = [op |-> op, step |-> "load", b |-> b, n |-> n, reg |-> 0]]
  /\ shared' = (shared \/ \E u \in Thread \ {t} : thr[u] # Idle)

Owned(b) == \E t \in Thread : thr[t] # Idle /\ thr[t].b = b

(* malloc, calloc, memalign, posix_memalign and aligned_alloc: a block is  *)
(* there before it is counted; if none is given, nothing is counted, but   *)
(* by posix_memalign.                                                      *)
malloc(t, b, n) ==
  /\ b \notin DOMAIN heap /\ Enter(t, "malloc", b, n)
  /\ heap' = [c \in DOMAIN heap \cup {b} |->
                IF c = b THEN [size |-> n, win |-> TRUE] ELSE heap[c]]
  /\ top' = Larger(top, Live(heap'))
  /\ UNCHANGED <<used, peak, mark, raced, skewed, again, reached>>

(* posix_memalign does not look at what it returns: when it fails, it      *)
(* counts what malloc_usable_size says of the pointer the caller's         *)
(* variable held before: a block that is counted already, or, where it     *)
(* points nowhere, any number (a crash only ends the run).  Where the      *)
(* variable was NULL nothing is counted.                                   *)
recount(t, n) ==
  /\ Enter(t, "recount", NoBlock, n)
  /\ again' = TRUE
  /\ UNCHANGED <<used, peak, heap, mark, top, raced, skewed, reached>>

(* free takes off what is live before it releases it, realloc before it    *)
(* knows whether there is a new block.                                     *)
free(t, b, op) ==
  /\ b \in DOMAIN heap /\ ~Owned(b) /\ op \in {"free", "realloc"}
  /\ Enter(t, op, b, heap[b].size)
  /\ skewed' = (skewed \/ ~heap[b].win)
  /\ UNCHANGED <<used, peak, heap, mark, top, raced, again, reached>>

(* The load of mem_used in mem_add or mem_sub. *)
Load(t) ==
  /\ thr[t].op # "idle" /\ thr[t].step = "load"
  /\ thr' = [thr EXCEPT ![t].step = "store", ![t].reg = used]
  /\ UNCHANGED <<used, peak, heap, mark, top, shared, raced, skewed, again, reached>>

Store(t) ==
  /\ thr[t].op # "idle" /\ thr[t].step = "store"
  /\ raced' = (raced \/ \E u \in Thread \ {t} : thr[u].op # "idle" /\ thr[u].step = "store")
  /\ UNCHANGED <<heap, mark, top, shared, skewed, again, reached>>

(* Mutant: the sum before is what the peak is compared with. *)
mem_addOld(t) ==
  /\ used' = thr[t].reg + thr[t].n
  /\ thr' = [thr EXCEPT ![t].step = "compare"]

(* mem_used += size; the register keeps the sum for the comparison *)
mem_add(t) ==
  /\ used' = thr[t].reg + thr[t].n
  /\ thr' = [thr EXCEPT ![t].step = "compare", ![t].reg = @ + thr[t].n]

(* Mutant: no clamp; the difference is a size_t. *)
mem_subWraps(t) == used' = (thr[t].reg - thr[t].n) % SizeMax

(* mem_used -= size > mem_used ? mem_used : size *)
mem_sub(t) == used' = Larger(thr[t].reg - thr[t].n, 0)

Allocates(t) == thr[t].op \in {"malloc", "recount"}

StoreAdd(t) ==
  /\ Allocates(t) /\ Store(t) /\ mem_add(t)
  /\ UNCHANGED peak

(* if(... > mem_peak) *)
Compare(t) ==
  /\ Allocates(t) /\ thr[t].step = "compare"
  /\ thr' = [thr EXCEPT ![t] = IF thr[t].reg > peak THEN [@ EXCEPT !.step = "keep"] ELSE Idle]
  /\ UNCHANGED <<used, peak, heap, mark, top, shared, raced, skewed, again, reached>>

(* mem_peak = mem_used, the sum in the register: another thread may have   *)
(* stored a larger peak since.                                             *)
Keep(t) ==
  /\ Allocates(t) /\ thr[t].step = "keep"
  /\ peak' = thr[t].reg
  /\ thr' = [thr EXCEPT ![t] = Idle]
  /\ UNCHANGED <<used, heap, mark, top, shared, raced, skewed, again, reached>>

StoreSub(t) ==
  /\ thr[t].op \in {"free", "realloc"} /\ Store(t) /\ mem_sub(t)
  /\ thr' = [thr EXCEPT ![t].step = "system"]
  /\ UNCHANGED peak

(* The C library releases the block of free, ... *)
Release(t) ==
  /\ thr[t].op = "free" /\ thr[t].step = "system"
  /\ heap' = [c \in DOMAIN heap \ {thr[t].b} |-> heap[c]]
  /\ thr' = [thr EXCEPT ![t] = Idle]
  /\ UNCHANGED <<used, peak, mark, top, shared, raced, skewed, again, reached>>

(* ... gives the one of realloc another size, ... *)
Resize(t, n) ==
  /\ thr[t].op = "realloc" /\ thr[t].step = "system"
  /\ heap' = [heap EXCEPT ![thr[t].b] = [size |-> n, win |-> TRUE]]
  /\ top' = Larger(top, Live(heap'))
  /\ thr' = [thr EXCEPT ![t].op = "malloc", ![t].step = "load", ![t].n = n]
  /\ UNCHANGED <<used, peak, mark, shared, raced, skewed, again, reached>>

(* ... or has no room for it: the old block stays, no longer counted. *)
Refuse(t) ==
  /\ thr[t].op = "realloc" /\ thr[t].step = "system"
  /\ thr' = [thr EXCEPT ![t] = Idle] /\ skewed' = TRUE
  /\ UNCHANGED <<used, peak, heap, mark, top, shared, raced, again, reached>>

(* The codec's frames overwrite the paint. *)
Touch(d) ==
  /\ reached' = Larger(reached, d) /\ mark' = Larger(mark, d)
  /\ UNCHANGED <<used, peak, heap, thr, top, shared, raced, skewed, again>>

Begin(t) == \/ \E b \in Block : \/ \E n \in Size : malloc(t, b, n)
                                \/ \E op \in {"free", "realloc"} : free(t, b, op)
            \/ \E n \in Size : recount(t, n)
Go(t) == Load(t) \/ StoreAdd(t) \/ Compare(t) \/ Keep(t) \/ StoreSub(t) \/ Release(t)
           \/ (\E n \in Size : Resize(t, n)) \/ Refuse(t)

-----------------------------------------------------------------------------
(* Properties of a window.                                                 *)

(* Unless an update was lost or a posix_memalign that failed was counted,   *)
(* what the counters say was really there: the figures of a codec are never *)
(* too high, whatever it frees of older windows, whatever realloc refuses   *)
(* it and however its threads meet over the peak.  Without threads that     *)
(* overlap, foreign blocks and refusals they are exact, at every call.  The *)
(* stack a codec used is the depth of this window, not of an earlier one    *)
(* that went deeper.                                                        *)
CountersHold ==
  /\ Quiet /\ ~raced /\ ~again => used <= Live(heap) /\ peak <= top
  /\ Quiet /\ ~shared /\ ~skewed /\ ~again => used = Live(heap) /\ peak = top
  /\ stackpeak = reached
=============================================================================

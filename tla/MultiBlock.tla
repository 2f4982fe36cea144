----------------------------- MODULE MultiBlock -----------------------------
(***************************************************************************)
(* bebuild (src/turbobench.c 1839-1896): all files in one, each behind its *)
(* length, so that it can be benchmarked block by block (-M, then -m).     *)
(* With -r the names come from DirWalk.  The file is a sequence of words:  *)
(* a length <<"len", n>> stands for four bytes, anything else is one byte. *)
(***************************************************************************)
EXTENDS DirWalk, SequencesExt

CONSTANTS Data,                \* of each regular file: what can be read
          Archive, Dashed,     \* nodes whose names end in .7z, .gz or .zip,
                               \* or begin with a dash
          Insize,              \* what is read of a file: 100 MB
          LEN                  \* bytes of a length: 4

ASSUME DataAssumption ==
  /\ DOMAIN Data = {n \in DOMAIN Kind : Kind[n] = "reg"}
  /\ \A n \in DOMAIN Data : Data[n] \in Seq(STRING)
  /\ Insize \in Nat /\ LEN \in Nat \ {0}

VARIABLES fo,                  \* the file that is written
          st_fnum, st_flen,    \* files and bytes written
          fno,                 \* operands not merged yet, without -r
          open,                \* input files left open
          build                \* "off", "walk", "files", "built", "die",
                               \* "exit", "undefined"

buildVars == <<walkVars, fo, st_fnum, st_flen, fno, open, build>>

BuildInit ==
  /\ WalkInit
  /\ fo = <<>> /\ st_fnum = 0 /\ st_flen = 0 /\ fno = <<>>
  /\ open = 0 /\ build = "off"

bebuild(files, recurse) ==
  /\ build = "off"
  /\ IF recurse
     THEN rdiropen(files) /\ build' = "walk" /\ UNCHANGED fno
     ELSE build' = "files" /\ fno' = files /\ UNCHANGED walkVars
  /\ UNCHANGED <<fo, st_fnum, st_flen, open>>

Length(n) == <<"len", n>>
Block(d)  == <<Length(Len(d))>> \o d
Shorter(a, b) == IF a < b THEN a ELSE b
Regular == {"reg", "secret"}     \* "secret": a file that cannot be opened
Read(node) == SubSeq(Data[node], 1, Shorter(Insize, Len(Data[node])))

-----------------------------------------------------------------------------
(* Recursive: what the next regular file adds.  When less than a length is left
   the unsigned difference wraps and what is written is whatever lies behind
   the buffer. *)
RoomNoLength(filenmax) == filenmax - st_flen    \* mutant
Room(filenmax) == filenmax - (st_flen + LEN)
MergeEntry(filenmax) ==
  LET d    == Read(entry.node)
      kept == SubSeq(d, 1, Shorter(Len(d), Room(filenmax)))
      flen == st_flen + LEN + Len(kept)
  IN IF Kind[entry.node] = "secret"
     THEN build' = "die" /\ UNCHANGED <<fo, st_fnum, st_flen, open, walk>>
     ELSE IF Len(d) = 0
     THEN walk' = "next" /\ UNCHANGED <<fo, st_fnum, st_flen, open, build>>
     ELSE IF Room(filenmax) < 0
     THEN build' = "undefined" /\ UNCHANGED <<fo, st_fnum, st_flen, open, walk>>
     ELSE /\ fo' = fo \o Block(kept) /\ st_fnum' = st_fnum + 1 /\ st_flen' = flen
          /\ IF flen >= filenmax           \* break: the file stays open
             THEN walk' = "end" /\ open' = open + 1
             ELSE walk' = "next" /\ UNCHANGED open
          /\ UNCHANGED build

TakeEntry(filenmax) ==
  /\ build = "walk" /\ walk = "entry"
  /\ \/ /\ entry.node \in Archive \/ Kind[entry.node] \notin Regular
        /\ walk' = "next" /\ UNCHANGED <<fo, st_fnum, st_flen, open, build>>
     \/ /\ entry.node \notin Archive /\ Kind[entry.node] \in Regular
        /\ MergeEntry(filenmax)
  /\ UNCHANGED <<list, posset, dirs, prefix, entry, fno>>

Walk ==
  /\ build = "walk" /\ rdirnext
  /\ UNCHANGED <<fo, st_fnum, st_flen, fno, open, build>>

(* The average length is a division by the number of files. *)
EndBuild == build' = IF st_fnum = 0 THEN "undefined" ELSE "built"

WalkDone ==
  /\ build = "walk" /\ walk = "end"
  /\ rdirclose /\ EndBuild
  /\ UNCHANGED <<fo, st_fnum, st_flen, fno, open>>

-----------------------------------------------------------------------------
(* Not recursive. *)

(* With a delimiter the first file that is not empty is cut at it, and nothing
   comes after that file; with room for its length only, nothing of it.  The
   loop turns once for each delimiter; what it has
   written by then is as many words as it has read: a length stands where the
   delimiter before it stood.  Where no delimiter follows, the length that is
   computed is arbitrary. *)
Delims(d, delim)   == {i \in 1..Len(d) : d[i] = delim}
Turns(ends, e)     == Cardinality({i \in ends : i <= e})
EndAfter(ends, i)  == CHOOSE e \in ends : e >= i /\ \A f \in ends : f >= i => e <= f
WordAt(d, ends, i) == IF i = 1 \/ i - 1 \in ends THEN Length(EndAfter(ends, i) - i) ELSE d[i - 1]
SplitUpTo(d, ends, e) == [i \in 1..e |-> WordAt(d, ends, i)]
SplitFile(d, filenmax, delim) ==
  LET ends    == Delims(d, delim)
      flen(e) == st_flen + (LEN - 1) * Turns(ends, e) + e
      last    == Shorter(Len(d), Room(filenmax))
      full    == {e \in ends : flen(e) >= filenmax \/ e >= last}
      stop    == CHOOSE e \in full : \A f \in full : e <= f
  IN IF last = 0
     THEN build' = "exit" /\ UNCHANGED <<fo, st_fnum, st_flen>>
     ELSE IF full = {}
     THEN build' = "undefined" /\ UNCHANGED <<fo, st_fnum, st_flen>>
     ELSE /\ fo' = fo \o SplitUpTo(d, ends, stop)
          /\ st_fnum' = st_fnum + Turns(ends, stop) /\ st_flen' = flen(stop)
          /\ build' = "exit"

(* Nothing ends the loop when the limit is met exactly: the next file finds less
   than no room. *)
MergeFile(d, filenmax) ==
  LET kept == SubSeq(d, 1, Shorter(Len(d), Room(filenmax)))
  IN IF Room(filenmax) < 0
     THEN build' = "undefined" /\ UNCHANGED <<fo, st_fnum, st_flen>>
     ELSE /\ fo' = fo \o Block(kept) /\ st_fnum' = st_fnum + 1
          /\ st_flen' = st_flen + LEN + Len(kept)
          /\ UNCHANGED build

NextFile(filenmax, delim) ==
  /\ build = "files" /\ fno # <<>>
  /\ LET op == Head(fno)
         d  == IF Kind[op.node] = "reg" THEN Read(op.node) ELSE <<>>
     IN IF Kind[op.node] \in {"gone", "secret", "locked"} /\ op.node \notin Dashed
        THEN build' = "die" /\ UNCHANGED <<fo, st_fnum, st_flen>>
        ELSE IF op.node \in Dashed \/ d = <<>>
        THEN UNCHANGED <<fo, st_fnum, st_flen, build>>
        ELSE IF delim # "none" THEN SplitFile(d, filenmax, delim)
        ELSE MergeFile(d, filenmax)
  /\ fno' = Tail(fno)
  /\ UNCHANGED <<walkVars, open>>

FilesDone ==
  /\ build = "files" /\ fno = <<>>
  /\ EndBuild
  /\ UNCHANGED <<walkVars, fo, st_fnum, st_flen, fno, open>>

BuildNext(filenmax, delim) ==
  \/ Walk \/ TakeEntry(filenmax) \/ WalkDone
  \/ NextFile(filenmax, delim) \/ FilesDone
=============================================================================

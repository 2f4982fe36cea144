------------------------------ MODULE DirWalk ------------------------------
(***************************************************************************)
(* rdiropen, rdirnext and rdirclose (src/turbobench.c 411-525): the names  *)
(* given and all that lies below them, one after the other.  The open      *)
(* directories are a stack; only the path of the topmost is kept, and cut  *)
(* at its last slash when a directory ends.                                *)
(*                                                                         *)
(* A path is [root, parts, slash]: it begins with "/", its names, it ends  *)
(* with "/".  A node of the file system is found by resolving its names.   *)
(***************************************************************************)
EXTENDS Integers, Sequences, FiniteSets

CONSTANTS RDIR_DEPTH,          \* 128 in the code
          Kind,                \* of each node: what stat and opendir say
          Sub,                 \* of each directory: name to node
          PATH_MAX,            \* bytes rdirnext writes of a name: 4096
          PATH_LENMAX          \* bebuild keeps one byte more for it: 1024

ASSUME WalkAssumption ==
  /\ RDIR_DEPTH \in Nat \ {0} /\ PATH_MAX \in Nat /\ PATH_LENMAX \in Nat
  /\ DOMAIN Sub = {n \in DOMAIN Kind : Kind[n] = "dir"}
  /\ \A d \in DOMAIN Sub : /\ DOMAIN Sub[d] \subseteq STRING /\ IsFiniteSet(DOMAIN Sub[d])
                          /\ Sub[d] \in [DOMAIN Sub[d] -> DOMAIN Kind]

VARIABLES list,                \* operands not looked at
          posset,              \* stack->pos is NULL or was given a value
          dirs,                \* the open directories: [node, left]
          prefix,              \* path of the topmost
          entry,               \* the entry returned last: [path, node]
          walk                 \* "closed", "next", "entry", "end", "undefined"

walkVars == <<list, posset, dirs, prefix, entry, walk>>

Path    == [root : BOOLEAN, parts : Seq(STRING), slash : BOOLEAN]
NoPath  == [root |-> FALSE, parts |-> <<>>, slash |-> FALSE]
NoEntry == [path |-> NoPath, node |-> "none"]

WalkInit ==
  /\ list = <<>> /\ posset = FALSE /\ dirs = <<>> /\ prefix = NoPath
  /\ entry = NoEntry /\ walk = "closed"

rdiropen(paths) ==
  /\ walk = "closed"
  /\ list' = paths /\ walk' = "next" /\ posset' \in BOOLEAN
  /\ dirs' = <<>> /\ prefix' = NoPath /\ UNCHANGED entry

Top == dirs[Len(dirs)]

(* The path of what is called n in the topmost directory. *)
Below(n) == IF prefix.slash \/ prefix.parts # <<>> \/ prefix.root
            THEN [root |-> prefix.root, parts |-> Append(prefix.parts, n), slash |-> FALSE]
            ELSE [root |-> FALSE, parts |-> <<n>>, slash |-> FALSE]

(* Mutant: nothing is cut. *)
ParentUncut(p) == p

(* Cut at the last slash, which the root keeps. *)
Parent(p) ==
  IF p.slash THEN [p EXCEPT !.slash = FALSE]
  ELSE IF p.parts = <<>> \/ (Len(p.parts) = 1 /\ ~p.root) THEN [NoPath EXCEPT !.root = p.root]
  ELSE [p EXCEPT !.parts = SubSeq(@, 1, Len(@) - 1)]

Yield(path, node) == entry' = [path |-> path, node |-> node] /\ walk' = "entry"

(* Mutant: one directory more than the stack holds. *)
NextInDirDeep ==
  /\ walk = "next" /\ posset /\ dirs # <<>>
  /\ \E n \in Top.left :
       LET node == Sub[Top.node][n]
           rest == [dirs EXCEPT ![Len(dirs)].left = @ \ {n}]
       IN IF Kind[node] = "gone"
          THEN dirs' = rest /\ UNCHANGED <<prefix, entry, walk>>
          ELSE /\ Yield(Below(n), node)
               /\ IF Kind[node] = "dir" /\ Len(dirs) <= RDIR_DEPTH
                  THEN /\ dirs' = Append(rest, [node |-> node, left |-> DOMAIN Sub[node]])
                       /\ prefix' = Below(n)
                  ELSE dirs' = rest /\ UNCHANGED prefix
  /\ UNCHANGED <<list, posset>>

(* readdir gives the names of a directory in any order.  What cannot be
   examined is passed over; a directory is entered if it can be opened and the
   stack has room. *)
NextInDir ==
  /\ walk = "next" /\ posset /\ dirs # <<>>
  /\ \E n \in Top.left :
       LET node == Sub[Top.node][n]
           rest == [dirs EXCEPT ![Len(dirs)].left = @ \ {n}]
       IN IF Kind[node] = "gone"
          THEN dirs' = rest /\ UNCHANGED <<prefix, entry, walk>>
          ELSE /\ Yield(Below(n), node)
               /\ IF Kind[node] = "dir" /\ Len(dirs) < RDIR_DEPTH
                  THEN /\ dirs' = Append(rest, [node |-> node, left |-> DOMAIN Sub[node]])
                       /\ prefix' = Below(n)
                  ELSE dirs' = rest /\ UNCHANGED prefix
  /\ UNCHANGED <<list, posset>>

(* Mutants: all open directories end with the topmost; it is read again. *)
EndOfDirAll ==
  /\ walk = "next" /\ posset /\ dirs # <<>> /\ Top.left = {}
  /\ dirs' = <<>> /\ prefix' = Parent(prefix)
  /\ UNCHANGED <<list, posset, entry, walk>>
EndOfDirAgain ==
  /\ walk = "next" /\ posset /\ dirs # <<>> /\ Top.left = {}
  /\ UNCHANGED walkVars

EndOfDir ==
  /\ walk = "next" /\ posset /\ dirs # <<>> /\ Top.left = {}
  /\ dirs' = SubSeq(dirs, 1, Len(dirs) - 1)
  /\ prefix' = Parent(prefix)
  /\ UNCHANGED <<list, posset, entry, walk>>

(* stack->pos is not set by rdiropen: until a directory is opened it holds what
   lay in the memory malloc gave, which only works when that was NULL. *)
UnsetPos ==
  /\ walk = "next" /\ ~posset
  /\ walk' = "undefined"
  /\ UNCHANGED <<list, posset, dirs, prefix, entry>>

NextOperand ==
  /\ walk = "next" /\ posset /\ dirs = <<>> /\ list # <<>>
  /\ LET op == Head(list)
     IN IF Kind[op.node] = "gone"
        THEN UNCHANGED <<dirs, prefix, entry, walk>>
        ELSE /\ Yield(op.path, op.node)
             /\ IF Kind[op.node] = "dir"
                THEN /\ dirs' = <<[node |-> op.node, left |-> DOMAIN Sub[op.node]]>>
                     /\ prefix' = op.path
                ELSE UNCHANGED <<dirs, prefix>>
  /\ list' = Tail(list) /\ UNCHANGED posset

WalkEnds ==
  /\ walk = "next" /\ posset /\ dirs = <<>> /\ list = <<>>
  /\ walk' = "end"
  /\ UNCHANGED <<list, posset, dirs, prefix, entry>>

(* Every name is padded with zeros, or ended, at PATH_MAX, beyond the end of the
   array it is for: the walk goes on only where that hurts nobody. *)
NameOverrun ==
  /\ walk = "next" /\ posset /\ PATH_MAX > PATH_LENMAX + 1
  /\ \/ dirs # <<>> /\ Top.left # {}
     \/ dirs = <<>> /\ list # <<>>
  /\ walk' = "undefined"
  /\ UNCHANGED <<list, posset, dirs, prefix, entry>>

rdirnext ==
  \/ NextInDir \/ EndOfDir \/ NextOperand \/ WalkEnds
  \/ UnsetPos \/ NameOverrun

(* Whatever directories are open are closed. *)
rdirclose ==
  /\ walk' = "closed" /\ dirs' = <<>>
  /\ UNCHANGED <<list, posset, prefix, entry>>

-----------------------------------------------------------------------------
(* The stack of open directories holds RDIR_DEPTH and no more, though links may
   lead back to a directory above them. *)
StackHolds == Len(dirs) <= RDIR_DEPTH
=============================================================================

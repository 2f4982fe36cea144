---------------------------- MODULE CodecSelect ----------------------------
(***************************************************************************)
(* Which codecs are run: the argument of -e is cut at its slashes, the     *)
(* names of groups are replaced by their contents (main, src/turbobench.c  *)
(* 2213-2249), and every level of every codec named is entered in the      *)
(* table plug once (plugreg, plugins).                                     *)
(*                                                                         *)
(* A segment is [name, levels], a level [lev, prm]: the number strtol read, *)
(* as sprintf writes it, and the text behind it.  A level is a sequence of *)
(* digits, because it is looked up as a part of the text of all levels.    *)
(***************************************************************************)
EXTENDS Integers, Sequences, FiniteSets

CONSTANTS Name,                \* what a segment may be called
          Ini, Plugg,          \* groups of turbobench.ini and of the program
          Registry,            \* codecs of this build: name to [id, lev]
          Param,               \* parameters that may follow a level
          Cut,                 \* what plug keeps of each: PRM_SIZE characters
          PLUGN                \* places of the table: 256

ASSUME CutAssumption ==
  /\ Cut \in [Param -> Param] /\ "" \in Param
  /\ \A p \in Param : Cut[Cut[p]] = Cut[p]

Segment == [name : Name \cup {"ON", "OFF"}, levels : Seq([lev : Seq(Nat), prm : Param])]
ASSUME SelectAssumption ==
  /\ PLUGN \in Nat
  /\ \A n \in DOMAIN Ini : Ini[n] \in Seq(Segment)
  /\ \A n \in DOMAIN Plugg : Plugg[n] \in Seq(Segment)
  /\ \A n \in DOMAIN Registry : Registry[n].lev \in Seq(Seq(Nat))

VARIABLES spec,                \* what is left of the argument of -e
          cmd,                 \* the text for plugreg: segments, "ON", "OFF"
          ignore,              \* inside a group
          plug,                \* the table
          wanted,              \* every level that was asked for outside a group
          selected             \* "expand", "register", "ok", "exit", "die"

selVars == <<spec, cmd, ignore, plug, wanted, selected>>

ON  == [name |-> "ON",  levels |-> <<>>]
OFF == [name |-> "OFF", levels |-> <<>>]
INVLEV == <<>>
COMMA == -1                    \* between the digits of two levels

SelectInit ==
  /\ cmd = <<>> /\ ignore = FALSE /\ plug = <<>> /\ wanted = {}
  /\ selected = "expand"

(* A segment is a group only when it has no levels; a group of the file hides
   the program's own of that name. *)
Group(seg) ==
  IF seg.levels # <<>> THEN <<seg>>
  ELSE IF seg.name \in DOMAIN Ini   THEN <<ON>> \o Ini[seg.name] \o <<OFF>>
  ELSE IF seg.name \in DOMAIN Plugg THEN <<ON>> \o Plugg[seg.name] \o <<OFF>>
  ELSE <<seg>>

ExpandSegment ==
  /\ selected = "expand" /\ spec # <<>>
  /\ cmd' = cmd \o Group(Head(spec))
  /\ spec' = Tail(spec)
  /\ UNCHANGED <<ignore, plug, wanted, selected>>

StartPlugreg ==
  /\ selected = "expand" /\ spec = <<>>
  /\ selected' = "register"
  /\ UNCHANGED <<spec, cmd, ignore, plug, wanted>>

-----------------------------------------------------------------------------
(* The list of levels as one text, and the places at which s is found. *)
JoinedUpTo(levs) ==
  LET text[n \in 0..Len(levs)] ==
        IF n = 0 THEN <<>>
        ELSE IF n = 1 THEN levs[1] ELSE text[n - 1] \o <<COMMA>> \o levs[n]
  IN text
Joined(levs) == JoinedUpTo(levs)[Len(levs)]

Found(text, s) == {i \in 1..Len(text) :
                     /\ i + Len(s) - 1 <= Len(text)
                     /\ SubSeq(text, i, i + Len(s) - 1) = s}

(* Mutant: the first place may be anywhere. *)
HasLevelAnywhere(levs, s) == Found(Joined(levs), s) # {}

(* strstr(gs->lev, s), and only the first place counts: it must be the start of
   a level.  Nothing asks for its end. *)
HasLevel(levs, s) ==
  LET text == Joined(levs)
      at   == Found(text, s)
  IN \E i \in at : /\ \A j \in at : i <= j
                   /\ i = 1 \/ text[i - 1] = COMMA

InRange(gs, lev) == IF lev = INVLEV THEN gs.lev = <<>> ELSE HasLevel(gs.lev, lev)

Entry(gs, level) == [id |-> gs.id, lev |-> level.lev, prm |-> level.prm]
Kept(e)          == [e EXCEPT !.prm = Cut[@]]

(* Mutants: nothing ends a full table; a full table takes no more; only the last
   entry is compared. *)
AddCodecNoLimit(e) ==
  IF \E i \in DOMAIN plug : plug[i] = e
  THEN UNCHANGED <<plug, selected>>
  ELSE plug' = Append(plug, Kept(e)) /\ UNCHANGED selected
AddCodecSilent(e) ==
  IF (\E i \in DOMAIN plug : plug[i] = e) \/ Len(plug) >= PLUGN
  THEN UNCHANGED <<plug, selected>>
  ELSE plug' = Append(plug, Kept(e)) /\ UNCHANGED selected
AddCodecLast(e) ==
  IF plug # <<>> /\ plug[Len(plug)] = e
  THEN UNCHANGED <<plug, selected>>
  ELSE IF Len(plug) >= PLUGN
  THEN selected' = "die" /\ UNCHANGED plug
  ELSE plug' = Append(plug, Kept(e)) /\ UNCHANGED selected

(* plugins *)
AddCodec(e) ==
  IF \E i \in DOMAIN plug : plug[i] = e
  THEN UNCHANGED <<plug, selected>>
  ELSE IF Len(plug) >= PLUGN
  THEN selected' = "die" /\ UNCHANGED plug
  ELSE plug' = Append(plug, Kept(e)) /\ UNCHANGED selected

(* One level of the first segment: a codec without levels has the level
   INVLEV. *)
Levels(seg) == IF seg.levels = <<>> THEN <<[lev |-> INVLEV, prm |-> ""]>> ELSE seg.levels

RegisterLevel ==
  /\ selected = "register" /\ cmd # <<>> /\ Head(cmd).name \notin {"ON", "OFF"}
  /\ LET seg   == Head(cmd)
         level == Head(Levels(seg))
         known == seg.name \in DOMAIN Registry
     IN /\ cmd' = IF Len(seg.levels) <= 1 THEN Tail(cmd)
                  ELSE <<[seg EXCEPT !.levels = Tail(@)]>> \o Tail(cmd)
        /\ wanted' = IF ignore \/ ~known THEN wanted
                     ELSE wanted \cup {Kept(Entry(Registry[seg.name], level))}
        /\ IF known /\ InRange(Registry[seg.name], level.lev)
           THEN AddCodec(Entry(Registry[seg.name], level))
           ELSE /\ selected' = IF ignore THEN selected ELSE "exit"
                /\ UNCHANGED plug
  /\ UNCHANGED <<spec, ignore>>

SwitchIgnore ==
  /\ selected = "register" /\ cmd # <<>> /\ Head(cmd).name \in {"ON", "OFF"}
  /\ ignore' = (Head(cmd).name = "ON")
  /\ cmd' = Tail(cmd)
  /\ UNCHANGED <<spec, plug, wanted, selected>>

(* One codec at most when the data come from stdin. *)
EndPlugreg(stdin) ==
  /\ selected = "register" /\ cmd = <<>>
  /\ selected' = IF Len(plug) > 1 /\ stdin THEN "die" ELSE "ok"
  /\ UNCHANGED <<spec, cmd, ignore, plug, wanted>>

SelectNext(stdin) ==
  \/ ExpandSegment \/ StartPlugreg \/ RegisterLevel \/ SwitchIgnore
  \/ EndPlugreg(stdin)

-----------------------------------------------------------------------------
(* "Too many codecs specified" (src/turbobench.c:773): the table never outgrows
   its PLUGN places. *)
TableHasRoom == Len(plug) <= PLUGN

(* plugins: the table never holds the same codec, level and parameter twice,
   unless the parameter was longer than what is kept of it: the one given is
   compared with the ones that were cut. *)
TwiceOnlyWhenCut ==
  \A i, j \in DOMAIN plug :
    i < j /\ plug[i] = plug[j] => \E p \in Param : Cut[p] # p /\ Cut[p] = plug[i].prm
=============================================================================

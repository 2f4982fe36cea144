------------------------------ MODULE Startup ------------------------------
(***************************************************************************)
(* main (src/turbobench.c 2094-2256) up to the benchmark itself: the       *)
(* options are parsed, the codecs selected and, with -M, the files merged  *)
(* into one, after which the program ends.                                 *)
(***************************************************************************)
EXTENDS GetOpt, CodecSelect, MultiBlock

CONSTANTS Lines,               \* the command lines
          Specs,               \* argument of -e to segments
          Delimiter,           \* argument of -N to the byte of that number
          Operand,             \* operand to [path, node]
          Limit                \* argument of -B to a number of bytes; <<>>: the
                               \* default, which stands for 0 as well

ASSUME LinesAssumption == Lines \subseteq Seq(Seq(STRING))
ASSUME SpecsAssumption ==
  "unknown" \in Name /\ \A t \in DOMAIN Specs : Specs[t] \in Seq(Segment)
ASSUME DelimiterAssumption == \A t \in DOMAIN Delimiter : Delimiter[t] \in STRING
ASSUME OperandAssumption ==
  /\ {<<"stdin">>} \cup UNION {{line[i] : i \in DOMAIN line} : line \in Lines} \subseteq DOMAIN Operand
  /\ \A t \in DOMAIN Operand : Operand[t] \in [path : Path, node : DOMAIN Kind]
ASSUME LimitAssumption == <<>> \in DOMAIN Limit /\ \A t \in DOMAIN Limit : Limit[t] \in Nat

VARIABLES given,               \* the arguments as they were given
          handled,             \* how many answers of getopt_long main has seen
          opts,                \* what the options have set
          main                 \* "options", "select", "build", "bench", "usage",
                               \* "crash", "exit"

vars == <<given, optVars, selVars, buildVars, handled, opts, main>>

(* What is not a number counts as 0. *)
Bytes(arg) == Limit[IF arg \in DOMAIN Limit THEN arg ELSE <<>>]

(* No delimiter is one of number 0. *)
Delim(arg) == IF arg \in DOMAIN Delimiter THEN Delimiter[arg] ELSE "none"

Defaults == [scmd |-> <<"F", "A", "S", "T">>, beb |-> <<>>, recurse |-> 0, delim |-> "none",
             filenmax |-> Bytes(<<>>), rep |-> "many", merge |-> 0]

(* The switch of main.  -H goes on to -i and looks for a comma in the argument
   it has not got; so does -R.  -r has an argument and ignores it. *)
SetOption(opt, arg) ==
  CASE opt = "e" -> opts' = [opts EXCEPT !.scmd = arg] /\ UNCHANGED main
    [] opt = "M" -> opts' = [opts EXCEPT !.beb = arg] /\ UNCHANGED main
    [] opt = "N" -> opts' = [opts EXCEPT !.delim = Delim(arg)] /\ UNCHANGED main
    [] opt = "B" -> opts' = [opts EXCEPT !.filenmax = Bytes(arg)] /\ UNCHANGED main
    [] opt = "r" -> opts' = [opts EXCEPT !.recurse = @ + 1] /\ UNCHANGED main
    [] opt = "g" -> opts' = [opts EXCEPT !.merge = @ + 1] /\ UNCHANGED main
    [] opt \in {"H", "R"} -> main' = "crash" /\ UNCHANGED opts
    [] opt = "i" -> opts' = [opts EXCEPT !.rep = IF arg = <<"0">> THEN "one" ELSE @]
                    /\ UNCHANGED main
    [] OTHER     -> main' = "usage" /\ UNCHANGED opts         \* "h", BADCH

Init ==
  /\ given \in Lines
  /\ OptInit /\ SelectInit /\ BuildInit
  /\ argv = given /\ spec = <<>> /\ handled = 0 /\ opts = Defaults /\ main = "options"

Parse ==
  /\ main = "options" /\ handled = Len(answers)
  /\ getopt_long
  /\ UNCHANGED <<selVars, buildVars, handled, opts, main>>

HandleOption ==
  /\ main = "options" /\ handled < Len(answers)
  /\ handled' = handled + 1
  /\ SetOption(answers[handled + 1].opt, answers[handled + 1].arg)
  /\ UNCHANGED <<optVars, selVars, buildVars>>

(* Without operands the data come from stdin, and not recursively. *)
Stdin    == optind > Len(argv)
Operands == IF Stdin THEN <<Operand[<<"stdin">>]>>
            ELSE [i \in 1..Len(argv) + 1 - optind |-> Operand[argv[optind + i - 1]]]

StartSelect ==
  /\ main = "options" /\ parsed /\ handled = Len(answers)
  /\ main' = "select"
  /\ spec' = IF opts.scmd \in DOMAIN Specs THEN Specs[opts.scmd]
             ELSE <<[name |-> "unknown", levels |-> <<>>]>>
  /\ UNCHANGED <<optVars, cmd, ignore, plug, wanted, selected, buildVars, handled, opts>>

Select ==
  /\ main = "select"
  /\ IF selected = "ok"
     THEN /\ main' = IF opts.beb = <<>> THEN "bench" ELSE "build"
          /\ UNCHANGED selVars
     ELSE /\ SelectNext(Stdin)
          /\ main' = IF selected' \in {"exit", "die"} THEN "exit" ELSE main
  /\ UNCHANGED <<optVars, buildVars, handled, opts>>

StartBuild ==
  /\ main = "build"
  /\ bebuild(Operands, opts.recurse > 0 /\ ~Stdin)
  /\ UNCHANGED <<optVars, selVars, handled, opts, main>>

Build ==
  /\ main = "build"
  /\ BuildNext(opts.filenmax, opts.delim)
  /\ main' = IF build' \in {"built", "exit", "die"} THEN "exit"
             ELSE IF build' = "undefined" \/ walk' = "undefined" THEN "crash" ELSE main
  /\ UNCHANGED <<optVars, selVars, handled, opts>>

Next ==
  /\ Parse \/ HandleOption \/ StartSelect \/ Select \/ StartBuild \/ Build
  /\ UNCHANGED given

Spec == Init /\ [][Next]_vars /\ WF_vars(Next)

-----------------------------------------------------------------------------
TypeOK ==
  /\ argv \in Seq(Seq(STRING)) /\ Len(argv) = Len(given) /\ place \in Seq(STRING)
  /\ optind \in 1..Len(given) + 1
  /\ nonopt_start \in -1..Len(given) /\ nonopt_end \in -1..Len(given)
  /\ parsed \in BOOLEAN /\ handled \in 0..Len(answers)
  /\ selected \in {"expand", "register", "ok", "exit", "die"} /\ TableHasRoom
  /\ posset \in BOOLEAN /\ walk \in {"closed", "next", "entry", "end", "undefined"} /\ StackHolds
  /\ build \in {"off", "walk", "files", "built", "die", "exit", "undefined"}
  /\ main \in {"options", "select", "build", "bench", "usage", "crash", "exit"}

(* getopt.c, permute_args: whatever the order of options and operands, the
   options are answered in the order they were given, each with its argument,
   and at the end the operands, in their order, are what optind shows. *)
OptionsAsGiven ==
  /\ IsPrefix(answers, Meaning(given).answers)
  /\ parsed => /\ answers = Meaning(given).answers
               /\ SubSeq(argv, optind, Len(argv)) = Meaning(given).operands

(* plugreg: a benchmark runs everything that was asked for by name, and nothing
   at a level that is not at least the front of one of the codec's levels. *)
Offered(gs, lev) ==
  IF lev = INVLEV THEN gs.lev = <<>> ELSE \E k \in DOMAIN gs.lev : IsPrefix(lev, gs.lev[k])
WantedSelected ==
  main \in {"build", "bench"} =>
    /\ \A e \in wanted : \E i \in DOMAIN plug : plug[i] = e
    /\ \A i \in DOMAIN plug : \E n \in DOMAIN Registry :
         Registry[n].id = plug[i].id /\ Offered(Registry[n], plug[i].lev)

-----------------------------------------------------------------------------
(* The tree as it is, from which the walk and the merged file are judged.   *)

(* The nodes that names lead through from a node, and the last of them. *)
Route(node, names) ==
  LET at[k \in 0..Len(names)] ==
        IF k = 0 THEN node
        ELSE LET dir == at[k - 1]
             IN IF dir \in DOMAIN Sub /\ names[k] \in DOMAIN Sub[dir]
                THEN Sub[dir][names[k]] ELSE "nothing"
  IN at
Resolve(node, names) == Route(node, names)[Len(names)]

(* Of each node, the ways to a file of contents c through at most RDIR_DEPTH
   directories. *)
Total(f) == MapThenSumSet(LAMBDA x : f[x], DOMAIN f)
Holds(node, c) == Kind[node] = "reg" /\ node \notin Archive /\ Read(node) = c
WaysTo(c) ==
  LET ways[depth \in 0..RDIR_DEPTH] ==
        [node \in DOMAIN Kind |->
           IF node \notin DOMAIN Sub THEN IF Holds(node, c) THEN 1 ELSE 0
           ELSE IF depth = 0 THEN 0
           ELSE Total([n \in DOMAIN Sub[node] |-> ways[depth - 1][Sub[node][n]]])]
  IN ways

(* A merged file as it is read: behind each length its block. *)
Starts(file) ==
  LET at[k \in 0..Len(file)] ==
        IF k = 0 THEN 1
        ELSE LET i == at[k - 1]
             IN IF i \in DOMAIN file THEN i + 1 + file[i][2] ELSE 0
  IN at
BlockOf(file, k) == SubSeq(file, Starts(file)[k - 1] + 1, Starts(file)[k] - 1)

-----------------------------------------------------------------------------
(* rdirnext: the path that is kept and cut names the entry that is returned,
   however many directories were entered and left, from the root or not. *)
EntryIsNamed ==
  walk = "entry" =>
    \E i \in DOMAIN Operands :
      LET op == Operands[i]
          n  == Len(op.path.parts)
      IN /\ entry.path.root = op.path.root /\ IsPrefix(op.path.parts, entry.path.parts)
         /\ Resolve(op.node, SubSeq(entry.path.parts, n + 1, Len(entry.path.parts))) = entry.node

(* bebuild: what is written can be read back block by block, and is as long as
   was counted and never longer than the limit. *)
Blocks ==
  /\ Starts(fo)[st_fnum] = Len(fo) + 1
  /\ st_flen = Len(fo) + (LEN - 1) * st_fnum
  /\ opts.delim = "none" => st_flen <= opts.filenmax

(* With -r and no limit reached, contents that are not empty are in the file as
   often as there are ways to them from the operands. *)
Complete ==
  build = "built" /\ opts.recurse > 0 /\ ~Stdin /\ st_flen < opts.filenmax =>
    \A c \in {Read(n) : n \in DOMAIN Data} \ {<<>>} :
      LET ways == [i \in DOMAIN Operands |-> WaysTo(c)[RDIR_DEPTH][Operands[i].node]]
      IN Cardinality({k \in 1..st_fnum : BlockOf(fo, k) = c}) = Total(ways)

MergedFile == EntryIsNamed /\ Blocks /\ Complete
=============================================================================

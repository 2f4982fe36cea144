------------------------------- MODULE GetOpt -------------------------------
(***************************************************************************)
(* getopt_long of src/vs/getopt.c, as main calls it until it answers -1.   *)
(* Operands may stand between the options; they are skipped and moved      *)
(* behind them in argv, so that main finds all of them from optind on.     *)
(* An argument is the sequence of its characters.                          *)
(***************************************************************************)
EXTENDS Integers, Sequences

CONSTANTS Flags,               \* option letters without an argument
          WithArg,             \* option letters with one
          LongName             \* the only long option, an alias of "h"

VARIABLES argv,                \* the arguments after the program's name
          optind,              \* the one to be looked at next
          place,               \* what is left of a cluster of options
          nonopt_start, nonopt_end,   \* the operands skipped last, -1: none
          answers,             \* what the calls returned: [opt, arg]
          parsed               \* getopt_long has answered -1

optVars == <<argv, optind, place, nonopt_start, nonopt_end, answers, parsed>>

BADCH == "?"
NoArgument == <<>>

OptInit ==
  /\ optind = 1 /\ place = <<>>
  /\ nonopt_start = -1 /\ nonopt_end = -1
  /\ answers = <<>> /\ parsed = FALSE

(* Of the two numbers of p, which are positive. *)
Pairs == (Nat \ {0}) \X (Nat \ {0})
gcd[p \in Pairs] == IF p[1] % p[2] = 0 THEN p[2] ELSE gcd[<<p[2], p[1] % p[2]>>]

(* The block from start to end changes places with the one from end to
   opt_end: element by element along the cycles of that rotation. *)
permute_args(start, end, opt_end, nargv) ==
  LET nnonopts == end - start
      nopts    == opt_end - end
      ncycle   == gcd[<<nnonopts, nopts>>]
      cyclelen == (opt_end - start) \div ncycle
      Step(pos) == IF pos >= end THEN pos - nnonopts ELSE pos + nopts
      (* the state after n swaps: swap n belongs to cycle (n - 1) \div cyclelen *)
      swaps[n \in 0..ncycle * cyclelen] ==
        IF n = 0 THEN [pos |-> end, v |-> nargv]
        ELSE LET cstart == end + ((n - 1) \div cyclelen)
                 from   == IF (n - 1) % cyclelen = 0 THEN cstart ELSE swaps[n - 1].pos
                 v      == swaps[n - 1].v
             IN [pos |-> Step(from),
                 v   |-> [v EXCEPT ![Step(from)] = v[cstart], ![cstart] = v[Step(from)]]]
  IN swaps[ncycle * cyclelen].v

Answer(opt, arg) == answers' = Append(answers, [opt |-> opt, arg |-> arg])

(* Mutant: optind is not moved back with the operands. *)
PermuteForward ==
  IF nonopt_end # -1
  THEN /\ argv' = permute_args(nonopt_start, nonopt_end, optind, argv)
       /\ UNCHANGED optind
  ELSE UNCHANGED argv /\ optind' = IF nonopt_start # -1 THEN nonopt_start ELSE optind

(* The operands skipped last, when options came after them, go behind them. *)
Permute ==
  IF nonopt_end # -1
  THEN /\ argv' = permute_args(nonopt_start, nonopt_end, optind, argv)
       /\ optind' = optind - (nonopt_end - nonopt_start)
  ELSE UNCHANGED argv /\ optind' = IF nonopt_start # -1 THEN nonopt_start ELSE optind

Looking   == ~parsed /\ place = <<>> /\ optind <= Len(argv)
IsOperand(a) == a = <<>> \/ a[1] # "-" \/ a = <<"-">>

EndOfArguments ==
  /\ ~parsed /\ place = <<>> /\ optind > Len(argv)
  /\ Permute
  /\ nonopt_start' = -1 /\ nonopt_end' = -1
  /\ parsed' = TRUE
  /\ UNCHANGED <<place, answers>>

SkipOperand ==
  /\ Looking /\ IsOperand(argv[optind])
  /\ IF nonopt_start = -1
     THEN nonopt_start' = optind /\ UNCHANGED <<argv, nonopt_end>>
     ELSE IF nonopt_end # -1
     THEN /\ argv' = permute_args(nonopt_start, nonopt_end, optind, argv)
          /\ nonopt_start' = optind - (nonopt_end - nonopt_start)
          /\ nonopt_end' = -1
     ELSE UNCHANGED <<argv, nonopt_start, nonopt_end>>
  /\ optind' = optind + 1
  /\ UNCHANGED <<place, answers, parsed>>

(* From here on optind has passed the "--", which is moved as well. *)
DoubleDash ==
  /\ Looking /\ argv[optind] = <<"-", "-">>
  /\ LET end == IF nonopt_start # -1 /\ nonopt_end = -1 THEN optind ELSE nonopt_end
     IN IF end # -1
        THEN /\ argv' = permute_args(nonopt_start, end, optind + 1, argv)
             /\ optind' = optind + 1 - (end - nonopt_start)
        ELSE UNCHANGED argv /\ optind' = optind + 1
  /\ nonopt_start' = -1 /\ nonopt_end' = -1
  /\ parsed' = TRUE
  /\ UNCHANGED <<place, answers>>

(* The letters in hand: what is left of a cluster, or a new argument. *)
InHand == IF place # <<>> THEN place ELSE Tail(argv[optind])
HandsOptions ==
  /\ ~parsed
  /\ \/ place # <<>>
     \/ /\ Looking /\ ~IsOperand(argv[optind]) /\ argv[optind] # <<"-", "-">>
  /\ nonopt_end' = IF place = <<>> /\ nonopt_start # -1 /\ nonopt_end = -1
                   THEN optind ELSE nonopt_end
  /\ UNCHANGED <<argv, nonopt_start, parsed>>

(* parse_long_options: a prefix of the name will do, the empty one too. *)
IsLong(word) == Len(word) <= Len(LongName) /\ word = SubSeq(LongName, 1, Len(word))
LongOption ==
  /\ HandsOptions /\ InHand[1] = "-"
  /\ Answer(IF IsLong(Tail(InHand)) THEN "h" ELSE BADCH, NoArgument)
  /\ optind' = optind + 1 /\ place' = <<>>

ShortOption ==
  /\ HandsOptions /\ InHand[1] # "-"
  /\ LET c    == InHand[1]
         rest == Tail(InHand)
         next == IF rest = <<>> THEN optind + 1 ELSE optind
     IN IF c \notin WithArg
        THEN /\ Answer(IF c \in Flags THEN c ELSE BADCH, NoArgument)
             /\ place' = rest /\ optind' = next
        ELSE /\ place' = <<>>
             /\ IF rest # <<>>
                THEN Answer(c, rest) /\ optind' = optind + 1
                ELSE IF optind + 1 > Len(argv)
                THEN Answer(BADCH, NoArgument) /\ optind' = optind + 1
                ELSE Answer(c, argv[optind + 1]) /\ optind' = optind + 2

getopt_long == EndOfArguments \/ SkipOperand \/ DoubleDash \/ LongOption \/ ShortOption

-----------------------------------------------------------------------------
(* What the arguments say, read where they stand: nothing is moved.         *)

(* The letters of a cluster up to the first that ends it, each a flag. *)
Ending(word)  == {k \in 1..Len(word) : word[k] = "-" \/ word[k] \in WithArg}
FirstEnd(word) == CHOOSE k \in Ending(word) : \A l \in Ending(word) : k <= l
Plain(word, n) ==
  [k \in 1..n |-> [opt |-> IF word[k] \in Flags THEN word[k] ELSE BADCH, arg |-> NoArgument]]
(* An option whose argument is not in the cluster takes the next one. *)
TakesNext(word, next) ==
  /\ Ending(word) = {Len(word)} /\ word[Len(word)] # "-"
  /\ next # <<>>
Cluster(word, next) ==
  IF Ending(word) = {} THEN Plain(word, Len(word))
  ELSE LET k    == FirstEnd(word)
           rest == SubSeq(word, k + 1, Len(word))
           last == IF word[k] = "-"
                   THEN [opt |-> IF IsLong(rest) THEN "h" ELSE BADCH, arg |-> NoArgument]
                   ELSE IF rest # <<>> THEN [opt |-> word[k], arg |-> rest]
                   ELSE IF next # <<>> THEN [opt |-> word[k], arg |-> next[1]]
                   ELSE [opt |-> BADCH, arg |-> NoArgument]
       IN Append(Plain(word, k - 1), last)

(* What is answered and what is left as operands from each argument on. *)
MeaningFrom(args) ==
  LET n == Len(args)
      from[i \in 1..n + 1] ==
        IF i = n + 1 THEN [answers |-> <<>>, operands |-> <<>>]
        ELSE IF IsOperand(args[i])
        THEN [answers |-> from[i + 1].answers, operands |-> <<args[i]>> \o from[i + 1].operands]
        ELSE IF args[i] = <<"-", "-">>
        THEN [answers |-> <<>>, operands |-> SubSeq(args, i + 1, n)]
        ELSE LET word == Tail(args[i])
                 next == SubSeq(args, i + 1, n)
                 then == from[IF TakesNext(word, next) THEN i + 2 ELSE i + 1]
             IN [answers |-> Cluster(word, next) \o then.answers, operands |-> then.operands]
  IN from
Meaning(args) == MeaningFrom(args)[1]
=============================================================================

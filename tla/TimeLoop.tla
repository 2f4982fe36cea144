------------------------------ MODULE TimeLoop ------------------------------
(***************************************************************************)
(* The timing loops around encoder and decoder: TMBEG, TMENDC and TMEND    *)
(* (src/turbobench_/time_.h), the options -i and -t that drive them, and   *)
(* the two times plugfile takes from them (src/turbobench.c).              *)
(*                                                                         *)
(* A loop makes runs, a run makes calls.  The first run ends when it has   *)
(* lasted longer than tm_tx: the calls it made are the calls of every      *)
(* later run, and its duration sets how many runs fit in tm_TX.  The       *)
(* fastest run gives the time.  tm_rm and tm_min are globals that encoder  *)
(* and decoder use in turn.                                                *)
(*                                                                         *)
(* A time is a number of clock ticks.  The clock may tick between the last *)
(* call of a run and the reading that ends it.  sleep_cool only waits      *)
(* outside the measured intervals and is left out.                         *)
(***************************************************************************)
EXTENDS Integers, FiniteSets

CONSTANTS
  Opts,      \* command lines: [X, Y, tx, TX], -iX,Y with -t and -T
  RepCalls,  \* tm_rep: calls of a run that never gets too long (2^30)
  CallTime,  \* ticks one call of the codec may take
  NoGain,    \* 16
  Long,      \* 60 seconds
  Inf        \* DBL_MAX

ASSUME OptsAssumption == Opts \subseteq [X : Int, Y : Int, tx : Nat, TX : Nat]
ASSUME LoopAssumption ==
  /\ RepCalls \in Nat \ {0} /\ CallTime \subseteq Nat
  /\ NoGain \in Nat \ {0} /\ Long \in Nat /\ Inf \notin Int

VARIABLES
  opt, dir,  \* the command line; "enc" or "dec"
  pc,        \* "begin", "head", "calls", "end", "done"
  rep,       \* tm_rep
  rm, min,   \* tm_rm, tm_min
  R, Rn, i,  \* _tm_R, _tm_Rn, _tm_i
  r, t,      \* _tm_r, the ticks since the run began
  time,      \* per direction: what plugfile divides, [min, rm]
  log,       \* history: the complete runs of this direction, [calls, d]
  ran, cal,  \* history: their number; the ticks that set Rn (0: none did)
  idle,      \* history: runs since the fastest
  why        \* history: what ended the loop

vars == <<opt, dir, pc, rep, rm, min, R, Rn, i, r, t, time, log, ran, cal, idle, why>>

-----------------------------------------------------------------------------
(* The options.                                                            *)

\* Mistake: a negative number is taken as it is.
AtLeastOneButZero(n) == IF n = 0 THEN 1 ELSE n

\* -iX,Y: X goes to tm_Rep, Y to tm_Rep2; a value <= 0 gives one run of one call,
\* and one call for the other direction too
AtLeastOne(n) == IF n <= 0 THEN 1 ELSE n
Reps(o) == [enc |-> AtLeastOne(o.X), dec |-> AtLeastOne(o.Y)]
CallsOfRun(o) == IF o.X <= 0 \/ o.Y <= 0 THEN 1 ELSE RepCalls

-----------------------------------------------------------------------------
(* The loop.                                                               *)

Smaller(a, b) == IF a < b THEN a ELSE b
Faster(d) == min = Inf \/ d < min

\* Mistake: one run too many.
RunsOneMore(d, o) == o.TX \div d + 1

\* the runs that fit in tm_TX if each takes d
Runs(d, o) == o.TX \div d

Init ==
  /\ opt \in Opts /\ dir = "enc" /\ pc = "begin"
  /\ rep = CallsOfRun(opt)
  /\ rm = 1 /\ min = Inf /\ R = 0 /\ Rn = 0 /\ i = 0 /\ r = 0 /\ t = 0
  /\ time = [x \in {} |-> 0]
  /\ log = {} /\ ran = 0 /\ cal = 0 /\ idle = 0 /\ why = "none"

\* TMBEG
Begin ==
  /\ pc = "begin"
  /\ rm' = rep /\ min' = Inf /\ R' = 0 /\ Rn' = Reps(opt)[dir] /\ i' = 0
  /\ pc' = "head"
  /\ log' = {} /\ ran' = 0 /\ cal' = 0 /\ idle' = 0 /\ why' = "none"
  /\ UNCHANGED <<opt, dir, rep, r, t, time>>

\* the next run: tminit waits for the clock to tick
RunBegin ==
  /\ pc = "head" /\ R < Rn
  /\ r' = 0 /\ t' = 0
  /\ pc' = "calls"
  /\ UNCHANGED <<opt, dir, rep, rm, min, R, Rn, i, time, log, ran, cal, idle, why>>

RunsOver ==
  /\ pc = "head" /\ R >= Rn
  /\ pc' = "end" /\ why' = "runs"
  /\ UNCHANGED <<opt, dir, rep, rm, min, R, Rn, i, r, t, time, log, ran, cal, idle>>

\* Mistake: every run sets the calls anew.
CallAlways(c) ==
  /\ pc = "calls" /\ r < rm
  /\ r' = r + 1 /\ t' = t + c
  /\ IF t + c > opt.tx
     THEN rm' = r + 1 /\ Rn' = Smaller(Runs(t + c, opt), Reps(opt)[dir]) /\ cal' = t + c
     ELSE UNCHANGED <<rm, Rn, cal>>
  /\ UNCHANGED <<opt, dir, pc, rep, min, R, i, time, log, ran, idle, why>>

\* One call of the codec over the whole input.  In the first run the clock is read
\* after every call.
Call(c) ==
  /\ pc = "calls" /\ r < rm
  /\ r' = r + 1 /\ t' = t + c
  /\ IF min = Inf /\ t + c > opt.tx
     THEN rm' = r + 1 /\ Rn' = Smaller(Runs(t + c, opt), Reps(opt)[dir]) /\ cal' = t + c
     ELSE UNCHANGED <<rm, Rn, cal>>
  /\ UNCHANGED <<opt, dir, pc, rep, min, R, i, time, log, ran, idle, why>>

\* The codec fails to compress: goto end leaves the loop in the middle of the run.
CallFails ==
  /\ pc = "calls" /\ r < rm /\ dir = "enc"
  /\ pc' = "end" /\ why' = "fail"
  /\ UNCHANGED <<opt, dir, rep, rm, min, R, Rn, i, r, t, time, log, ran, cal, idle>>

\* Mistake: a faster run does not start the count of runs without gain anew.
RunEndKeepsCount(c) ==
  /\ pc = "calls" /\ r >= rm
  /\ LET d == t + c IN
     /\ min' = IF Faster(d) THEN d ELSE min
     /\ i' = i + 1
     /\ idle' = IF Faster(d) THEN 0 ELSE idle + 1
     /\ IF i + 1 >= NoGain \/ d >= Long
        THEN pc' = "end" /\ why' = (IF d >= Long THEN "long" ELSE "nogain") /\ R' = R
        ELSE pc' = "head" /\ R' = R + 1 /\ why' = why
     /\ log' = log \cup {[calls |-> r, d |-> d]}
  /\ ran' = ran + 1
  /\ UNCHANGED <<opt, dir, rep, rm, Rn, r, t, time, cal>>

\* Mistake: a run that was not faster is made again and not counted.
RunEndRetries(c) ==
  /\ pc = "calls" /\ r >= rm
  /\ IF Faster(t + c)
     THEN /\ min' = t + c /\ R' = R + 1 /\ ran' = ran + 1 /\ idle' = 0
          /\ log' = log \cup {[calls |-> r, d |-> t + c]}
     ELSE UNCHANGED <<min, R, ran, idle, log>>
  /\ pc' = "head"
  /\ UNCHANGED <<opt, dir, rep, rm, Rn, i, r, t, time, cal, why>>

\* The end of a run: the minimum, and whether to go on.
RunEnd(c) ==
  /\ pc = "calls" /\ r >= rm
  /\ LET d == t + c
         since == IF Faster(d) THEN 0 ELSE i IN
     /\ min' = IF Faster(d) THEN d ELSE min
     /\ i' = since + 1
     /\ idle' = IF Faster(d) THEN 0 ELSE idle + 1
     /\ IF since + 1 >= NoGain \/ d >= Long
        THEN pc' = "end" /\ why' = (IF d >= Long THEN "long" ELSE "nogain") /\ R' = R
        ELSE pc' = "head" /\ R' = R + 1 /\ why' = why
     /\ log' = log \cup {[calls |-> r, d |-> d]}
  /\ ran' = ran + 1
  /\ UNCHANGED <<opt, dir, rep, rm, Rn, r, t, time, cal>>

\* tc = tm_tmin after the encoder, td = tm_tmin after the decoder
Take ==
  /\ pc = "end"
  /\ time' = [x \in DOMAIN time \cup {dir} |-> IF x = dir THEN [min |-> min, rm |-> rm] ELSE time[x]]
  /\ pc' = IF dir = "enc" THEN "begin" ELSE "done"
  /\ dir' = "dec"
  /\ UNCHANGED <<opt, rep, rm, min, R, Rn, i, r, t, log, ran, cal, idle, why>>

Next ==
  \/ Begin \/ RunBegin \/ RunsOver \/ CallFails \/ Take
  \/ \E c \in CallTime : Call(c)
  \/ \E c \in {0, 1} : RunEnd(c)

Spec == Init /\ [][Next]_vars

\* The program is one thread: it takes its next step.
FairSpec == Spec /\ WF_vars(Next)

-----------------------------------------------------------------------------
(* Properties.                                                             *)

Times == [min : Nat \cup {Inf}, rm : Nat \ {0}]

\* The variables have their types.
TypeOK ==
  /\ opt \in Opts /\ dir \in {"enc", "dec"}
  /\ pc \in {"begin", "head", "calls", "end", "done"}
  /\ rep \in Nat \ {0} /\ rm \in Nat \ {0} /\ min \in Nat \cup {Inf}
  /\ R \in Nat /\ Rn \in Nat /\ i \in Nat /\ r \in Nat /\ t \in Nat
  /\ DOMAIN time \subseteq {"enc", "dec"} /\ time \in [DOMAIN time -> Times]
  /\ log \subseteq [calls : Nat, d : Nat] /\ ran \in Nat /\ cal \in Nat /\ idle \in Nat
  /\ why \in {"none", "runs", "fail", "nogain", "long"}

\* tm_min / tm_rm is the mean call of one whole run, the fastest: every complete
\* run made the same number of calls, the one the time is divided by, although the
\* first run changed that number while it was going on.
MeanOfFastest ==
  pc # "begin" /\ log # {} =>
    /\ [calls |-> rm, d |-> min] \in log
    /\ \A x \in log : x.calls = rm /\ x.d >= min

\* "recalculate number of runs based on tm_TX" (src/turbobench_/time_.h:242): more
\* than one run is made only if all of them fit in tm_TX at the pace of the first.
RunsFit == cal > 0 /\ ran > 1 => ran * cal <= opt.TX

\* "break the loop, if there is no improvement after 16 runs"
\* (src/turbobench_/time_.h:244): the loop gives up early only when as many runs in
\* a row, the fastest and those after it, brought nothing, or after a run of a minute.
EarlyStop == pc = "end" /\ why = "nogain" => idle = NoGain - 1

\* Both directions come to an end.
Terminates == <>(pc = "done")
=============================================================================

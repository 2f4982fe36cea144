--------------------------- MODULE TimeLoopProofs ---------------------------
(***************************************************************************)
(* For all options, clocks and numbers of runs: the types of TimeLoop, and *)
(* that the time taken is the mean of the fastest whole run.               *)
(***************************************************************************)
EXTENDS TimeLoop, TLAPS

-----------------------------------------------------------------------------
(* Types.                                                                  *)

\* -i gives both directions at least one run.
LEMMA RepsPositive == ASSUME NEW o \in Opts, NEW x \in {"enc", "dec"} PROVE Reps(o)[x] \in Nat \ {0}
BY OptsAssumption DEF Reps, AtLeastOne

\* Runs and the smaller of two numbers are numbers.
LEMMA RunsNat == ASSUME NEW d \in Nat \ {0}, NEW o \in Opts PROVE Runs(d, o) \in Nat
BY OptsAssumption DEF Runs

LEMMA SmallerNat == ASSUME NEW a \in Nat, NEW b \in Nat PROVE Smaller(a, b) \in {a, b}
BY DEF Smaller

\* The loop starts with its types right.
LEMMA TypeInit == Init => TypeOK
<1> SUFFICES ASSUME Init PROVE TypeOK
  OBVIOUS
<1>1. rep \in Nat \ {0}
  BY LoopAssumption DEF Init, CallsOfRun
<1>2. DOMAIN time = {} /\ time \in [DOMAIN time -> Times]
  BY DEF Init
<1> QED
  BY <1>1, <1>2 DEF Init, TypeOK

\* Every step keeps the types.
LEMMA TypeNext == TypeOK /\ [Next]_vars => TypeOK'
<1> SUFFICES ASSUME TypeOK, [Next]_vars PROVE TypeOK'
  OBVIOUS
<1> USE DEF TypeOK
<1>1. CASE Begin
  <2>1. Reps(opt)[dir] \in Nat
    BY RepsPositive
  <2> QED
    BY <1>1, <2>1 DEF Begin
<1>2. CASE RunBegin
  BY <1>2 DEF RunBegin
<1>3. CASE RunsOver
  BY <1>3 DEF RunsOver
<1>4. CASE CallFails
  BY <1>4 DEF CallFails
<1>5. ASSUME NEW c \in CallTime, Call(c) PROVE TypeOK'
  <2>1. c \in Nat /\ t + c \in Nat /\ opt.tx \in Nat
    BY LoopAssumption, OptsAssumption
  <2>2. rm' \in Nat \ {0} /\ Rn' \in Nat /\ cal' \in Nat
    <3>1. CASE min = Inf /\ t + c > opt.tx
      <4>1. t + c \in Nat \ {0}
        BY <2>1, <3>1
      <4>2. Runs(t + c, opt) \in Nat /\ Reps(opt)[dir] \in Nat
        BY <4>1, RunsNat, RepsPositive
      <4>3. Smaller(Runs(t + c, opt), Reps(opt)[dir]) \in Nat
        BY <4>2, SmallerNat
      <4> QED
        BY <1>5, <2>1, <3>1, <4>3 DEF Call
    <3>2. CASE ~(min = Inf /\ t + c > opt.tx)
      BY <1>5, <3>2 DEF Call
    <3> QED
      BY <3>1, <3>2
  <2> QED
    BY <1>5, <2>1, <2>2 DEF Call
<1>6. ASSUME NEW c \in {0, 1}, RunEnd(c) PROVE TypeOK'
  <2>1. t + c \in Nat
    OBVIOUS
  <2>2. [calls |-> r, d |-> t + c] \in [calls : Nat, d : Nat]
    BY <2>1
  <2> QED
    BY <1>6, <2>1, <2>2 DEF RunEnd
<1>7. CASE Take
  <2>1. [min |-> min, rm |-> rm] \in Times
    BY DEF Times
  <2>2. DOMAIN time' = DOMAIN time \cup {dir}
    BY <1>7 DEF Take
  <2>3. time' \in [DOMAIN time' -> Times]
    BY <1>7, <2>1, <2>2 DEF Take
  <2> QED
    BY <1>7, <2>2, <2>3 DEF Take
<1>8. CASE UNCHANGED vars
  BY <1>8 DEF vars
<1> QED
  BY <1>1, <1>2, <1>3, <1>4, <1>5, <1>6, <1>7, <1>8 DEF Next

\* The loop variables keep their types for every command line, codec and clock.
THEOREM TypeCorrect == Spec => []TypeOK
<1> QED
  BY TypeInit, TypeNext, PTL DEF Spec

-----------------------------------------------------------------------------
(* The mean of the fastest run.                                            *)

\* While no run is complete tm_min is DBL_MAX and tm_rm may change; then every
\* complete run made tm_rm calls, and a run in progress has made at most as many.
MeanInv ==
  pc # "begin" =>
    /\ min = Inf <=> log = {}
    /\ pc = "calls" => r <= rm
    /\ log # {} => /\ [calls |-> rm, d |-> min] \in log
                   /\ \A x \in log : x.calls = rm /\ x.d >= min

\* Every step keeps it.
LEMMA MeanNext == TypeOK /\ MeanInv /\ [Next]_vars => MeanInv'
<1> SUFFICES ASSUME TypeOK, MeanInv, [Next]_vars PROVE MeanInv'
  OBVIOUS
<1> USE DEF MeanInv
<1>1. CASE Begin
  BY <1>1 DEF Begin
<1>2. CASE RunBegin
  BY <1>2 DEF RunBegin, TypeOK
<1>3. CASE RunsOver
  BY <1>3 DEF RunsOver
<1>4. CASE CallFails
  BY <1>4 DEF CallFails
<1>5. ASSUME NEW c \in CallTime, Call(c) PROVE MeanInv'
  <2>1. CASE min = Inf /\ t + c > opt.tx
    <3>1. log = {} /\ rm' = r + 1 /\ r' = r + 1 /\ r \in Nat /\ UNCHANGED <<min, log>>
      BY <1>5, <2>1 DEF Call, TypeOK
    <3> QED
      BY <3>1, <2>1
  <2>2. CASE ~(min = Inf /\ t + c > opt.tx)
    <3>1. pc = "calls" /\ r < rm /\ r' = r + 1 /\ UNCHANGED <<pc, rm, min, log>>
      BY <1>5, <2>2 DEF Call
    <3>2. r' <= rm'
      BY <3>1 DEF TypeOK
    <3> QED
      BY <3>1, <3>2
  <2> QED
    BY <2>1, <2>2
<1>6. ASSUME NEW c \in {0, 1}, RunEnd(c) PROVE MeanInv'
  <2> DEFINE d == t + c
             run == [calls |-> r, d |-> d]
  <2>1. d \in Nat /\ r = rm /\ pc = "calls" /\ rm' = rm /\ r' = r
    BY <1>6 DEF RunEnd, TypeOK
  <2>2. log' = log \cup {run} /\ min' = (IF Faster(d) THEN d ELSE min) /\ pc' \in {"head", "end"}
    BY <1>6 DEF RunEnd
  <2>3. Inf \notin Nat
    BY LoopAssumption
  <2>4. min' # Inf /\ log' # {}
    BY <2>1, <2>2, <2>3 DEF Faster
  <2>5. [calls |-> rm, d |-> min'] \in log'
    <3>1. CASE Faster(d)
      BY <2>1, <2>2, <3>1
    <3>2. CASE ~Faster(d)
      <4>1. min # Inf /\ log # {} /\ [calls |-> rm, d |-> min] \in log
        BY <2>1, <3>2 DEF Faster
      <4> QED
        BY <2>2, <3>2, <4>1
    <3> QED
      BY <3>1, <3>2
  <2>6. ASSUME NEW x \in log' PROVE x.calls = rm /\ x.d >= min'
    <3>1. CASE x = run
      <4>1. x.calls = rm /\ x.d = d
        BY <2>1, <3>1
      <4>2. d >= min'
        BY <2>1, <2>2 DEF Faster, TypeOK
      <4> QED
        BY <4>1, <4>2
    <3>2. CASE x \in log
      <4>1. x.calls = rm /\ x.d >= min /\ min # Inf /\ x.d \in Nat
        BY <2>1, <3>2 DEF TypeOK
      <4>2. min \in Nat
        BY <4>1 DEF TypeOK
      <4> QED
        BY <2>1, <2>2, <4>1, <4>2 DEF Faster
    <3> QED
      BY <2>2, <3>1, <3>2
  <2> QED
    BY <2>1, <2>2, <2>4, <2>5, <2>6
<1>7. CASE Take
  BY <1>7 DEF Take
<1>8. CASE UNCHANGED vars
  BY <1>8 DEF vars
<1> QED
  BY <1>1, <1>2, <1>3, <1>4, <1>5, <1>6, <1>7, <1>8 DEF Next

\* Whatever the codec's calls take, tm_min / tm_rm is the mean call of one whole
\* run, and no run was faster.
THEOREM MeanOfFastestCorrect == Spec => []MeanOfFastest
<1>1. Init => MeanInv
  BY DEF Init, MeanInv
<1>2. MeanInv => MeanOfFastest
  BY DEF MeanInv, MeanOfFastest
<1> QED
  BY <1>1, <1>2, TypeInit, TypeNext, MeanNext, PTL DEF Spec

-----------------------------------------------------------------------------
(* The runs fit in tm_TX.                                                  *)

\* What a quotient means.
LEMMA QuotientFits ==
  ASSUME NEW a \in Nat, NEW c \in Nat \ {0}, NEW n \in Nat, n <= a \div c
  PROVE  n * c <= a
<1> DEFINE q == a \div c
<1>1. q \in Nat /\ q * c <= a
  OBVIOUS
<1>2. \A p \in Nat : n <= p => n * c <= p * c
  OBVIOUS
<1>3. n * c \in Nat /\ q * c \in Nat
  BY <1>1
<1> HIDE DEF q
<1> QED
  BY <1>1, <1>2, <1>3 DEF q

\* _tm_R counts the complete runs, and but for the first run there are no more of
\* them than _tm_Rn, which was set while none was complete.
FitInv ==
  /\ cal > 0 => Rn <= opt.TX \div cal
  /\ ran <= 1 \/ ran <= Rn
  /\ pc # "begin" => (ran = 0 <=> log = {})
  /\ pc \in {"head", "calls"} => ran = R
  /\ pc = "calls" => R = 0 \/ R < Rn

\* Every step keeps it.
LEMMA FitNext == TypeOK /\ MeanInv /\ FitInv /\ [Next]_vars => FitInv'
<1> SUFFICES ASSUME TypeOK, MeanInv, FitInv, [Next]_vars PROVE FitInv'
  OBVIOUS
<1> USE DEF FitInv
<1>1. CASE Begin
  BY <1>1 DEF Begin
<1>2. CASE RunBegin
  BY <1>2 DEF RunBegin
<1>3. CASE RunsOver
  BY <1>3 DEF RunsOver
<1>4. CASE CallFails
  BY <1>4 DEF CallFails
<1>5. ASSUME NEW c \in CallTime, Call(c) PROVE FitInv'
  <2>1. UNCHANGED <<pc, ran, log, R, opt>> /\ pc = "calls" /\ ran = R
    BY <1>5 DEF Call
  <2>2. CASE min = Inf /\ t + c > opt.tx
    <3>1. ran = 0
      BY <2>1, <2>2 DEF MeanInv
    <3> DEFINE d == t + c
    <3>2. d \in Nat /\ d > 0 /\ opt \in Opts /\ dir \in {"enc", "dec"}
      BY <2>2, LoopAssumption, OptsAssumption DEF TypeOK
    <3>3. cal' = d /\ Rn' = Smaller(Runs(d, opt), Reps(opt)[dir])
      BY <1>5, <2>2 DEF Call
    <3>4. Runs(d, opt) \in Nat /\ Reps(opt)[dir] \in Nat
      BY <3>2, RunsNat, RepsPositive
    <3>5. Rn' <= Runs(d, opt)
      BY <3>3, <3>4 DEF Smaller
    <3>6. Runs(d, opt) = opt.TX \div d
      BY DEF Runs
    <3> QED
      BY <2>1, <3>1, <3>3, <3>5, <3>6
  <2>3. CASE ~(min = Inf /\ t + c > opt.tx)
    BY <1>5, <2>1, <2>3 DEF Call
  <2> QED
    BY <2>2, <2>3
<1>6. ASSUME NEW c \in {0, 1}, RunEnd(c) PROVE FitInv'
  <2> DEFINE run == [calls |-> r, d |-> t + c]
  <2>1. ran' = ran + 1 /\ log' = log \cup {run} /\ UNCHANGED <<Rn, cal, opt>> /\ pc = "calls"
    BY <1>6 DEF RunEnd
  <2>4. ran = R /\ (R = 0 \/ R < Rn)
    BY <2>1
  <2>5. log' # {}
    <3> HIDE DEF run
    <3> QED
      BY <2>1
  <2>2. pc' = "end" \/ (pc' = "head" /\ R' = R + 1)
    BY <1>6 DEF RunEnd
  <2>3. ran \in Nat /\ R \in Nat /\ Rn \in Nat
    BY DEF TypeOK
  <2> QED
    BY <2>1, <2>2, <2>3, <2>4, <2>5
<1>7. CASE Take
  BY <1>7 DEF Take
<1>8. CASE UNCHANGED vars
  BY <1>8 DEF vars
<1> QED
  BY <1>1, <1>2, <1>3, <1>4, <1>5, <1>6, <1>7, <1>8 DEF Next

\* More than one run is made only if all of them fit in tm_TX at the pace of the first.
THEOREM RunsFitCorrect == Spec => []RunsFit
<1>1. Init => MeanInv /\ FitInv
  BY DEF Init, MeanInv, FitInv
<1>2. TypeOK /\ FitInv => RunsFit
  <2> SUFFICES ASSUME TypeOK, FitInv, cal > 0, ran > 1 PROVE ran * cal <= opt.TX
    BY DEF RunsFit
  <2>1. opt.TX \in Nat /\ cal \in Nat \ {0} /\ ran \in Nat /\ Rn \in Nat
    BY OptsAssumption DEF TypeOK
  <2>2. ran <= opt.TX \div cal
    BY <2>1 DEF FitInv
  <2> QED
    BY <2>1, <2>2, QuotientFits
<1> QED
  BY <1>1, <1>2, TypeInit, TypeNext, MeanNext, FitNext, PTL DEF Spec

-----------------------------------------------------------------------------
(* Giving up early.                                                        *)

\* _tm_i is one more than the runs since the fastest, and the loop goes on only
\* while it is below NoGain.
IdleInv ==
  pc # "begin" =>
    /\ min = Inf => i = 0
    /\ min # Inf => i = idle + 1
    /\ pc \in {"head", "calls"} => i < NoGain
    /\ pc = "end" /\ why = "nogain" => min # Inf /\ i = NoGain

\* Every step keeps it.
LEMMA IdleNext == TypeOK /\ IdleInv /\ [Next]_vars => IdleInv'
<1> SUFFICES ASSUME TypeOK, IdleInv, [Next]_vars PROVE IdleInv'
  OBVIOUS
<1> USE DEF IdleInv
<1>1. CASE Begin
  BY <1>1, LoopAssumption DEF Begin
<1>2. CASE RunBegin
  BY <1>2 DEF RunBegin
<1>3. CASE RunsOver
  BY <1>3 DEF RunsOver
<1>4. CASE CallFails
  BY <1>4 DEF CallFails
<1>5. ASSUME NEW c \in CallTime, Call(c) PROVE IdleInv'
  BY <1>5 DEF Call
<1>6. ASSUME NEW c \in {0, 1}, RunEnd(c) PROVE IdleInv'
  <2> DEFINE d == t + c
             since == IF Faster(d) THEN 0 ELSE i
  <2>1. pc = "calls" /\ min' = (IF Faster(d) THEN d ELSE min) /\ i' = since + 1
        /\ idle' = IF Faster(d) THEN 0 ELSE idle + 1
    BY <1>6 DEF RunEnd
  <2>2. min' # Inf
    BY <2>1, LoopAssumption DEF Faster, TypeOK
  <2>3. since \in Nat /\ since < NoGain /\ i' = idle' + 1
    BY <2>1, LoopAssumption DEF Faster, TypeOK
  <2>4. pc' = "head" => since + 1 < NoGain
    BY <1>6, <2>3, LoopAssumption DEF RunEnd
  <2>5. pc' = "end" /\ why' = "nogain" => since + 1 >= NoGain
    BY <1>6 DEF RunEnd
  <2>6. pc' \in {"head", "end"}
    BY <1>6 DEF RunEnd
  <2>7. i' \in Nat /\ NoGain \in Nat
    BY <2>1, <2>3, LoopAssumption
  <2> HIDE DEF since, d
  <2> QED
    BY <2>1, <2>2, <2>3, <2>4, <2>5, <2>6, <2>7
<1>7. CASE Take
  BY <1>7 DEF Take
<1>8. CASE UNCHANGED vars
  BY <1>8 DEF vars
<1> QED
  BY <1>1, <1>2, <1>3, <1>4, <1>5, <1>6, <1>7, <1>8 DEF Next

\* The loop gives up early only after NoGain runs in a row, the fastest and those
\* after it, whatever the clock says; or after one long run.
THEOREM EarlyStopCorrect == Spec => []EarlyStop
<1>1. Init => IdleInv
  BY DEF Init, IdleInv
<1>2. TypeOK /\ IdleInv => EarlyStop
  BY LoopAssumption DEF IdleInv, EarlyStop, TypeOK
<1> QED
  BY <1>1, <1>2, TypeInit, TypeNext, IdleNext, PTL DEF Spec
=============================================================================

-------------------------- MODULE BenchSuite_proofs --------------------------
(***************************************************************************)
(* Machine-checked proofs about the sweep of bench_main, for any width of  *)
(* unsigned and any options whose warmup + reps does not wrap around.      *)
(***************************************************************************)
EXTENDS BenchSuite, TLAPS

\* warmup + reps is a number of repetitions: the case run_suite is meant for.
NoWrap == 2^W \in Nat \ {0} /\ \A a, b \in Counts : a + b < 2^W

\* What the loop over the repetitions has measured so far, and what follows
\* for the summaries.
SuiteInv ==
  /\ opt.warmup \in Counts /\ opt.reps \in Counts
  /\ rep \in Nat /\ throughputs \in Nat
  /\ pc \in {"sweep", "reps"} => opt.reps # 0
  /\ pc = "reps" =>
       /\ rep <= opt.warmup + opt.reps
       /\ throughputs = IF rep <= opt.warmup THEN 0 ELSE rep - opt.warmup
  /\ sums \in Seq(Range(sums))
  /\ NearestRank

\* unsigned keeps a number of its range.
LEMMA Fits ==
  ASSUME NoWrap, NEW x \in Nat, x < 2^W
  PROVE  unsigned(x) = x
<1>1. x \in 0 .. 2^W - 1
  BY DEF NoWrap
<1> QED BY <1>1 DEF unsigned, NoWrap

\* The options the repetitions depend on.
LEMMA OptionsFit ==
  ASSUME NoWrap, SuiteInv
  PROVE  /\ opt.warmup \in Nat /\ opt.reps \in Nat /\ 2^W \in Nat
         /\ opt.warmup + opt.reps \in Nat /\ opt.warmup + opt.reps < 2^W
<1>1. 2^W \in Nat \ {0}
  BY DEF NoWrap
<1>2. Counts \subseteq Nat
  BY <1>1, SuiteAssumption
<1>3. \A a, b \in Counts : a + b < 2^W
  BY DEF NoWrap
<1>4. opt.warmup \in Counts /\ opt.reps \in Counts
  BY DEF SuiteInv
<1>5. opt.warmup \in Nat /\ opt.reps \in Nat
  BY <1>2, <1>4
<1>6. opt.warmup + opt.reps < 2^W
  BY <1>3, <1>4
<1> QED BY <1>1, <1>5, <1>6

\* The places summarize takes its quartiles and its median from.
LEMMA Places ==
  ASSUME NEW m \in Nat \ {0}
  PROVE  /\ 0 <= at(1, 4, m) /\ at(1, 4, m) <= at(1, 2, m)
         /\ at(1, 2, m) <= at(3, 4, m) /\ at(3, 4, m) < m
         /\ 2 * at(1, 2, m) - (m - 1) \in -1 .. 1
         /\ 4 * at(1, 4, m) - (m - 1) \in -2 .. 2
         /\ 4 * at(3, 4, m) - 3 * (m - 1) \in -2 .. 2
BY DEF at

\* What a sequence holds after one more element.
LEMMA AppendRange ==
  ASSUME NEW s, s \in Seq(Range(s)), NEW e
  PROVE  /\ Range(Append(s, e)) = Range(s) \cup {e}
         /\ Append(s, e) \in Seq(Range(Append(s, e)))
<1>1. /\ DOMAIN s = 1 .. Len(s) /\ Len(s) \in Nat
      /\ Append(s, e) \in Seq(Range(s) \cup {e})
  OBVIOUS
<1>2. /\ DOMAIN Append(s, e) = 1 .. Len(s) + 1
      /\ \A i \in 1 .. Len(s) : Append(s, e)[i] = s[i]
      /\ Append(s, e)[Len(s) + 1] = e
  BY <1>1
<1>3. /\ 1 .. Len(s) + 1 = (1 .. Len(s)) \cup {Len(s) + 1}
  BY <1>1
<1>4. ASSUME NEW x PROVE x \in Range(Append(s, e)) <=> x \in Range(s) \cup {e}
  BY <1>1, <1>2, <1>3 DEF Range
<1>5. Range(Append(s, e)) = Range(s) \cup {e}
  BY <1>4
<1> QED BY <1>1, <1>5

\* One repetition.
LEMMA RepeatInv ==
  ASSUME NoWrap, SuiteInv, Repeat
  PROVE  SuiteInv'
<1>1. /\ opt.warmup \in Nat /\ opt.reps \in Nat
      /\ opt.warmup + opt.reps \in Nat /\ opt.warmup + opt.reps < 2^W
      /\ 2^W \in Nat
  BY OptionsFit
<1>2. RepEnd = opt.warmup + opt.reps
  BY <1>1, Fits DEF RepEnd
<1>3. rep \in Nat /\ rep + 1 \in Nat /\ rep < opt.warmup + opt.reps
  BY <1>1, <1>2 DEF Repeat, SuiteInv
<1>4. rep' = rep + 1
  BY <1>1, <1>3, Fits DEF Repeat
<1>5. throughputs' = IF rep < opt.warmup THEN throughputs ELSE throughputs + 1
  BY DEF Repeat, Warming
<1>6. opt' = opt /\ pc' = pc /\ sums' = sums /\ pc = "reps"
  BY DEF Repeat
<1>7. rep' <= opt.warmup + opt.reps
  BY <1>1, <1>3, <1>4
<1>8. throughputs' = IF rep' <= opt.warmup THEN 0 ELSE rep' - opt.warmup
  BY <1>1, <1>3, <1>4, <1>5, <1>6 DEF SuiteInv
<1> QED BY <1>1, <1>3, <1>4, <1>6, <1>7, <1>8 DEF SuiteInv, NearestRank

\* The end of a thread count: at least one repetition was measured.
LEMMA SummarizeInv ==
  ASSUME NoWrap, SuiteInv, Summarize
  PROVE  SuiteInv'
<1>1. /\ opt.warmup \in Nat /\ opt.reps \in Nat
      /\ opt.warmup + opt.reps \in Nat /\ opt.warmup + opt.reps < 2^W
      /\ 2^W \in Nat
  BY OptionsFit
<1>2. RepEnd = opt.warmup + opt.reps
  BY <1>1, Fits DEF RepEnd
<1>3. throughputs \in Nat \ {0}
  BY <1>1, <1>2 DEF Summarize, SuiteInv
<1> DEFINE e == [threads |-> Head(next), n |-> throughputs,
                 median |-> at(1, 2, throughputs),
                 q1 |-> at(1, 4, throughputs), q3 |-> at(3, 4, throughputs)]
<1>4. sums' = Append(sums, e) /\ sums \in Seq(Range(sums))
  BY DEF Summarize, SuiteInv
<1>5. Range(sums') = Range(sums) \cup {e} /\ sums' \in Seq(Range(sums'))
  BY <1>4, AppendRange, Zenon
<1>6. /\ e.n = throughputs /\ e.median = at(1, 2, throughputs)
      /\ e.q1 = at(1, 4, throughputs) /\ e.q3 = at(3, 4, throughputs)
  OBVIOUS
<1>7. /\ 0 <= e.q1 /\ e.q1 <= e.median /\ e.median <= e.q3 /\ e.q3 < e.n
      /\ 2 * e.median - (e.n - 1) \in -1 .. 1
      /\ 4 * e.q1 - (e.n - 1) \in -2 .. 2
      /\ 4 * e.q3 - 3 * (e.n - 1) \in -2 .. 2
  <2> HIDE DEF e
  <2> QED BY <1>3, <1>6, Places
<1>8. NearestRank'
  <2> HIDE DEF e
  <2> QED BY <1>5, <1>7 DEF SuiteInv, NearestRank
<1>9. opt' = opt /\ rep' = rep /\ throughputs' = throughputs /\ pc' = "sweep"
      /\ pc = "reps"
  BY DEF Summarize
<1> QED BY <1>5, <1>8, <1>9 DEF SuiteInv

\* Every step of main and run_suite.
LEMMA SuiteNext ==
  ASSUME NoWrap, SuiteInv, [Next]_vars
  PROVE  SuiteInv'
<1>1. CASE Main
  BY <1>1 DEF Main, Valid, SuiteInv, NearestRank
<1>2. CASE Sweep
  <2>1. opt.warmup \in Nat /\ opt.reps \in Nat
    BY OptionsFit
  <2> QED BY <1>2, <2>1 DEF Sweep, out, SuiteInv, NearestRank
<1>3. CASE UNCHANGED vars
  BY <1>3 DEF vars, out, SuiteInv, NearestRank
<1> QED BY <1>1, <1>2, <1>3, RepeatInv, SummarizeInv DEF Next

\* Before main has looked at its options.
LEMMA SuiteInit == Init => SuiteInv
<1> SUFFICES ASSUME Init PROVE SuiteInv
  OBVIOUS
<1>1. opt.warmup \in Counts /\ opt.reps \in Counts
  BY DEF Init, Options
<1>2. Range(sums) = {} /\ sums \in Seq(Range(sums))
  BY DEF Init, Range
<1>3. NearestRank
  BY <1>2 DEF NearestRank
<1> QED BY <1>1, <1>2, <1>3 DEF Init, SuiteInv

\* The median and quartiles summarize reports are measured throughputs, at
\* the places nearest to their ranks and in order, for every number of
\* repetitions, as long as warmup + reps does not wrap around.
THEOREM NearestRankCorrect ==
  ASSUME NoWrap
  PROVE  Spec => []NearestRank
<1>1. SuiteInv => NearestRank
  BY DEF SuiteInv
<1>2. SuiteInv /\ [Next]_vars => SuiteInv'
  BY SuiteNext
<1> QED BY <1>1, <1>2, SuiteInit, PTL DEF Spec
=============================================================================

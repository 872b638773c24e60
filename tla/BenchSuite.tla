----------------------------- MODULE BenchSuite -----------------------------
(***************************************************************************)
(* The sweep of bench/bench_main.cpp: what main makes of its options, the  *)
(* repetitions run_suite does for each thread count, the CSV rows and the  *)
(* summaries.  A trial (BenchTrial) is one step; of a row only the thread  *)
(* count and the repetition it is labelled with are kept, of a summary     *)
(* the thread count, the number of throughputs and the places of its       *)
(* median and quartiles among them.                                        *)
(*                                                                         *)
(* unsigned has W bits.  strtoul returns an unsigned long, which is wider. *)
(***************************************************************************)
EXTENDS Integers, Sequences, SequencesExt

CONSTANTS W,         \* the width of unsigned
          Tokens,    \* what strtoul finds in --threads=, 0 for no number
          MaxTokens, \* bound on the length of that list
          Counts,    \* the values of --reps= and --warmup=
          Queues     \* the values of --queue=

ASSUME SuiteAssumption ==
  W \in Nat /\ MaxTokens \in Nat /\ Counts \subseteq 0 .. 2^W - 1

VARIABLES
  opt,          \* the options
  pc,           \* what main does next
  next,         \* the thread counts run_suite has yet to do
  rep,          \* its loop counter
  throughputs,  \* how many repetitions of this thread count were measured
  rows,         \* the CSV rows on stdout
  sums,         \* the summaries on stderr
  code          \* the exit status

out  == <<rows, sums, code>>
vars == <<opt, pc, next, rep, throughputs, out>>

unsigned(x) == x % 2^W

\* The numbers up to the first that is missing or 0, each made unsigned.
parse_thread_list(list) ==
  LET Stop == {i \in DOMAIN list : list[i] = 0}
      n    == IF Stop = {} THEN Len(list)
              ELSE (CHOOSE i \in Stop : \A j \in Stop : i <= j) - 1
  IN  [i \in 1 .. n |-> unsigned(list[i])]

Workloads == {"pairs", "pc", "enq", "deq"}

\* The options, whatever order and however often they were given.  sane says
\* that no argument is unknown and neither --ops= nor a side of --ratio= 0.
Options ==
  [queue : Queues, workload : Workloads \cup {"unknown"},
   threads : {parse_thread_list(l) : l \in SeqOf(Tokens, MaxTokens)},
   reps : Counts, warmup : Counts, sane : BOOLEAN]

Init ==
  /\ opt \in Options /\ pc = "parse"
  /\ next = << >> /\ rep = 0 /\ throughputs = 0
  /\ rows = << >> /\ sums = << >> /\ code = 0

Known == {"mutex", "ms", "ms-hp", "ms-unpadded", "ms-hp-unpadded",
          "moodycamel"}

\* The options parse_args and main accept.
Valid == /\ opt.threads # << >> /\ opt.reps # 0 /\ opt.sane
         /\ opt.workload \in Workloads /\ opt.queue \in Known

\* parse_args and the dispatch of main.
Main ==
  /\ pc = "parse"
  /\ pc' = IF Valid THEN "sweep" ELSE "exit"
  /\ code' = IF Valid THEN 0 ELSE 2
  /\ next' = IF Valid THEN opt.threads ELSE << >>
  /\ UNCHANGED <<opt, rep, throughputs, rows, sums>>

\* pc needs a producer and a consumer.
Runnable(n) == opt.workload # "pc" \/ n >= 2

\* The next thread count, unless it is skipped.
Sweep ==
  /\ pc = "sweep"
  /\ \/ next = << >> /\ pc' = "exit" /\ UNCHANGED <<next, rep, throughputs>>
     \/ /\ next # << >> /\ Runnable(Head(next)) /\ pc' = "reps"
        /\ rep' = 0 /\ throughputs' = 0 /\ UNCHANGED next
     \/ /\ next # << >> /\ ~Runnable(Head(next)) /\ next' = Tail(next)
        /\ UNCHANGED <<pc, rep, throughputs>>
  /\ UNCHANGED <<opt, out>>

WarmOneLess == rep + 1 < opt.warmup  \* Mutant
\* Warmup repetitions are discarded.
Warming == rep < opt.warmup

\* Where the loop over the repetitions ends.
RepEnd == unsigned(opt.warmup + opt.reps)

\* One trial and, when it is measured, its row.
Repeat ==
  /\ pc = "reps" /\ rep < RepEnd
  /\ rep' = unsigned(rep + 1)
  /\ \/ Warming /\ UNCHANGED <<throughputs, rows>>
     \/ /\ ~Warming /\ throughputs' = throughputs + 1
        /\ rows' = Append(rows, [threads |-> Head(next),
                                 rep |-> unsigned(rep - opt.warmup)])
  /\ UNCHANGED <<opt, pc, next, sums, code>>

OfSize(num, den, n) == (2 * num * n + den) \div (2 * den)  \* Mutant
\* at(q) of summarize, for q = num/den.
at(num, den, n) ==
  LET idx == (2 * num * (n - 1) + den) \div (2 * den)
  IN  IF idx >= n THEN n - 1 ELSE idx

\* summarize(throughputs) and its line.
Summarize ==
  /\ pc = "reps" /\ rep >= RepEnd /\ pc' = "sweep" /\ next' = Tail(next)
  /\ sums' = Append(sums, [threads |-> Head(next), n |-> throughputs,
                           median |-> at(1, 2, throughputs),
                           q1 |-> at(1, 4, throughputs),
                           q3 |-> at(3, 4, throughputs)])
  /\ UNCHANGED <<opt, rep, throughputs, rows, code>>

Next == Main \/ Sweep \/ Repeat \/ Summarize

Spec == Init /\ [][Next]_vars

-----------------------------------------------------------------------------
(* Properties                                                              *)

(* One CSV row per repetition and a summary per configuration: a sweep     *)
(* that ended well has, for every thread count it did not skip and in      *)
(* order, rows 0 to reps - 1 and a summary of exactly these.               *)
OneRowPerRep ==
  pc = "exit" /\ code = 0 =>
    LET done == SelectSeq(opt.threads, Runnable)
    IN  /\ rows = FlattenSeq([i \in DOMAIN done |->
                                [r \in 1 .. opt.reps |->
                                   [threads |-> done[i], rep |-> r - 1]]])
        /\ [i \in DOMAIN sums |-> <<sums[i].threads, sums[i].n>>] =
             [i \in DOMAIN done |-> <<done[i], opt.reps>>]

(* The median and the quartiles of a summary are throughputs it was given, *)
(* each the nearest to its place, and in order.                            *)
NearestRank ==
  \A s \in Range(sums) :
    /\ 0 <= s.q1 /\ s.q1 <= s.median /\ s.median <= s.q3 /\ s.q3 < s.n
    /\ 2 * s.median - (s.n - 1) \in -1 .. 1
    /\ 4 * s.q1 - (s.n - 1) \in -2 .. 2
    /\ 4 * s.q3 - 3 * (s.n - 1) \in -2 .. 2
=============================================================================

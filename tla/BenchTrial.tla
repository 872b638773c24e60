----------------------------- MODULE BenchTrial -----------------------------
(***************************************************************************)
(* One trial of bench/bench_main.cpp: the driver of run_threads, the       *)
(* spin_barrier of bench/harness.hpp that lines the workers up, and the    *)
(* bodies of the four workloads.  A trial is a protocol between threads:   *)
(* its numbers mean something only if nobody starts early, everything that *)
(* is counted was done, and it ends.                                       *)
(*                                                                         *)
(* The queue is any queue of the library, a linearizable FIFO; the trial   *)
(* looks only at whether a dequeue got something, so it is the number of   *)
(* items.  A latency vector is its length.  The clock and pinning are      *)
(* left out.                                                               *)
(***************************************************************************)
EXTENDS Integers, FiniteSetsExt

CONSTANTS ThreadCounts,  \* the thread counts to try
          Ratios,        \* the pairs <<ratio_p, ratio_c>> to try
          Ops,           \* operations per thread
          UMod           \* unsigned is 0 .. UMod - 1, 2^32 in the code

ASSUME BenchAssumption ==
  /\ ThreadCounts \subseteq Nat \ {0} /\ ThreadCounts # {}
  /\ UMod \in Nat \ {0} /\ Ratios \subseteq (1 .. UMod - 1) \X (1 .. UMod - 1)
  /\ Ops \in Nat \ {0}

VARIABLES
  conf,      \* what is run: workload, n threads, pc's producers
  driver,    \* the driver's next step
  spawned,   \* the workers the driver has started
  arrived,   \* spin_barrier::arrived_
  go,        \* spin_barrier::go_
  items,     \* the items in the queue
  consumed,  \* the trial's consumed counter
  wpc,       \* wpc[t]: the next step of worker t
  enqs,      \* the length of a worker's enq_ns
  deqs       \* the length of its deq_ns

vars == <<conf, driver, spawned, arrived, go, items, consumed, wpc, enqs, deqs>>

Workers == 0 .. conf.n - 1

\* What share * n + 0.5 can be truncated to, for the share a / b.  The two
\* integers are equal unless share * n is halfway, when the floating-point
\* error may decide.  An infinite or too large number converts to anything.
Rounded(a, b, n) ==
  IF b # 0 /\ (2 * a * n + b) \div (2 * b) < UMod
  THEN {(2 * a * n + b) \div (2 * b), (2 * a * n + b - 1) \div (2 * b)}
  ELSE 0 .. UMod - 1

\* producers of split_ratio; each side is given a thread.  The sum wraps.
split_ratio(ratio, n) ==
  {CASE q < 1 -> 1 [] q > n - 1 -> n - 1 [] OTHER -> q :
     q \in Rounded(ratio[1], (ratio[1] + ratio[2]) % UMod, n)}

Workloads == {"pairs", "enq", "deq", "pc"}

\* The trials of a sweep: pc is skipped for a single thread.
Trials ==
  [workload : Workloads \ {"pc"}, n : ThreadCounts, producers : {0}]
    \cup {[workload |-> "pc", n |-> x[1], producers |-> x[2]] :
           x \in UNION {{n} \X split_ratio(r, n) :
                         n \in ThreadCounts \ {1}, r \in Ratios}}

\* total, for the workloads with a consumed counter.
Total == IF conf.workload = "pc" THEN conf.producers * Ops ELSE conf.n * Ops

\* r.ops_total.
OpsTotal == CASE conf.workload \in {"pairs", "pc"} -> 2 * Total
              [] conf.workload \in {"enq", "deq"} -> Total

\* What worker t does: enqueue, take turns, or consume.
Body(t) == CASE conf.workload \in {"pairs", "enq"} -> "enq"
             [] conf.workload = "deq" -> "load"
             [] conf.workload = "pc" /\ t < conf.producers -> "enq"
             [] OTHER -> "load"

InBody == {"enq", "deq", "load", "try", "count", "exit"}

\* deq prefills the queue before it starts any thread.
Init ==
  /\ conf \in Trials
  /\ driver = "spawn" /\ spawned = 0 /\ arrived = 0 /\ go = FALSE
  /\ items = (IF conf.workload = "deq" THEN Total ELSE 0) /\ consumed = 0
  /\ wpc = [t \in Workers |-> "none"]
  /\ enqs = [t \in Workers |-> 0] /\ deqs = [t \in Workers |-> 0]

-----------------------------------------------------------------------------
(* The driver                                                              *)

\* workers.emplace_back(...).
Spawn ==
  /\ driver = "spawn"
  /\ wpc' = [wpc EXCEPT ![spawned] = "arrive"]
  /\ spawned' = spawned + 1
  /\ driver' = IF spawned' = conf.n THEN "wait" ELSE "spawn"
  /\ UNCHANGED <<conf, arrived, go, items, consumed, enqs, deqs>>

AllButOne == arrived >= conf.n - 1  \* Mutant
WithDriver == arrived >= conf.n + 1  \* Mutant
AllArrived == arrived >= conf.n

\* driver_wait_for(nthreads); the clock is read next.
DriverWait ==
  /\ driver = "wait" /\ AllArrived /\ driver' = "release"
  /\ UNCHANGED <<conf, spawned, arrived, go, items, consumed, wpc, enqs, deqs>>

DriverRelease ==
  /\ driver = "release" /\ driver' = "join" /\ go' = TRUE
  /\ UNCHANGED <<conf, spawned, arrived, items, consumed, wpc, enqs, deqs>>

\* w.join() for every worker; the samples are merged.
DriverJoin ==
  /\ driver = "join" /\ driver' = "done"
  /\ \A t \in Workers : wpc[t] = "exit"
  /\ UNCHANGED <<conf, spawned, arrived, go, items, consumed, wpc, enqs, deqs>>

Driver == Spawn \/ DriverWait \/ DriverRelease \/ DriverJoin

-----------------------------------------------------------------------------
(* The workers                                                             *)

WStep(t, from, to) == wpc[t] = from /\ wpc' = [wpc EXCEPT ![t] = to]

\* worker_arrive_and_wait: count, then spin until go_.
Arrive(t) ==
  /\ WStep(t, "arrive", "spin") /\ arrived' = arrived + 1
  /\ UNCHANGED <<conf, driver, spawned, go, items, consumed, enqs, deqs>>

Leave(t) ==
  /\ go /\ WStep(t, "spin", Body(t))
  /\ UNCHANGED <<conf, driver, spawned, arrived, go, items, consumed, enqs, deqs>>

\* enqueue(value) and its sample; pairs goes on to its dequeue.
Enqueue(t) ==
  /\ items' = items + 1
  /\ enqs' = [enqs EXCEPT ![t] = @ + 1]
  /\ WStep(t, "enq", IF conf.workload = "pairs" THEN "deq"
                     ELSE IF enqs[t] + 1 = Ops THEN "exit" ELSE "enq")
  /\ UNCHANGED <<conf, driver, spawned, arrived, go, consumed, deqs>>

\* pairs: try_dequeue until it has something.  A failure changes nothing.
PairDequeue(t) ==
  /\ items > 0 /\ items' = items - 1
  /\ deqs' = [deqs EXCEPT ![t] = @ + 1]
  /\ WStep(t, "deq", IF enqs[t] = Ops THEN "exit" ELSE "enq")
  /\ UNCHANGED <<conf, driver, spawned, arrived, go, consumed, enqs>>

OneLess == consumed < Total - 1  \* Mutant
\* consumed.load() < total.
Unfinished == consumed < Total

LoadConsumed(t) ==
  /\ WStep(t, "load", IF Unfinished THEN "try" ELSE "exit")
  /\ UNCHANGED <<conf, driver, spawned, arrived, go, items, consumed, enqs, deqs>>

\* try_dequeue, by a consumer that may find nothing.
TryDequeue(t) ==
  /\ \/ items > 0 /\ items' = items - 1 /\ WStep(t, "try", "count")
     \/ items = 0 /\ WStep(t, "try", "load") /\ UNCHANGED items
  /\ UNCHANGED <<conf, driver, spawned, arrived, go, consumed, enqs, deqs>>

\* consumed.fetch_add(1) and the sample.
Count(t) ==
  /\ WStep(t, "count", "load")
  /\ consumed' = consumed + 1
  /\ deqs' = [deqs EXCEPT ![t] = @ + 1]
  /\ UNCHANGED <<conf, driver, spawned, arrived, go, items, enqs>>

Worker(t) ==
  \/ Arrive(t) \/ Leave(t) \/ Enqueue(t) \/ PairDequeue(t)
  \/ LoadConsumed(t) \/ TryDequeue(t) \/ Count(t)

Next == Driver \/ \E t \in Workers : Worker(t)

(* The driver and every worker keep being scheduled.                       *)
Spec == /\ Init /\ [][Next]_vars /\ WF_vars(Driver)
        /\ \A t \in 0 .. Max(ThreadCounts) - 1 :
             WF_vars(t \in Workers /\ Worker(t))

-----------------------------------------------------------------------------
(* Nobody is in the measured part of a trial before every worker is at the *)
(* start line and the driver has read the clock and let them go.           *)
StartLine ==
  (\E t \in Workers : wpc[t] \in InBody) =>
    /\ driver \in {"join", "done"}
    /\ \A t \in Workers : wpc[t] \notin {"none", "arrive"}

\* The samples of the workers' enq_ns or deq_ns, merged.
Samples(ns) == UNION {{t} \X (1 .. ns[t]) : t \in Workers}

(* The throughput a trial reports is of operations that were done: with    *)
(* all workers joined there is a sample for each of the ops_total          *)
(* operations, and no item is left behind by consumers that stop on a      *)
(* counter other consumers have not yet incremented.                       *)
AllCounted ==
  driver = "done" =>
    /\ OpsTotal = Cardinality(Samples(enqs)) + Cardinality(Samples(deqs))
    /\ conf.workload # "enq" => items = 0

(* Every trial ends, the consumers of pc and deq and the spinning          *)
(* dequeuers of pairs included.                                            *)
TrialEnds == <>(driver = "done")
=============================================================================

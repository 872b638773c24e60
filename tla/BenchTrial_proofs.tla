-------------------------- MODULE BenchTrial_proofs --------------------------
(***************************************************************************)
(* Machine-checked proofs about a benchmark trial, for any thread count,   *)
(* ratio and number of operations: nobody starts before the line is        *)
(* complete, and every operation that is reported was done.                *)
(***************************************************************************)
EXTENDS BenchTrial, FiniteSetTheorems, TLAPS

-----------------------------------------------------------------------------
(* The inductive invariant.                                                *)

Waiting == {"none", "arrive", "spin"}

ConfOK ==
  /\ conf \in [workload : Workloads, n : Nat \ {0}, producers : Nat]
  /\ conf.producers < conf.n

TrialTypes ==
  /\ ConfOK
  /\ driver \in {"spawn", "wait", "release", "join", "done"}
  /\ spawned \in Nat /\ go \in BOOLEAN
  /\ items \in Nat /\ consumed \in Nat
  /\ wpc \in [Workers -> Waiting \cup InBody]
  /\ enqs \in [Workers -> Nat] /\ deqs \in [Workers -> Nat]

\* The workers that have arrived at the start line.
Lined == {t \in Workers : wpc[t] \notin {"none", "arrive"}}

\* The barrier counts them, and go_ is set when all have arrived.
LineInv ==
  /\ arrived = Cardinality(Lined)
  /\ go <=> driver \in {"join", "done"}
  /\ driver \in {"release", "join", "done"} => Lined = Workers
  /\ driver = "done" => \A t \in Workers : wpc[t] = "exit"
  /\ driver = "spawn" => spawned < conf.n
  /\ \A t \in Workers : t >= spawned => wpc[t] = "none"
  /\ \A t \in Workers : wpc[t] \in InBody => go

\* The workers that enqueue.
Producer(t) == \/ conf.workload \in {"pairs", "enq"}
               \/ conf.workload = "pc" /\ t < conf.producers

Counting == {t \in Workers : wpc[t] = "count"}

\* What a worker has done by where it is.
WorkInv ==
  \A t \in Workers :
    /\ wpc[t] \in Waiting => enqs[t] = 0 /\ deqs[t] = 0
    /\ wpc[t] = "enq" => Producer(t) /\ enqs[t] < Ops
    /\ wpc[t] = "deq" => conf.workload = "pairs"
    /\ wpc[t] \in {"load", "try", "count"} => ~Producer(t)
    /\ enqs[t] <= Ops /\ (~Producer(t) => enqs[t] = 0)
    /\ conf.workload = "pairs" =>
         enqs[t] = IF wpc[t] = "deq" THEN deqs[t] + 1 ELSE deqs[t]
    /\ Producer(t) /\ conf.workload # "pairs" => deqs[t] = 0
    /\ wpc[t] = "exit" => IF Producer(t) THEN enqs[t] = Ops
                                         ELSE consumed >= Total

\* Where every item is: in the queue, taken and not yet counted, or counted.
ItemsInv ==
  /\ IsFiniteSet(Samples(enqs)) /\ IsFiniteSet(Samples(deqs))
  /\ conf.workload \in {"deq", "pc"} => consumed = Cardinality(Samples(deqs))
  /\ items + Cardinality(Counting) + Cardinality(Samples(deqs))
       = Cardinality(Samples(enqs)) + (IF conf.workload = "deq" THEN Total ELSE 0)

-----------------------------------------------------------------------------
(* The sample vectors.                                                     *)

Table(W, f) == UNION {{u} \X (1 .. f[u]) : u \in W}

\* One more sample in one vector.
LEMMA OneMore ==
  ASSUME NEW W, NEW f \in [W -> Nat], NEW t \in W, IsFiniteSet(Table(W, f)),
         NEW g, g = [f EXCEPT ![t] = @ + 1]
  PROVE  /\ IsFiniteSet(Table(W, g))
         /\ Cardinality(Table(W, g)) = Cardinality(Table(W, f)) + 1
<1> DEFINE A == Table(W, f)
           B == Table(W, g)
<1>1. f[t] \in Nat /\ g[t] = f[t] + 1 /\ \A u \in W \ {t} : g[u] = f[u]
  OBVIOUS
<1>2. /\ \A x : x \in A <=> \E u \in W : \E i \in 1 .. f[u] : x = <<u, i>>
      /\ \A x : x \in B <=> \E u \in W : \E i \in 1 .. g[u] : x = <<u, i>>
  BY DEF Table
<1> HIDE DEF A, B
<1> DEFINE new == <<t, f[t] + 1>>
<1>3. new \notin A
  BY <1>1, <1>2
<1>4. B = A \cup {new}
  <2>1. new \in B
    <3>1. f[t] + 1 \in 1 .. g[t]
      BY <1>1
    <3>2. \E i \in 1 .. g[t] : new = <<t, i>>
      BY <3>1
    <3> HIDE DEF new
    <3> QED BY <1>2, <3>2
  <2>2. ASSUME NEW x \in A PROVE x \in B
    <3>1. PICK u \in W : \E i \in 1 .. f[u] : x = <<u, i>>
      BY <1>2
    <3>2. \A i \in 1 .. f[u] : i \in 1 .. g[u]
      BY <1>1
    <3> QED BY <1>2, <3>1, <3>2
  <2>3. ASSUME NEW x \in B, x # new PROVE x \in A
    <3>1. PICK u \in W : \E i \in 1 .. g[u] : x = <<u, i>>
      BY <1>2
    <3>2. PICK i \in 1 .. g[u] : x = <<u, i>>
      BY <3>1
    <3>3. i \in 1 .. f[u]
      BY <1>1, <2>3, <3>2
    <3> QED BY <1>2, <3>2, <3>3
  <2> QED BY <2>1, <2>2, <2>3
<1> HIDE DEF new
<1>5. /\ IsFiniteSet(A \cup {new})
      /\ Cardinality(A \cup {new}) = IF new \in A THEN Cardinality(A)
                                                 ELSE Cardinality(A) + 1
  BY FS_AddElement, Zenon DEF A
<1> QED BY <1>3, <1>4, <1>5, Zenon DEF A, B

\* All vectors of the first m of w workers have c samples, the others none.
Even(w, m, c, f) == \A t \in 0 .. w - 1 : f[t] = IF t < m THEN c ELSE 0

LEMMA AllFull ==
  ASSUME NEW w \in Nat, NEW m \in Nat, m <= w, NEW c \in Nat, NEW f,
         Even(w, m, c, f)
  PROVE  Cardinality(Table(0 .. w - 1, f)) = m * c
<1> DEFINE A == Table(0 .. w - 1, f)
           P == 0 .. m - 1
           C == 1 .. c
<1>1. A = P \X C
  <2>1. \A x : x \in A <=> \E t \in 0 .. w - 1 : \E i \in 1 .. f[t] : x = <<t, i>>
    BY DEF Table
  <2>2. \A x : x \in P \X C <=> \E t \in P : \E i \in C : x = <<t, i>>
    OBVIOUS
  <2>3. ASSUME NEW x \in A PROVE x \in P \X C
    <3>1. PICK t \in 0 .. w - 1 : \E i \in 1 .. f[t] : x = <<t, i>>
      BY <2>1
    <3>2. PICK i \in 1 .. f[t] : x = <<t, i>>
      BY <3>1
    <3>3. t \in P /\ i \in C
      BY <3>2 DEF Even
    <3> QED BY <2>2, <3>2, <3>3
  <2>4. ASSUME NEW x \in P \X C PROVE x \in A
    <3>1. PICK t \in P : \E i \in C : x = <<t, i>>
      BY <2>2
    <3>2. t \in 0 .. w - 1 /\ f[t] = c
      BY DEF Even
    <3> QED BY <2>1, <3>1, <3>2
  <2> HIDE DEF A
  <2> QED BY <2>3, <2>4
<1>2. IsFiniteSet(P) /\ Cardinality(P) = m
  <2>1. 0 \in Int /\ m - 1 \in Int
    OBVIOUS
  <2>2. /\ IsFiniteSet(0 .. m - 1)
        /\ Cardinality(0 .. m - 1) = IF 0 > m - 1 THEN 0 ELSE (m - 1) - 0 + 1
    BY <2>1, FS_Interval, Zenon
  <2> QED BY <2>2
<1>3. IsFiniteSet(C) /\ Cardinality(C) = c
  <2>1. 1 \in Int /\ c \in Int
    OBVIOUS
  <2>2. /\ IsFiniteSet(1 .. c)
        /\ Cardinality(1 .. c) = IF 1 > c THEN 0 ELSE c - 1 + 1
    BY <2>1, FS_Interval, Zenon
  <2> QED BY <2>2
<1> HIDE DEF P, C
<1>4. Cardinality(P \X C) = Cardinality(P) * Cardinality(C)
  BY <1>2, <1>3, FS_Product, Zenon
<1> QED BY <1>1, <1>2, <1>3, <1>4

-----------------------------------------------------------------------------
(* The start of a trial.                                                   *)

\* split_ratio leaves a thread to each side.
LEMMA SplitSides ==
  ASSUME NEW n \in Nat \ {0, 1}, NEW r \in Ratios, NEW q \in split_ratio(r, n)
  PROVE  q \in Nat /\ q < n
<1>1. \A a \in Int : \A b \in Nat \ {0} : a \div b \in Int
  OBVIOUS
<1>2. r[1] \in Nat /\ r[2] \in Nat /\ UMod \in Nat \ {0}
  BY BenchAssumption
<1>3. \A a, b \in Nat : a * b \in Nat
  OBVIOUS
<1> DEFINE num == 2 * r[1] * n
           den == (r[1] + r[2]) % UMod
<1>4. num \in Nat /\ den \in Nat
  <2>1. 2 * r[1] \in Nat /\ r[1] + r[2] \in Nat
    BY <1>2
  <2>2. \A a \in Nat : \A b \in Nat \ {0} : a % b \in Nat
    OBVIOUS
  <2> QED BY <1>2, <1>3, <2>1, <2>2
<1> DEFINE Any == IF den # 0 /\ (num + den) \div (2 * den) < UMod
                  THEN {(num + den) \div (2 * den), (num + den - 1) \div (2 * den)}
                  ELSE 0 .. UMod - 1
<1>5. Rounded(r[1], den, n) = Any
  BY DEF Rounded
<1> HIDE DEF num, den
<1>6. Any \subseteq Int
  <2>1. num + den \in Int /\ num + den - 1 \in Int
    BY <1>4
  <2>2. den # 0 => 2 * den \in Nat \ {0}
    BY <1>4
  <2> QED BY <1>1, <1>2, <2>1, <2>2
<1> HIDE DEF Any
<1>7. PICK p \in Any :
        q = CASE p < 1 -> 1 [] p > n - 1 -> n - 1 [] OTHER -> p
  BY <1>5 DEF split_ratio, den
<1> QED BY <1>6, <1>7

LEMMA WorkersAre ==
  ASSUME ConfOK
  PROVE  /\ conf.n \in Nat /\ conf.n > 0 /\ conf.producers \in Nat
         /\ conf.producers < conf.n
         /\ IsFiniteSet(Workers) /\ Cardinality(Workers) = conf.n
         /\ Total \in Nat /\ Ops \in Nat /\ Ops > 0
<1>1. /\ conf.n \in Nat /\ conf.n > 0 /\ conf.producers \in Nat
      /\ conf.producers < conf.n
  BY DEF ConfOK
<1>2. 0 \in Int /\ conf.n - 1 \in Int
  BY <1>1
<1>3. /\ IsFiniteSet(0 .. conf.n - 1)
      /\ Cardinality(0 .. conf.n - 1) =
           IF 0 > conf.n - 1 THEN 0 ELSE (conf.n - 1) - 0 + 1
  BY <1>2, FS_Interval, Zenon
<1>4. IsFiniteSet(Workers) /\ Cardinality(Workers) = conf.n
  BY <1>1, <1>3 DEF Workers
<1>5. Ops \in Nat /\ Ops > 0
  BY BenchAssumption
<1>6. \A a, b \in Nat : a * b \in Nat
  OBVIOUS
<1>7. Total \in Nat
  BY <1>1, <1>5, <1>6 DEF Total
<1> QED BY <1>1, <1>4, <1>5, <1>7

TrialInv == TrialTypes /\ LineInv /\ WorkInv /\ ItemsInv

\* Before the driver has spawned anybody.
LEMMA TrialInit == Init => TrialInv
<1> SUFFICES ASSUME Init PROVE TrialInv
  OBVIOUS
<1>1. ConfOK
  <2>1. CASE conf \in [workload : Workloads \ {"pc"}, n : ThreadCounts,
                       producers : {0}]
    <3>1. /\ conf.n \in ThreadCounts /\ conf.producers = 0
          /\ conf \in [workload : Workloads, n : ThreadCounts, producers : {0}]
      BY <2>1
    <3>2. \A m \in ThreadCounts : m \in Nat \ {0} /\ m > 0
      BY BenchAssumption
    <3> QED BY <3>1, <3>2 DEF ConfOK
  <2>2. CASE conf \notin [workload : Workloads \ {"pc"}, n : ThreadCounts,
                          producers : {0}]
    <3>1. PICK n \in ThreadCounts \ {1}, r \in Ratios :
            \E q \in split_ratio(r, n) :
              conf = [workload |-> "pc", n |-> n, producers |-> q]
      BY <2>2 DEF Init, Trials
    <3>2. PICK q \in split_ratio(r, n) :
            conf = [workload |-> "pc", n |-> n, producers |-> q]
      BY <3>1
    <3>3. n \in Nat \ {0, 1}
      BY BenchAssumption
    <3>4. q \in Nat /\ q < n
      BY <3>3, SplitSides
    <3> QED BY <3>2, <3>3, <3>4 DEF ConfOK, Workloads
  <2> QED BY <2>1, <2>2
<1>2. /\ conf.n \in Nat /\ conf.n > 0 /\ Total \in Nat /\ Ops \in Nat
  BY <1>1, WorkersAre
<1>3. TrialTypes
  BY <1>1, <1>2 DEF Init, TrialTypes, Waiting
<1>4. \A S : S = {} => IsFiniteSet(S) /\ Cardinality(S) = 0
  BY FS_EmptySet, Zenon
<1>5. Lined = {} /\ Counting = {} /\ Samples(enqs) = {} /\ Samples(deqs) = {}
  BY DEF Init, Lined, Counting, Samples
<1>6. LineInv
  BY <1>2, <1>4, <1>5 DEF Init, LineInv, InBody
<1>7. WorkInv
  BY <1>2 DEF Init, WorkInv, Waiting
<1>8. ItemsInv
  <2>1. items = IF conf.workload = "deq" THEN Total ELSE 0
    BY DEF Init
  <2>2. consumed = 0
    BY DEF Init
  <2> QED BY <1>2, <1>4, <1>5, <2>1, <2>2 DEF ItemsInv
<1> QED BY <1>3, <1>6, <1>7, <1>8 DEF TrialInv

-----------------------------------------------------------------------------
(* The steps.                                                              *)

\* Sets of workers.
LEMMA WorkerSets ==
  ASSUME ConfOK, NEW S \in SUBSET Workers
  PROVE  /\ IsFiniteSet(S) /\ Cardinality(S) \in Nat
         /\ Cardinality(S) >= conf.n => S = Workers
<1>1. /\ IsFiniteSet(Workers) /\ Cardinality(Workers) = conf.n /\ conf.n \in Nat
  BY WorkersAre
<1>2. /\ IsFiniteSet(S) /\ Cardinality(S) <= Cardinality(Workers)
      /\ Cardinality(Workers) = Cardinality(S) => Workers = S
  BY <1>1, FS_Subset, Zenon
<1>3. Cardinality(S) \in Nat
  BY <1>2, FS_CardinalityType
<1> QED BY <1>1, <1>2, <1>3

\* The driver.
LEMMA DriverKeeps ==
  ASSUME TrialInv, Driver
  PROVE  TrialInv'
<1>0. /\ TrialTypes /\ LineInv /\ WorkInv /\ ItemsInv /\ ConfOK
      /\ conf.n \in Nat /\ conf.n > 0
  BY WorkersAre DEF TrialInv, TrialTypes
<1>1. /\ UNCHANGED <<conf, arrived, items, consumed, enqs, deqs>>
      /\ Workers' = Workers /\ Total' = Total
      /\ Samples(enqs)' = Samples(enqs) /\ Samples(deqs)' = Samples(deqs)
      /\ \A t : Producer(t)' = Producer(t)
      /\ ConfOK'
  BY <1>0 DEF Driver, Spawn, DriverWait, DriverRelease, DriverJoin, Workers, Total,
    Samples, Producer, ConfOK
<1>2. CASE Spawn
  <2>1. /\ spawned \in Workers /\ wpc[spawned] = "none"
        /\ wpc' = [wpc EXCEPT ![spawned] = "arrive"]
        /\ spawned' = spawned + 1 /\ go' = go /\ driver = "spawn"
        /\ driver' = IF spawned' = conf.n THEN "wait" ELSE "spawn"
    BY <1>0, <1>2 DEF Spawn, LineInv, Workers, TrialTypes
  <2>2. TrialTypes'
    BY <1>0, <1>1, <2>1 DEF TrialTypes, Waiting
  <2>3. Lined' = Lined /\ Counting' = Counting
    BY <1>0, <1>1, <2>1 DEF Lined, Counting, TrialTypes
  <2>4. LineInv'
    BY <1>0, <1>1, <2>1, <2>3 DEF LineInv, TrialTypes, Workers, InBody
  <2>5. WorkInv'
    BY <1>0, <1>1, <2>1 DEF WorkInv, TrialTypes, Waiting
  <2>6. ItemsInv'
    BY <1>0, <1>1, <2>3 DEF ItemsInv
  <2> QED BY <2>2, <2>4, <2>5, <2>6 DEF TrialInv
<1>3. CASE DriverWait \/ DriverRelease \/ DriverJoin
  <2>1. wpc' = wpc /\ spawned' = spawned
    BY <1>3 DEF DriverWait, DriverRelease, DriverJoin
  <2>2. Lined' = Lined /\ Counting' = Counting
    BY <1>1, <2>1 DEF Lined, Counting
  <2>3. TrialTypes'
    BY <1>0, <1>1, <1>3, <2>1 DEF TrialTypes, DriverWait, DriverRelease, DriverJoin
  <2>4. DriverWait => Lined = Workers
    <3>1. Lined \in SUBSET Workers
      BY DEF Lined
    <3> QED BY <1>0, <3>1, WorkerSets DEF DriverWait, AllArrived, LineInv
  <2>5. LineInv'
    <3>1. CASE DriverWait
      BY <1>0, <1>1, <2>1, <2>2, <2>4, <3>1 DEF LineInv, DriverWait
    <3>2. CASE DriverRelease
      BY <1>0, <1>1, <2>1, <2>2, <3>2 DEF LineInv, DriverRelease
    <3>3. CASE DriverJoin
      BY <1>0, <1>1, <2>1, <2>2, <3>3 DEF LineInv, DriverJoin
    <3> QED BY <1>3, <3>1, <3>2, <3>3
  <2>6. WorkInv'
    BY <1>0, <1>1, <2>1 DEF WorkInv
  <2>7. ItemsInv'
    BY <1>0, <1>1, <2>2 DEF ItemsInv
  <2> QED BY <2>3, <2>5, <2>6, <2>7 DEF TrialInv
<1> QED BY <1>2, <1>3 DEF Driver

\* What the steps of a worker leave alone.
LEMMA WorkerFrame ==
  ASSUME ConfOK, NEW t \in Workers, Worker(t)
  PROVE  /\ UNCHANGED <<conf, driver, spawned, go>>
         /\ Workers' = Workers /\ Total' = Total /\ ConfOK'
         /\ \A u : Producer(u)' = Producer(u)
         /\ \E l \in Waiting \cup InBody : wpc' = [wpc EXCEPT ![t] = l]
<1>1. UNCHANGED <<conf, driver, spawned, go>>
  BY DEF Worker, Arrive, Leave, Enqueue, PairDequeue, LoadConsumed, TryDequeue, Count
<1>2. \E l \in Waiting \cup InBody : wpc' = [wpc EXCEPT ![t] = l]
  BY DEF Worker, Arrive, Leave, Enqueue, PairDequeue, LoadConsumed, TryDequeue,
    Count, WStep, Body, Waiting, InBody
<1> QED BY <1>1, <1>2 DEF Workers, Total, Producer, ConfOK

\* A worker reaches the line, or leaves it when all have.
LEMMA LineKeeps ==
  ASSUME TrialInv, NEW t \in Workers, Worker(t)
  PROVE  LineInv'
<1>0. TrialTypes /\ LineInv /\ ConfOK
  BY DEF TrialInv, TrialTypes
<1>1. /\ UNCHANGED <<conf, driver, spawned, go>> /\ Workers' = Workers
  BY <1>0, WorkerFrame
<1>2. CASE Arrive(t)
  <2>1. /\ wpc[t] = "arrive" /\ wpc' = [wpc EXCEPT ![t] = "spin"]
        /\ arrived' = arrived + 1
    BY <1>2 DEF Arrive, WStep
  <2>2. t \notin Lined /\ Lined' = Lined \cup {t}
    BY <1>0, <1>1, <2>1 DEF Lined, TrialTypes
  <2>3. Lined \in SUBSET Workers /\ IsFiniteSet(Lined)
    BY <1>0, WorkerSets DEF Lined
  <2>4. Cardinality(Lined') = Cardinality(Lined) + 1
    BY <2>2, <2>3, FS_AddElement
  <2> QED BY <1>0, <1>1, <2>1, <2>2, <2>3, <2>4 DEF LineInv, TrialTypes, InBody
<1>3. CASE ~Arrive(t)
  <2>1. /\ wpc[t] \notin {"none", "arrive", "exit"} /\ wpc'[t] \in InBody
        /\ arrived' = arrived /\ (wpc[t] = "spin" => go)
        /\ \A u \in Workers : u # t => wpc'[u] = wpc[u]
    BY <1>0, <1>3 DEF Worker, Leave, Enqueue, PairDequeue, LoadConsumed, TryDequeue,
      Count, WStep, Body, InBody, TrialTypes
  <2>2. Lined' = Lined
    BY <1>0, <1>1, <2>1 DEF Lined, InBody
  <2>3. go
    BY <1>0, <2>1 DEF LineInv, TrialTypes, Waiting, InBody
  <2> QED BY <1>0, <1>1, <2>1, <2>2, <2>3 DEF LineInv
<1> QED BY <1>2, <1>3

\* What each worker has done.
LEMMA WorkKeeps ==
  ASSUME TrialInv, NEW t \in Workers, Worker(t)
  PROVE  WorkInv' /\ TrialTypes'
<1>0. TrialTypes /\ WorkInv /\ ConfOK
  BY DEF TrialInv, TrialTypes
<1>1. /\ UNCHANGED <<conf, driver, spawned, go>>
      /\ Workers' = Workers /\ Total' = Total /\ ConfOK'
      /\ \A u : Producer(u)' = Producer(u)
      /\ \E l \in Waiting \cup InBody : wpc' = [wpc EXCEPT ![t] = l]
      /\ Total \in Nat /\ Ops \in Nat /\ Ops > 0
  BY <1>0, WorkerFrame, WorkersAre
<1>2. /\ items' \in Nat /\ consumed' \in Nat /\ consumed' >= consumed
      /\ enqs' \in [Workers -> Nat] /\ deqs' \in [Workers -> Nat]
      /\ \A u \in Workers : u # t =>
           enqs'[u] = enqs[u] /\ deqs'[u] = deqs[u] /\ wpc'[u] = wpc[u]
  BY <1>0 DEF Worker, Arrive, Leave, Enqueue, PairDequeue, LoadConsumed, TryDequeue,
    Count, WStep, TrialTypes
<1>3. TrialTypes'
  BY <1>0, <1>1, <1>2 DEF TrialTypes
<1> DEFINE Done(u) ==
      /\ wpc[u] \in Waiting => enqs[u] = 0 /\ deqs[u] = 0
      /\ wpc[u] = "enq" => Producer(u) /\ enqs[u] < Ops
      /\ wpc[u] = "deq" => conf.workload = "pairs"
      /\ wpc[u] \in {"load", "try", "count"} => ~Producer(u)
      /\ enqs[u] <= Ops /\ (~Producer(u) => enqs[u] = 0)
      /\ conf.workload = "pairs" =>
           enqs[u] = IF wpc[u] = "deq" THEN deqs[u] + 1 ELSE deqs[u]
      /\ Producer(u) /\ conf.workload # "pairs" => deqs[u] = 0
      /\ wpc[u] = "exit" => IF Producer(u) THEN enqs[u] = Ops
                                           ELSE consumed >= Total
<1>4. \A u \in Workers : Done(u)
  BY <1>0 DEF WorkInv
<1>5. \A u \in Workers : u # t => Done(u)'
  BY <1>0, <1>1, <1>2, <1>4 DEF TrialTypes
<1>6. Done(t)'
  <2>0. /\ enqs[t] \in Nat /\ deqs[t] \in Nat /\ wpc[t] \in Waiting \cup InBody
        /\ consumed \in Nat
        /\ conf.workload \in Workloads
    BY <1>0 DEF TrialTypes, ConfOK
  <2>1. CASE Arrive(t)
    BY <1>0, <1>1, <1>4, <2>0, <2>1 DEF Arrive, WStep, TrialTypes, Waiting
  <2>2. CASE Leave(t)
    <3>1. Body(t) = IF Producer(t) THEN "enq" ELSE "load"
      BY <2>0 DEF Body, Producer, Workloads
    <3>2. conf.workload = "pairs" => Producer(t)
      BY DEF Producer
    <3> QED BY <1>0, <1>1, <1>4, <2>0, <2>2, <3>1, <3>2
          DEF Leave, WStep, TrialTypes, Waiting
  <2>3. CASE Enqueue(t)
    <3>1. /\ wpc[t] = "enq" /\ enqs'[t] = enqs[t] + 1 /\ deqs' = deqs
          /\ consumed' = consumed
          /\ wpc'[t] = IF conf.workload = "pairs" THEN "deq"
                       ELSE IF enqs[t] + 1 = Ops THEN "exit" ELSE "enq"
      BY <1>0, <2>3 DEF Enqueue, WStep, TrialTypes
    <3>2. Producer(t) /\ enqs[t] < Ops
      BY <1>4, <3>1
    <3> QED BY <1>1, <1>4, <2>0, <3>1, <3>2 DEF Waiting
  <2>4. CASE PairDequeue(t)
    <3>1. /\ wpc[t] = "deq" /\ deqs'[t] = deqs[t] + 1 /\ enqs' = enqs
          /\ consumed' = consumed
          /\ wpc'[t] = IF enqs[t] = Ops THEN "exit" ELSE "enq"
      BY <1>0, <2>4 DEF PairDequeue, WStep, TrialTypes
    <3>2. Producer(t) /\ conf.workload = "pairs"
      BY <1>4, <3>1 DEF Producer
    <3> QED BY <1>1, <1>4, <2>0, <3>1, <3>2 DEF Waiting
  <2>5. CASE LoadConsumed(t)
    <3>1. /\ wpc[t] = "load" /\ deqs' = deqs /\ enqs' = enqs /\ consumed' = consumed
          /\ wpc'[t] = IF consumed < Total THEN "try" ELSE "exit"
      BY <1>0, <2>5 DEF LoadConsumed, WStep, TrialTypes, Unfinished
    <3> QED BY <1>1, <1>4, <2>0, <3>1 DEF Waiting
  <2>6. CASE TryDequeue(t) \/ Count(t)
    <3>1. /\ wpc[t] \in {"try", "count"} /\ wpc'[t] \in {"count", "load"}
          /\ enqs' = enqs
      BY <1>0, <2>6 DEF TryDequeue, Count, WStep, TrialTypes
    <3>2. ~Producer(t) /\ conf.workload # "pairs"
      BY <1>4, <3>1 DEF Producer
    <3> QED BY <1>1, <1>4, <2>0, <3>1, <3>2 DEF Waiting
  <2> QED BY <2>1, <2>2, <2>3, <2>4, <2>5, <2>6 DEF Worker
<1>7. \A u \in Workers : Done(u)'
  BY <1>5, <1>6
<1> QED BY <1>1, <1>3, <1>7 DEF WorkInv

\* One more sample of a worker, in one of the two vectors.
LEMMA SampleAdded ==
  ASSUME NEW t \in Workers, Workers' = Workers
  PROVE  /\ /\ enqs \in [Workers -> Nat] /\ IsFiniteSet(Samples(enqs))
            /\ enqs' = [enqs EXCEPT ![t] = @ + 1]
            => /\ IsFiniteSet(Samples(enqs)')
               /\ Cardinality(Samples(enqs)') = Cardinality(Samples(enqs)) + 1
         /\ /\ deqs \in [Workers -> Nat] /\ IsFiniteSet(Samples(deqs))
            /\ deqs' = [deqs EXCEPT ![t] = @ + 1]
            => /\ IsFiniteSet(Samples(deqs)')
               /\ Cardinality(Samples(deqs)') = Cardinality(Samples(deqs)) + 1
         /\ enqs' = enqs => Samples(enqs)' = Samples(enqs)
         /\ deqs' = deqs => Samples(deqs)' = Samples(deqs)
<1>1. ASSUME enqs \in [Workers -> Nat], IsFiniteSet(Samples(enqs)),
             enqs' = [enqs EXCEPT ![t] = @ + 1]
      PROVE  /\ IsFiniteSet(Samples(enqs)')
             /\ Cardinality(Samples(enqs)') = Cardinality(Samples(enqs)) + 1
  <2>1. /\ Samples(enqs) = Table(Workers, enqs)
        /\ Samples(enqs)' = Table(Workers, enqs')
    BY DEF Samples, Table
  <2>2. /\ IsFiniteSet(Table(Workers, enqs'))
        /\ Cardinality(Table(Workers, enqs')) = Cardinality(Table(Workers, enqs)) + 1
    BY <1>1, <2>1, OneMore
  <2> QED BY <2>1, <2>2
<1>2. ASSUME deqs \in [Workers -> Nat], IsFiniteSet(Samples(deqs)),
             deqs' = [deqs EXCEPT ![t] = @ + 1]
      PROVE  /\ IsFiniteSet(Samples(deqs)')
             /\ Cardinality(Samples(deqs)') = Cardinality(Samples(deqs)) + 1
  <2>1. /\ Samples(deqs) = Table(Workers, deqs)
        /\ Samples(deqs)' = Table(Workers, deqs')
    BY DEF Samples, Table
  <2>2. /\ IsFiniteSet(Table(Workers, deqs'))
        /\ Cardinality(Table(Workers, deqs')) = Cardinality(Table(Workers, deqs)) + 1
    BY <1>2, <2>1, OneMore
  <2> QED BY <2>1, <2>2
<1>3. /\ enqs' = enqs => Samples(enqs)' = Samples(enqs)
      /\ deqs' = deqs => Samples(deqs)' = Samples(deqs)
  BY DEF Samples
<1> QED BY <1>1, <1>2, <1>3

\* Every item is where ItemsInv says.
LEMMA ItemsKeep ==
  ASSUME TrialInv, NEW t \in Workers, Worker(t)
  PROVE  ItemsInv'
<1>0. TrialTypes /\ WorkInv /\ ConfOK /\ ItemsInv
  BY DEF TrialInv, TrialTypes
<1>1. UNCHANGED <<conf>> /\ Workers' = Workers /\ Total' = Total /\ Total \in Nat
  BY <1>0, WorkerFrame, WorkersAre
<1>2. /\ enqs \in [Workers -> Nat] /\ deqs \in [Workers -> Nat]
      /\ IsFiniteSet(Samples(enqs)) /\ IsFiniteSet(Samples(deqs))
      /\ items \in Nat /\ consumed \in Nat
  BY <1>0 DEF TrialTypes, ItemsInv
<1>3. /\ IsFiniteSet(Counting) /\ Cardinality(Counting) \in Nat
      /\ Cardinality(Samples(enqs)) \in Nat /\ Cardinality(Samples(deqs)) \in Nat
  <2>1. Counting \in SUBSET Workers
    BY DEF Counting
  <2> QED BY <1>0, <1>2, <2>1, WorkerSets, FS_CardinalityType
<1>4. /\ enqs' = enqs => Samples(enqs)' = Samples(enqs)
      /\ deqs' = deqs => Samples(deqs)' = Samples(deqs)
  BY <1>1, SampleAdded
<1>5. CASE Arrive(t) \/ Leave(t) \/ LoadConsumed(t)
           \/ (TryDequeue(t) /\ items' = items)
  <2>1. UNCHANGED <<items, consumed, enqs, deqs>>
    BY <1>5 DEF Arrive, Leave, LoadConsumed, TryDequeue
  <2>2. Counting' = Counting
    BY <1>0, <1>1, <1>2, <1>5 DEF Arrive, Leave, LoadConsumed, TryDequeue, WStep,
      Body, Counting, TrialTypes
  <2> QED BY <1>0, <1>1, <1>4, <2>1, <2>2 DEF ItemsInv
<1>6. CASE Enqueue(t)
  <2>1. /\ enqs' = [enqs EXCEPT ![t] = @ + 1] /\ items' = items + 1
        /\ deqs' = deqs /\ consumed' = consumed
    BY <1>6 DEF Enqueue
  <2>2. Counting' = Counting
    BY <1>0, <1>1, <1>6 DEF Enqueue, WStep, Counting, TrialTypes
  <2>3. /\ IsFiniteSet(Samples(enqs)')
        /\ Cardinality(Samples(enqs)') = Cardinality(Samples(enqs)) + 1
    BY <1>1, <1>2, <2>1, SampleAdded
  <2> QED BY <1>0, <1>1, <1>2, <1>3, <1>4, <2>1, <2>2, <2>3 DEF ItemsInv
<1>7. CASE PairDequeue(t)
  <2>1. /\ deqs' = [deqs EXCEPT ![t] = @ + 1] /\ items' = items - 1
        /\ enqs' = enqs /\ wpc[t] = "deq"
    BY <1>7 DEF PairDequeue, WStep
  <2>2. conf.workload = "pairs"
    BY <1>0, <2>1 DEF WorkInv
  <2>3. Counting' = Counting
    BY <1>0, <1>1, <1>7 DEF PairDequeue, WStep, Counting, TrialTypes
  <2>4. /\ IsFiniteSet(Samples(deqs)')
        /\ Cardinality(Samples(deqs)') = Cardinality(Samples(deqs)) + 1
    BY <1>1, <1>2, <2>1, SampleAdded
  <2> QED BY <1>0, <1>1, <1>2, <1>3, <1>4, <2>1, <2>2, <2>3, <2>4 DEF ItemsInv
<1>8. CASE TryDequeue(t) /\ items' # items
  <2>1. /\ items' = items - 1 /\ UNCHANGED <<consumed, enqs, deqs>>
        /\ wpc[t] = "try" /\ wpc' = [wpc EXCEPT ![t] = "count"]
    BY <1>8 DEF TryDequeue, WStep
  <2>2. Counting' = Counting \cup {t} /\ t \notin Counting
    BY <1>0, <1>1, <2>1 DEF Counting, TrialTypes
  <2>3. Cardinality(Counting') = Cardinality(Counting) + 1
    BY <1>3, <2>2, FS_AddElement
  <2> QED BY <1>0, <1>1, <1>2, <1>3, <1>4, <2>1, <2>3 DEF ItemsInv
<1>9. CASE Count(t)
  <2>1. /\ consumed' = consumed + 1 /\ items' = items /\ enqs' = enqs
        /\ deqs' = [deqs EXCEPT ![t] = @ + 1]
        /\ wpc[t] = "count" /\ wpc' = [wpc EXCEPT ![t] = "load"]
    BY <1>9 DEF Count, WStep
  <2>2. Counting' = Counting \ {t} /\ t \in Counting
    BY <1>0, <1>1, <2>1 DEF Counting, TrialTypes
  <2>3. Cardinality(Counting') = Cardinality(Counting) - 1
    BY <1>3, <2>2, FS_RemoveElement
  <2>4. /\ IsFiniteSet(Samples(deqs)')
        /\ Cardinality(Samples(deqs)') = Cardinality(Samples(deqs)) + 1
    BY <1>1, <1>2, <2>1, SampleAdded
  <2> QED BY <1>0, <1>1, <1>2, <1>3, <1>4, <2>1, <2>3, <2>4 DEF ItemsInv
<1> QED BY <1>5, <1>6, <1>7, <1>8, <1>9 DEF Worker

\* Every step of the driver and of the workers.
LEMMA TrialKeeps ==
  ASSUME TrialInv, [Next]_vars
  PROVE  TrialInv'
<1>1. ASSUME NEW t \in Workers, Worker(t) PROVE TrialInv'
  BY <1>1, LineKeeps, WorkKeeps, ItemsKeep DEF TrialInv
<1>2. CASE UNCHANGED vars
  BY <1>2 DEF vars, TrialInv, TrialTypes, ConfOK, LineInv, WorkInv, ItemsInv,
    Lined, Counting, Producer, Samples, Workers, Total
<1> QED BY <1>1, <1>2, DriverKeeps DEF Next

-----------------------------------------------------------------------------
(* The theorems.                                                           *)

\* The barrier counts the workers at the start line, and every item of a trial
\* is in the queue, taken and about to be counted, or counted.
THEOREM TrialCorrect == Spec => []TrialInv
BY TrialInit, TrialKeeps, PTL DEF Spec

(* Nobody is in the measured part before every worker has arrived and the  *)
(* driver has let them go, for any number of workers.                      *)
THEOREM StartLineCorrect == Spec => []StartLine
<1>1. TrialInv => StartLine
  <2> SUFFICES ASSUME TrialInv, NEW u \in Workers, wpc[u] \in InBody
               PROVE  /\ driver \in {"join", "done"}
                      /\ \A t \in Workers : wpc[t] \notin {"none", "arrive"}
    BY DEF StartLine
  <2>1. driver \in {"join", "done"} /\ Lined = Workers
    BY DEF TrialInv, LineInv
  <2> QED BY <2>1 DEF Lined
<1> QED BY <1>1, TrialCorrect, PTL

(* A trial that ends has done what it reports: a sample for every          *)
(* operation of ops_total and, unless it only enqueues, an empty queue.    *)
THEOREM AllCountedCorrect == Spec => []AllCounted
<1>1. TrialInv => AllCounted
  <2> SUFFICES ASSUME TrialInv, driver = "done" PROVE AllCounted
    BY DEF AllCounted
  <2>0. TrialTypes /\ LineInv /\ WorkInv /\ ItemsInv /\ ConfOK
    BY DEF TrialInv, TrialTypes
  <2>1. /\ conf.n \in Nat /\ conf.n > 0 /\ conf.producers \in Nat
        /\ conf.producers < conf.n /\ Ops \in Nat /\ Total \in Nat
        /\ conf.workload \in Workloads
        /\ Workers = 0 .. conf.n - 1
    BY <2>0, WorkersAre DEF ConfOK, Workers
  <2>2. \A t \in Workers :
          /\ wpc[t] = "exit" /\ enqs[t] = IF Producer(t) THEN Ops ELSE 0
          /\ ~Producer(t) => consumed >= Total
          /\ conf.workload = "pairs" => enqs[t] = deqs[t]
          /\ conf.workload = "enq" => deqs[t] = 0
    BY <2>0 DEF LineInv, WorkInv, TrialTypes, Producer
  <2>3. Cardinality(Counting) = 0
    <3>1. Counting = {}
      BY <2>2 DEF Counting
    <3> QED BY <3>1, FS_EmptySet
  <2>4. /\ Cardinality(Samples(enqs)) \in Nat /\ Cardinality(Samples(deqs)) \in Nat
        /\ items \in Nat /\ consumed \in Nat
    BY <2>0, FS_CardinalityType DEF ItemsInv, TrialTypes
  <2> DEFINE made == CASE conf.workload \in {"pairs", "enq"} -> conf.n
                       [] conf.workload = "pc" -> conf.producers
                       [] conf.workload = "deq" -> 0
  <2>5. Cardinality(Samples(enqs)) = made * Ops
    <3>1. made \in Nat /\ made <= conf.n
      BY <2>1 DEF Workloads
    <3>2. Even(conf.n, made, Ops, enqs)
      BY <2>1, <2>2 DEF Producer, Workloads, Even
    <3> HIDE DEF made
    <3>3. Cardinality(Table(0 .. conf.n - 1, enqs)) = made * Ops
      BY <2>1, <3>1, <3>2, AllFull
    <3> QED BY <2>1, <3>3 DEF Samples, Table
  <2>6. CASE conf.workload = "pairs"
    <3>1. Even(conf.n, conf.n, Ops, deqs)
      BY <2>1, <2>2, <2>6 DEF Producer, Even
    <3>2. Cardinality(Table(0 .. conf.n - 1, deqs)) = conf.n * Ops
      BY <2>1, <3>1, AllFull
    <3>3. Cardinality(Samples(deqs)) = conf.n * Ops
      BY <2>1, <3>2 DEF Samples, Table
    <3>4. Cardinality(Samples(enqs)) = conf.n * Ops /\ Total = conf.n * Ops
      BY <2>5, <2>6 DEF Total
    <3>5. OpsTotal = Total + Total
      BY <2>1, <2>6 DEF OpsTotal
    <3>6. items = 0
      BY <2>0, <2>3, <2>4, <2>6, <3>3, <3>4 DEF ItemsInv
    <3> QED BY <3>3, <3>4, <3>5, <3>6 DEF AllCounted
  <2>7. CASE conf.workload = "enq"
    <3>1. Samples(deqs) = {}
      BY <2>2, <2>7 DEF Samples
    <3>2. Cardinality(Samples(deqs)) = 0
      BY <3>1, FS_EmptySet
    <3>3. Cardinality(Samples(enqs)) = Total /\ OpsTotal = Total
      BY <2>5, <2>7 DEF Total, OpsTotal
    <3> QED BY <2>1, <2>7, <3>2, <3>3 DEF AllCounted
  <2>8. CASE conf.workload = "deq"
    <3>1. Cardinality(Samples(enqs)) = 0
      BY <2>1, <2>5, <2>8
    <3>2. consumed >= Total /\ consumed = Cardinality(Samples(deqs))
      <4>1. 0 \in Workers /\ ~Producer(0)
        BY <2>1, <2>8 DEF Producer
      <4> QED BY <2>0, <2>2, <2>8, <4>1 DEF ItemsInv
    <3>3. items + Cardinality(Samples(deqs)) = Total
      BY <2>0, <2>1, <2>3, <2>4, <2>8, <3>1 DEF ItemsInv
    <3>4. OpsTotal = Total
      BY <2>8 DEF OpsTotal
    <3> QED BY <2>1, <2>4, <3>1, <3>2, <3>3, <3>4 DEF AllCounted
  <2>9. CASE conf.workload = "pc"
    <3>1. Cardinality(Samples(enqs)) = Total
      BY <2>5, <2>9 DEF Total
    <3>2. consumed >= Total /\ consumed = Cardinality(Samples(deqs))
      <4>1. conf.n - 1 \in Workers /\ ~Producer(conf.n - 1)
        BY <2>1, <2>9 DEF Producer
      <4> QED BY <2>0, <2>2, <2>9, <4>1 DEF ItemsInv
    <3>3. items + Cardinality(Samples(deqs)) = Total
      BY <2>0, <2>1, <2>3, <2>4, <2>9, <3>1 DEF ItemsInv
    <3>4. OpsTotal = Total + Total
      BY <2>1, <2>9 DEF OpsTotal
    <3> QED BY <2>1, <2>4, <3>1, <3>2, <3>3, <3>4 DEF AllCounted
  <2> QED BY <2>1, <2>6, <2>7, <2>8, <2>9 DEF Workloads
<1> QED BY <1>1, TrialCorrect, PTL
=============================================================================

----------------------------- MODULE WeakMemory -----------------------------
(***************************************************************************)
(* The C++11 memory model as far as include/lfq uses it, operationally: a  *)
(* location is the sequence of the writes to it in modification order, and *)
(* each thread has a view, the last write of every location it must not    *)
(* read behind.  Synchronizes-with is the transfer of a view through the   *)
(* write that is read.                                                     *)
(*                                                                         *)
(*   relaxed load   may read any write at or after the thread's view       *)
(*   acquire load   also takes over the view the write carries             *)
(*   release store  carries the thread's view, a relaxed one only what     *)
(*                  the thread's last fence made visible                   *)
(*   RMW            reads the last write and carries its view along (the   *)
(*                  release sequence)                                      *)
(*   seq_cst fence  exchanges the thread's view with that of all earlier   *)
(*                  seq_cst fences                                         *)
(*                                                                         *)
(* Writes are appended, which is exact where, as in this library, only     *)
(* RMWs and one thread's own stores write to a location.  Loads do not     *)
(* read from writes that come later in the run (no load buffering).        *)
(***************************************************************************)
EXTENDS Naturals, Sequences

VARIABLES
  mem,   \* mem[l]: the writes to l, records of a value and a view
  view,  \* view[t]: what t must not read behind
  seen,  \* seen[t]: what t's loads have met; an acquire fence adds it to view
  rel,   \* rel[t]: view[t] at t's last fence
  sc     \* the view all seq_cst fences share

memVars == <<mem, view, seen, rel, sc>>

Join(v, w) == [l \in DOMAIN v |-> IF v[l] >= w[l] THEN v[l] ELSE w[l]]

\* The locations of I have been written once, with their values in I, before
\* the threads of T start.
MemInit(T, L, I) ==
  LET start == [l \in L |-> IF l \in DOMAIN I THEN 1 ELSE 0]
  IN  /\ mem = [l \in L |-> IF l \in DOMAIN I
                            THEN << [val |-> I[l], at |-> start] >>
                            ELSE << >>]
      /\ view = [t \in T |-> start] /\ seen = [t \in T |-> start]
      /\ rel = [t \in T |-> start] /\ sc = start

Newest(l) == mem[l][Len(mem[l])]

\* The writes of l that a load of t may read.
Readable(t, l) == view[t][l] .. Len(mem[l])

\* load(mo) by t, of the i-th write of l.
Load(t, l, i, mo) ==
  /\ i \in Readable(t, l)
  /\ view' = [view EXCEPT ![t] = IF mo = "acquire" THEN Join(@, mem[l][i].at)
                                 ELSE [@ EXCEPT ![l] = i]]
  /\ seen' = [seen EXCEPT ![t] = Join(@, mem[l][i].at)]
  /\ UNCHANGED <<mem, rel, sc>>

\* What the n-th write of l carries when t, with view v, writes it.
Carried(t, v, l, n, mo) ==
  [IF mo = "release" THEN v ELSE rel[t] EXCEPT ![l] = n]

\* store(x, mo) by t.
Store(t, l, x, mo) ==
  LET n == Len(mem[l]) + 1
  IN  /\ mem' = [mem EXCEPT ![l] =
                   Append(@, [val |-> x,
                              at |-> Carried(t, view[t], l, n, mo)])]
      /\ view' = [view EXCEPT ![t][l] = n]
      /\ seen' = [seen EXCEPT ![t][l] = n]
      /\ UNCHANGED <<rel, sc>>

\* exchange, fetch_add or a compare_exchange that succeeds.
Update(t, l, x, mo) ==
  LET n   == Len(mem[l]) + 1
      old == Newest(l).at
      v   == IF mo = "acquire" THEN Join(view[t], old) ELSE view[t]
  IN  /\ mem' = [mem EXCEPT ![l] =
                   Append(@, [val |-> x,
                              at |-> Join(old, Carried(t, v, l, n, mo))])]
      /\ view' = [view EXCEPT ![t] = [v EXCEPT ![l] = n]]
      /\ seen' = [seen EXCEPT ![t] = [Join(@, old) EXCEPT ![l] = n]]
      /\ UNCHANGED <<rel, sc>>

\* atomic_thread_fence(seq_cst).
Fence(t) ==
  LET v == Join(seen[t], sc)
  IN  /\ view' = [view EXCEPT ![t] = v] /\ seen' = [seen EXCEPT ![t] = v]
      /\ rel' = [rel EXCEPT ![t] = v] /\ sc' = v
      /\ UNCHANGED mem
=============================================================================

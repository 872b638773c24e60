----------------------------- MODULE HazardCells -----------------------------
(***************************************************************************)
(* The hazard pointer domain under the most general client that respects   *)
(* its contract: shared cells whose node any thread may replace and then   *)
(* retire, while others protect and use it.  This is what                  *)
(* tests/reclaim_test.cpp and model/hp_model.hpp do with one cell and two  *)
(* threads each; here any number of threads come, use the cells, scan and  *)
(* exit in any order, and freed addresses are allocated again.             *)
(***************************************************************************)
EXTENDS HazardDomain

CONSTANTS Cells,       \* the shared pointers (src in the tests)
          MaxRetired   \* bound on the nodes a run retires

ASSUME CellsAssumption == MaxRetired \in Nat

VARIABLES
  src,      \* the cells
  heap,     \* the nodes that are allocated
  guarded,  \* t has a guard
  cell,     \* the cell t protects from
  hold,     \* hold[t][s]: the pointer protect(s, _) returned to t
  mine      \* the node t has unlinked and not yet retired

clientVars == <<src, heap, guarded, cell, hold, mine>>
vars == <<domainVars, clientVars>>

Holds == [Slots -> Nodes \cup {Null}]

TypeOK ==
  /\ DomainTypeOK
  /\ src \in [Cells -> Nodes \cup {Null}] /\ heap \subseteq Nodes
  /\ guarded \in [Threads -> BOOLEAN]
  /\ cell \in [Threads -> Cells \cup {Null}]
  /\ hold \in [Threads -> Holds]
  /\ mine \in [Threads -> Nodes \cup {Null}]

Init ==
  /\ DomainInit
  /\ src = [c \in Cells |-> Null] /\ heap = {}
  /\ guarded = [t \in Threads |-> FALSE]
  /\ cell = [t \in Threads |-> Null]
  /\ hold = [t \in Threads |-> [s \in Slots |-> Null]]
  /\ mine = [t \in Threads |-> Null]

\* t is between two calls into the domain.
Free(t) == DAt(t, "ready") /\ mine[t] = Null

-----------------------------------------------------------------------------
\* guard g(r): fetches the thread's record, acquiring one on first use.
OpenGuard(t) ==
  /\ Free(t) /\ ~guarded[t]
  /\ guarded' = [guarded EXCEPT ![t] = TRUE]
  /\ \/ rec[t] = 0 /\ AcqStart(t)
     \/ rec[t] # 0 /\ UNCHANGED domainVars
  /\ UNCHANGED <<src, heap, cell, hold, mine>>

\* p = g.protect(s, src): what slot s protected before is given up.
Protect(t, s, c) ==
  /\ Free(t) /\ guarded[t]
  /\ ProtectLoad(t, s, src[c])
  /\ cell' = [cell EXCEPT ![t] = c]
  /\ hold' = [hold EXCEPT ![t][s] = Null]
  /\ UNCHANGED <<src, heap, guarded, mine>>

\* The re-verifying load of protect.
Verify(t) ==
  /\ DAt(t, "verify")
  /\ \/ /\ ProtectReturn(t, src[cell[t]])
        /\ hold' = [hold EXCEPT ![t][k[t]] = ptr[t]]
        /\ cell' = [cell EXCEPT ![t] = Null]
     \/ ProtectRetry(t, src[cell[t]]) /\ UNCHANGED <<hold, cell>>
  /\ UNCHANGED <<src, heap, guarded, mine>>

\* The guard goes out of scope, and the pointers it protected with it.
CloseGuard(t) ==
  /\ Free(t) /\ guarded[t] /\ GuardEnd(t)
  /\ guarded' = [guarded EXCEPT ![t] = FALSE]
  /\ hold' = [hold EXCEPT ![t] = [s \in Slots |-> Null]]
  /\ UNCHANGED <<src, heap, cell, mine>>

\* src.exchange(new node) or src.exchange(nullptr): unlinks the old node.
Replace(t, c) ==
  /\ Free(t)
  /\ retired + Cardinality({u \in Threads : mine[u] # Null}) < MaxRetired
  /\ \E m \in (Nodes \ heap) \cup ({Null} \ {src[c]}) :
       /\ heap' = heap \cup ({m} \ {Null})
       /\ src' = [src EXCEPT ![c] = m]
  /\ mine' = [mine EXCEPT ![t] = src[c]]
  /\ UNCHANGED <<domainVars, guarded, cell, hold>>

\* r.retire(old).
RetireMine(t) ==
  /\ mine[t] # Null /\ Retire(t, mine[t])
  /\ mine' = [mine EXCEPT ![t] = Null]
  /\ UNCHANGED <<src, heap, guarded, cell, hold>>

\* hp_domain::drain() and thread exit, outside any guard.
AskDrain(t) == Free(t) /\ ~guarded[t] /\ Drain(t) /\ UNCHANGED clientVars
Exit(t)     == /\ Free(t) /\ ~guarded[t] /\ (rec[t] # 0 \/ bag[t] # {})
               /\ ThreadExit(t) /\ UNCHANGED clientVars

\* The deleter runs: the address can be allocated again.
Delete(t) ==
  \E m \in Nodes : /\ ScanFree(t, m)
                   /\ heap' = heap \ {m}
                   /\ UNCHANGED <<src, guarded, cell, hold, mine>>

ThreadStep(t) ==
  \/ DomainStep(t) /\ UNCHANGED clientVars
  \/ Delete(t) \/ Verify(t) \/ RetireMine(t)

Next ==
  \E t \in Threads :
    \/ OpenGuard(t) \/ CloseGuard(t) \/ AskDrain(t) \/ Exit(t)
    \/ \E c \in Cells : Replace(t, c) \/ \E s \in Slots : Protect(t, s, c)
    \/ ThreadStep(t)

Spec == Init /\ [][Next]_vars

-----------------------------------------------------------------------------
(* Properties                                                              *)

(* A pointer protect returned stays allocated until the guard gives it up, *)
(* whoever unlinks, retires and scans it meanwhile.                        *)
NoUseAfterFree ==
  \A t \in Threads, s \in Slots : hold[t][s] # Null => hold[t][s] \in heap

Bagged == UNION {bag[t] : t \in Threads}

Linked   == {src[c] : c \in Cells} \ {Null}
Unlinked == {mine[t] : t \in Threads} \ {Null}

(* Nothing is freed twice: a node has one owner, and is in the hands or    *)
(* the bag of one thread.                                                  *)
NothingTwice ==
  /\ Linked \cap (Unlinked \cup Bagged \cup orphans) = {}
  /\ Unlinked \cap (Bagged \cup orphans) = {}
  /\ Bagged \cap orphans = {}
  /\ \A t, u \in Threads : t # u => /\ bag[t] \cap bag[u] = {}
                                    /\ mine[t] = mine[u] => mine[t] = Null

(* Nothing is ever silently dropped either, whatever threads come and go:  *)
(* an allocated node is in a cell, in the hands of the thread that         *)
(* unlinked it, in a bag or on the orphan stack.                           *)
OneOwner ==
  heap = Linked \cup Unlinked \cup Bagged \cup orphans /\ NothingTwice

\* The deletions of scans that have not added them to freed_count_ yet.
Uncounted == UNION {{t} \X (1 .. ndel[t]) : t \in Threads}

(* The books balance: what was retired and not counted as freed is in a    *)
(* bag or on the orphan stack (one of them, by OneOwner), or was deleted   *)
(* by a scan that has yet to add it to the count.                          *)
BooksBalance ==
  retired = freed + Cardinality(Uncounted) + Cardinality(Bagged \cup orphans)

(* A record has one thread, a recycled one too, and a record that is not   *)
(* in use names nothing: its next thread starts with clear slots.          *)
RecordsExclusive ==
  /\ \A t, u \in Threads : rec[t] = rec[u] /\ rec[t] # 0 => t = u
  /\ \A t \in Threads : rec[t] # 0 => rec[t] <= nlinked /\ active[rec[t]]
  /\ \A r \in 1 .. nlinked : ~active[r] => \A s \in Slots : slot[r][s] = Null

(* Records are recycled so well that there are never more of them than     *)
(* threads at the same time, although a thread looking for a released      *)
(* record walks a list that others change behind it.                       *)
RecordsBounded == nrecords <= Cardinality(Threads)

(* The garbage bound: between two calls a thread's bag is below the        *)
(* threshold, whatever it adopted and whatever stayed protected.           *)
BagBounded ==
  \A t \in Threads : DAt(t, "ready") => Cardinality(bag[t]) < scan_threshold
=============================================================================

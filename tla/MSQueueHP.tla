------------------------------ MODULE MSQueueHP ------------------------------
(***************************************************************************)
(* ms_queue<T, hp_reclaimer>: the queue of MSQueue with the guard, protect,*)
(* set and retire of HazardDomain in the places where ms_queue.hpp calls   *)
(* its reclaimer.  Dequeued nodes are really freed, and their addresses    *)
(* are allocated again by later enqueues.                                  *)
(*                                                                         *)
(* A thread executes a step of the queue only when it is between two calls *)
(* into the domain (Ready).  protect takes effect on the queue's locals at *)
(* its last load, the one that verifies; ~guard runs when the operation    *)
(* returns.                                                                *)
(***************************************************************************)
EXTENDS MSQueue, FiniteSets

CONSTANTS K, MaxRecords, ScanMin, ScanFactor,  \* as in HazardDomain
          MaxRetired                           \* bound on dequeued values

ASSUME HPAssumption ==
  /\ IsFiniteSet(Threads)
  /\ K \in Nat /\ K >= 2  \* the queue uses slots 0 and 1
  /\ MaxRecords \in Nat /\ MaxRetired \in Nat
  /\ ScanMin \in Nat \ {0} /\ ScanFactor \in Nat

VARIABLES nlinked, nrecords, active, slot, orphans, retired, freed,
          rec, bag, dpc, cur, k, ptr, hz, ndel, exiting

HP == INSTANCE HazardDomain

domainVars == <<nlinked, nrecords, active, slot, orphans, retired, freed,
                rec, bag, dpc, cur, k, ptr, hz, ndel, exiting>>
hpVars == <<vars, domainVars>>

HPTypeOK == TypeOK /\ HP!DomainTypeOK

HPInit == Init /\ HP!DomainInit

Ready(t) == dpc[t] = "ready"

\* A step of the queue that does not call the reclaimer.
Plain(t) == Ready(t) /\ UNCHANGED domainVars

\* guard_t g(reclaimer_): fetch the thread's record, or acquire one.
OpenGuard(t) ==
  /\ Ready(t)
  /\ \/ rec[t] = 0 /\ HP!AcqStart(t)
     \/ rec[t] # 0 /\ UNCHANGED domainVars

\* g.protect(0, src), whose shared pointer src holds v.
ProtectFrom(t, v) ==
  /\ \/ HP!ProtectLoad(t, 0, v) \/ HP!ProtectRetry(t, v)
  /\ UNCHANGED vars

-----------------------------------------------------------------------------
HPEnq(t) ==
  \/ \E v \in Values : EnqCall(t, v) /\ OpenGuard(t)
  \/ At(t, "enqProtect") /\ ProtectFrom(t, tail_)
  \/ EnqProtect(t) /\ HP!ProtectReturn(t, tail_)
  \/ Plain(t) /\ (EnqNext(t) \/ EnqCheck(t) \/ EnqHelp(t) \/ EnqLink(t)
                    \/ EnqSwing(t))
  \/ EnqReturn(t) /\ HP!GuardEnd(t)

NextNotSet(t) == TRUE  \* Mutant
\* g.set(1, next) is done once slot 1 names next.
NextSet(t) == slot[rec[t]][1] = nx[t]

HPDeq(t) ==
  \/ /\ retired + Cardinality({u \in Threads : pc[u] \in InDeq}) < MaxRetired
     /\ DeqCall(t) /\ OpenGuard(t)
  \/ At(t, "deqProtect") /\ ProtectFrom(t, head_)
  \/ DeqProtect(t) /\ HP!ProtectReturn(t, head_)
  \/ At(t, "deqCheck") /\ ~NextSet(t) /\ HP!SetSlot(t, 1, nx[t])
       /\ UNCHANGED vars
  \/ DeqCheck(t) /\ NextSet(t) /\ Plain(t)
  \/ Plain(t) /\ (DeqTail(t) \/ DeqNext(t) \/ DeqHelp(t) \/ DeqRead(t)
                    \/ DeqSwing(t))
  \/ DeqRetire(t) /\ HP!Retire(t, head[t])
  \/ DeqReturn(t) /\ HP!GuardEnd(t)

\* drain() and thread exit, between two operations.
Outside(t) == At(t, "idle") /\ (HP!Drain(t) \/ HP!ThreadExit(t))
                /\ UNCHANGED vars

\* deleter(m).
Delete(t) ==
  \E m \in Nodes :
    /\ HP!ScanFree(t, m) /\ heap' = heap \ {m}
    /\ UNCHANGED <<head_, tail_, next, value, dtorVars, localVars, chain>>

\* The destructor starts when every operation has returned, guards included.
HPDtor ==
  \/ /\ \A t \in Threads : dpc[t] # "clear"
     /\ DtorStart /\ UNCHANGED domainVars
  \/ DtorStep /\ UNCHANGED domainVars

HPThread(t) ==
  \/ HPEnq(t) \/ HPDeq(t) \/ Outside(t) \/ Delete(t)
  \/ HP!DomainStep(t) /\ UNCHANGED vars

HPNext == (\E t \in Threads : HPThread(t)) \/ HPDtor

HPSpec == HPInit /\ [][HPNext]_hpVars

-----------------------------------------------------------------------------
(* Properties                                                              *)

\* The nodes thread t uses now or compares by address later: those protect
\* returned, and next once head_ has been found unchanged after set.
InUse(t) ==
  CASE pc[t] \in {"enqNext", "enqCheck", "enqHelp", "enqLink", "enqSwing"}
         -> {tail[t]}
    [] pc[t] \in {"deqTail", "deqNext", "deqCheck"} -> {head[t]}
    [] pc[t] \in {"deqHelp", "deqRead", "deqSwing"} -> {head[t], nx[t]}
    [] OTHER -> {}

(* What holds of the queue over leaky_reclaimer holds over hp_reclaimer:   *)
(* the list, its dereferences, its quiescence and its destructor do not    *)
(* notice that nodes are freed and their addresses come back.              *)
StillCorrect == ListInv /\ DerefSafe /\ QuiescedTail /\ DtorInv

(* No node is deleted while an operation holds it, so nothing is used      *)
(* after it is freed and no address an operation compares with is reused   *)
(* under it (ABA).                                                         *)
FreedUnused ==
  [][\A t \in Threads : InUse(t) \cap (heap \ heap') = {}]_hpVars

(* Every node an operation is about to use is allocated.                   *)
UseAllocated == \A t \in Threads : InUse(t) \subseteq heap \cup {Null}

(* No node is lost and none has two owners: until the destructor runs, an  *)
(* allocated node is in the list, private to an enqueue, unlinked by a     *)
(* dequeue about to retire it, in one bag, or an orphan.                   *)
NodesAccounted ==
  LET Private  == {n[t] : t \in {u \in Threads : pc[u] \in PreLink}}
      Unlinked == {head[t] : t \in {u \in Threads : pc[u] = "deqRetire"}}
      Bagged   == UNION {bag[t] : t \in Threads}
      Parts    == <<Live, Private, Unlinked, Bagged, orphans>>
  IN  alive => /\ heap = UNION {Parts[i] : i \in 1 .. 5}
               /\ \A i, j \in 1 .. 5 : i # j => Parts[i] \cap Parts[j] = {}
               /\ \A t, u \in Threads : t # u => bag[t] \cap bag[u] = {}
=============================================================================

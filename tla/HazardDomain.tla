---------------------------- MODULE HazardDomain ----------------------------
(***************************************************************************)
(* hp_domain and hp_reclaimer::guard of include/lfq/hazard_pointer.hpp:    *)
(* the records threads publish hazards in, protect and set, the retire     *)
(* bags, scan, the orphan stack and thread exit.  Every access to memory   *)
(* other threads use is a step of its own; memory is sequentially          *)
(* consistent, so the fences of protect, set and scan have nothing to do.  *)
(*                                                                         *)
(* The module has no next-state relation: its actions take what the client *)
(* reads from its own shared pointers (protect) or hands over (retire),    *)
(* and modules that EXTEND or INSTANCE it say what the client does.  A     *)
(* member of Threads is a slot for one thread at a time; when the thread   *)
(* exits, a later thread may take its place.                               *)
(*                                                                         *)
(* Records are numbered in the order they are linked, so head_ is record   *)
(* nlinked and the next of record r is r - 1, nullptr being 0.  A failed   *)
(* CAS of the push loops of acquire_record and push_orphan only reloads    *)
(* what the next attempt compares with, so those loops are one step each.  *)
(* Bags, orphans and hazards are sets: nothing depends on their order.     *)
(***************************************************************************)
EXTENDS Integers, FiniteSets

CONSTANTS Threads,     \* the threads that can exist at the same time
          Nodes,       \* the pointers that can be retired
          Null,        \* nullptr
          K,           \* kSlots, the hazard slots of a record
          MaxRecords,  \* bound on the records a run can link
          ScanMin,     \* 64 in the code
          ScanFactor   \* 2 * kSlots in the code

ASSUME DomainAssumption ==
  /\ IsFiniteSet(Threads) /\ Null \notin Nodes
  /\ K \in Nat \ {0} /\ MaxRecords \in Nat
  /\ ScanMin \in Nat \ {0} /\ ScanFactor \in Nat

VARIABLES
  nlinked,     \* head_: how many records are linked
  nrecords,    \* nrecords_
  active,      \* record::active
  slot,        \* record::slot
  orphans,     \* orphans_: the nodes on the orphan stack
  retired,     \* retired_count_
  freed,       \* freed_count_
  rec,         \* tl_cache::rec, 0 for nullptr
  bag,         \* tl_cache::bag
  dpc,         \* dpc[t]: the next access of t inside the domain
  cur, k,      \* the record and slot a walk of the list is at
  ptr,         \* protect's p
  hz,          \* scan's hazards
  ndel,        \* scan's local freed
  exiting      \* t is in ~tl_cache

sharedVars == <<nlinked, nrecords, active, slot, orphans, retired, freed>>
threadVars == <<rec, bag, dpc, cur, k, ptr, hz, ndel, exiting>>
domainVars == <<nlinked, nrecords, active, slot, orphans, retired, freed,
                rec, bag, dpc, cur, k, ptr, hz, ndel, exiting>>

Records == 1 .. MaxRecords
Slots   == 0 .. K - 1

DomainLabels == {"ready", "walk", "link", "publish", "verify", "clear",
                 "check", "adopt", "snap", "slots", "free", "orphan",
                 "wipe", "release"}

\* The one type invariant.
DomainTypeOK ==
  /\ nlinked \in 0 .. MaxRecords /\ nrecords \in Nat
  /\ active \in [Records -> BOOLEAN]
  /\ slot \in [Records -> [Slots -> Nodes \cup {Null}]]
  /\ orphans \subseteq Nodes
  /\ retired \in Nat /\ freed \in Nat
  /\ rec \in [Threads -> 0 .. MaxRecords]
  /\ bag \in [Threads -> SUBSET Nodes]
  /\ dpc \in [Threads -> DomainLabels]
  /\ cur \in [Threads -> 0 .. MaxRecords] /\ k \in [Threads -> Slots]
  /\ ptr \in [Threads -> Nodes \cup {Null}]
  /\ hz \in [Threads -> SUBSET Nodes]
  /\ ndel \in [Threads -> Nat]
  /\ exiting \in [Threads -> BOOLEAN]

\* The static members of hp_domain before any thread has used it.
DomainInit ==
  /\ nlinked = 0 /\ nrecords = 0
  /\ active = [r \in Records |-> FALSE]
  /\ slot = [r \in Records |-> [s \in Slots |-> Null]]
  /\ orphans = {} /\ retired = 0 /\ freed = 0
  /\ rec = [t \in Threads |-> 0]
  /\ bag = [t \in Threads |-> {}]
  /\ dpc = [t \in Threads |-> "ready"]
  /\ cur = [t \in Threads |-> 0] /\ k = [t \in Threads |-> 0]
  /\ ptr = [t \in Threads |-> Null]
  /\ hz = [t \in Threads |-> {}]
  /\ ndel = [t \in Threads |-> 0]
  /\ exiting = [t \in Threads |-> FALSE]

DAt(t, l)   == dpc[t] = l
DGoto(t, l) == dpc' = [dpc EXCEPT ![t] = l]

-----------------------------------------------------------------------------
(* local_record and acquire_record                                         *)

\* r = head_.load() when the thread has no record yet.
AcqStart(t) ==
  /\ DAt(t, "ready") /\ rec[t] = 0 /\ DGoto(t, "walk")
  /\ cur' = [cur EXCEPT ![t] = nlinked]
  /\ UNCHANGED <<sharedVars, rec, bag, k, ptr, hz, ndel, exiting>>

AnyRecord(t) == TRUE  \* Mutant
\* active.compare_exchange_strong(false, true) succeeds.
Released(t) == ~active[cur[t]]

\* Recycle the record, or walk on.
AcqTry(t) ==
  /\ DAt(t, "walk") /\ cur[t] # 0
  /\ \/ /\ Released(t)
        /\ active' = [active EXCEPT ![cur[t]] = TRUE]
        /\ rec' = [rec EXCEPT ![t] = cur[t]]
        /\ cur' = [cur EXCEPT ![t] = 0]
        /\ DGoto(t, "ready")
     \/ /\ ~Released(t)
        /\ cur' = [cur EXCEPT ![t] = @ - 1]
        /\ UNCHANGED <<active, rec, dpc>>
  /\ UNCHANGED <<nlinked, nrecords, slot, orphans, retired, freed,
                 bag, k, ptr, hz, ndel, exiting>>

\* new record(), nrecords_.fetch_add(1).
AcqNew(t) ==
  /\ DAt(t, "walk") /\ cur[t] = 0 /\ DGoto(t, "link")
  /\ nrecords < MaxRecords
  /\ nrecords' = nrecords + 1
  /\ UNCHANGED <<nlinked, active, slot, orphans, retired, freed,
                 rec, bag, cur, k, ptr, hz, ndel, exiting>>

\* head_.compare_exchange_weak(h, r): the record is linked, its slots null.
AcqLink(t) ==
  /\ DAt(t, "link") /\ DGoto(t, "ready")
  /\ nlinked' = nlinked + 1
  /\ active' = [active EXCEPT ![nlinked + 1] = TRUE]
  /\ slot' = [slot EXCEPT ![nlinked + 1] = [s \in Slots |-> Null]]
  /\ rec' = [rec EXCEPT ![t] = nlinked + 1]
  /\ UNCHANGED <<nrecords, orphans, retired, freed,
                 bag, cur, k, ptr, hz, ndel, exiting>>

-----------------------------------------------------------------------------
(* guard: protect, set and the destructor                                  *)

\* p = src.load(), where the source holds v.
ProtectLoad(t, s, v) ==
  /\ DAt(t, "ready") /\ rec[t] # 0 /\ DGoto(t, "publish")
  /\ k' = [k EXCEPT ![t] = s]
  /\ ptr' = [ptr EXCEPT ![t] = v]
  /\ UNCHANGED <<sharedVars, rec, bag, cur, hz, ndel, exiting>>

\* rec_->slot[slot].store(p).
ProtectPublish(t) ==
  /\ DAt(t, "publish") /\ DGoto(t, "verify")
  /\ slot' = [slot EXCEPT ![rec[t]][k[t]] = ptr[t]]
  /\ UNCHANGED <<nlinked, nrecords, active, orphans, retired, freed,
                 rec, bag, cur, k, ptr, hz, ndel, exiting>>

Unverified(t, v) == TRUE  \* Mutant
\* q = src.load() finds p again.
Verified(t, v) == v = ptr[t]

\* protect returns p.
ProtectReturn(t, v) ==
  /\ DAt(t, "verify") /\ Verified(t, v) /\ DGoto(t, "ready")
  /\ k' = [k EXCEPT ![t] = 0]
  /\ ptr' = [ptr EXCEPT ![t] = Null]
  /\ UNCHANGED <<sharedVars, rec, bag, cur, hz, ndel, exiting>>

\* Another pointer was found, and is tried next.
ProtectRetry(t, v) ==
  /\ DAt(t, "verify") /\ ~Verified(t, v) /\ DGoto(t, "publish")
  /\ ptr' = [ptr EXCEPT ![t] = v]
  /\ UNCHANGED <<sharedVars, rec, bag, cur, k, hz, ndel, exiting>>

\* set(s, v) publishes only; validating is left to the caller.
SetSlot(t, s, v) ==
  /\ DAt(t, "ready") /\ rec[t] # 0
  /\ slot' = [slot EXCEPT ![rec[t]][s] = v]
  /\ UNCHANGED <<nlinked, nrecords, active, orphans, retired, freed,
                 threadVars>>

PastEnd == K  \* Mutant
LastSlot == K - 1

\* Store nullptr to the slots of t's record, one after the other, then go on.
ClearSlot(t, from, to) ==
  /\ DAt(t, from)
  /\ slot' = [slot EXCEPT ![rec[t]][k[t]] = Null]
  /\ k' = [k EXCEPT ![t] = IF @ = LastSlot THEN 0 ELSE @ + 1]
  /\ DGoto(t, IF k[t] = LastSlot THEN to ELSE from)
  /\ UNCHANGED <<nlinked, nrecords, active, orphans, retired, freed,
                 rec, bag, cur, ptr, hz, ndel, exiting>>

\* ~guard begins.
GuardEnd(t) ==
  /\ DAt(t, "ready") /\ rec[t] # 0 /\ DGoto(t, "clear")
  /\ UNCHANGED <<sharedVars, rec, bag, cur, k, ptr, hz, ndel, exiting>>

GuardClear(t) == ClearSlot(t, "clear", "ready")

-----------------------------------------------------------------------------
(* retire and scan                                                         *)

scan_threshold == LET limit == ScanFactor * nrecords
                  IN  IF limit > ScanMin THEN limit ELSE ScanMin

\* bag.push_back and retired_count_.fetch_add(1).
Retire(t, m) ==
  /\ DAt(t, "ready") /\ DGoto(t, "check")
  /\ bag' = [bag EXCEPT ![t] = @ \cup {m}]
  /\ retired' = retired + 1
  /\ UNCHANGED <<nlinked, nrecords, active, slot, orphans, freed,
                 rec, cur, k, ptr, hz, ndel, exiting>>

Overfull(t) == Cardinality(bag[t]) > scan_threshold  \* Mutant
Full(t) == Cardinality(bag[t]) >= scan_threshold

\* if (bag.size() >= scan_threshold()) scan(bag).
RetireCheck(t) ==
  /\ DAt(t, "check") /\ DGoto(t, IF Full(t) THEN "adopt" ELSE "ready")
  /\ UNCHANGED <<sharedVars, rec, bag, cur, k, ptr, hz, ndel, exiting>>

\* drain(): a scan the client asks for.
Drain(t) ==
  /\ DAt(t, "ready") /\ DGoto(t, "adopt")
  /\ UNCHANGED <<sharedVars, rec, bag, cur, k, ptr, hz, ndel, exiting>>

\* Where scan returns to: the end of ~tl_cache's scan, or retire or drain.
AfterScan(t) == IF exiting[t] THEN "orphan" ELSE "ready"

OnlyLoaded == orphans  \* Mutant
\* orphans_.exchange(nullptr) leaves nothing behind.
Exchanged == {}

\* adopt_orphans: one exchange takes the whole stack; an empty bag is done.
ScanAdopt(t) ==
  /\ DAt(t, "adopt")
  /\ bag' = [bag EXCEPT ![t] = @ \cup orphans]
  /\ orphans' = Exchanged
  /\ DGoto(t, IF bag[t] \cup orphans = {} THEN AfterScan(t) ELSE "snap")
  /\ UNCHANGED <<nlinked, nrecords, active, slot, retired, freed,
                 rec, cur, k, ptr, hz, ndel, exiting>>

\* r = head_.load(): records linked from here on are not looked at.
ScanStart(t) ==
  /\ DAt(t, "snap")
  /\ cur' = [cur EXCEPT ![t] = nlinked]
  /\ DGoto(t, IF nlinked = 0 THEN "free" ELSE "slots")
  /\ UNCHANGED <<sharedVars, rec, bag, k, ptr, hz, ndel, exiting>>

\* Read one slot into the snapshot and move on, over the slots, then down
\* the list.
ScanSlot(t) ==
  /\ DAt(t, "slots")
  /\ hz' = [hz EXCEPT ![t] = @ \cup ({slot[cur[t]][k[t]]} \ {Null})]
  /\ LET last == k[t] = LastSlot
     IN  /\ k' = [k EXCEPT ![t] = IF last THEN 0 ELSE @ + 1]
         /\ cur' = [cur EXCEPT ![t] = IF last THEN @ - 1 ELSE @]
         /\ DGoto(t, IF last /\ cur[t] = 1 THEN "free" ELSE "slots")
  /\ UNCHANGED <<sharedVars, rec, bag, ptr, ndel, exiting>>

\* deleter(m) for a node of the bag that no hazard of the snapshot names.
ScanFree(t, m) ==
  /\ DAt(t, "free") /\ m \in bag[t] \ hz[t]
  /\ bag' = [bag EXCEPT ![t] = @ \ {m}]
  /\ ndel' = [ndel EXCEPT ![t] = @ + 1]
  /\ UNCHANGED <<sharedVars, rec, dpc, cur, k, ptr, hz, exiting>>

KeptToo(t) == ndel[t] + Cardinality(bag[t])  \* Mutant
FreedNow(t) == ndel[t]

\* The rest is kept; freed_count_.fetch_add(freed).
ScanEnd(t) ==
  /\ DAt(t, "free") /\ bag[t] \subseteq hz[t]
  /\ freed' = freed + FreedNow(t)
  /\ ndel' = [ndel EXCEPT ![t] = 0]
  /\ hz' = [hz EXCEPT ![t] = {}]
  /\ DGoto(t, AfterScan(t))
  /\ UNCHANGED <<nlinked, nrecords, active, slot, orphans, retired,
                 rec, bag, cur, k, ptr, exiting>>

-----------------------------------------------------------------------------
(* ~tl_cache, when the thread exits                                        *)

\* Scan first if the bag has anything in it.
ThreadExit(t) ==
  /\ DAt(t, "ready")
  /\ exiting' = [exiting EXCEPT ![t] = TRUE]
  /\ DGoto(t, IF bag[t] # {} THEN "adopt" ELSE "orphan")
  /\ UNCHANGED <<sharedVars, rec, bag, cur, k, ptr, hz, ndel>>

Dropped(m) == orphans  \* Mutant
Pushed(m) == orphans \cup {m}

\* push_orphan for a node that is still protected.
PushOrphan(t, m) ==
  /\ DAt(t, "orphan") /\ m \in bag[t]
  /\ orphans' = Pushed(m)
  /\ bag' = [bag EXCEPT ![t] = @ \ {m}]
  /\ UNCHANGED <<nlinked, nrecords, active, slot, retired, freed,
                 rec, dpc, cur, k, ptr, hz, ndel, exiting>>

\* The bag is empty; a thread that never had a record is gone.
OrphansDone(t) ==
  /\ DAt(t, "orphan") /\ bag[t] = {}
  /\ DGoto(t, IF rec[t] # 0 THEN "wipe" ELSE "ready")
  /\ exiting' = [exiting EXCEPT ![t] = rec[t] # 0]
  /\ UNCHANGED <<sharedVars, rec, bag, cur, k, ptr, hz, ndel>>

ExitClear(t) == ClearSlot(t, "wipe", "release")

StaysActive == TRUE  \* Mutant
Inactive == FALSE

\* active.store(false): the record can be recycled and the thread is gone.
ReleaseRecord(t) ==
  /\ DAt(t, "release") /\ DGoto(t, "ready")
  /\ active' = [active EXCEPT ![rec[t]] = Inactive]
  /\ rec' = [rec EXCEPT ![t] = 0]
  /\ exiting' = [exiting EXCEPT ![t] = FALSE]
  /\ UNCHANGED <<nlinked, nrecords, slot, orphans, retired, freed,
                 bag, cur, k, ptr, hz, ndel>>

-----------------------------------------------------------------------------
\* The steps a thread takes inside the domain without the client's data.
DomainStep(t) ==
  \/ AcqTry(t) \/ AcqNew(t) \/ AcqLink(t)
  \/ ProtectPublish(t) \/ GuardClear(t)
  \/ RetireCheck(t) \/ ScanAdopt(t) \/ ScanStart(t) \/ ScanSlot(t)
  \/ ScanEnd(t)
  \/ \E m \in Nodes : PushOrphan(t, m)
  \/ OrphansDone(t) \/ ExitClear(t) \/ ReleaseRecord(t)
=============================================================================

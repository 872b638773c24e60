----------------------------- MODULE HazardFence -----------------------------
(***************************************************************************)
(* The hazard pointer protocol under WeakMemory.  model/hp_model.hpp has   *)
(* one protector, one retirer and one slot; here there are any number of   *)
(* each, and the parts of hp_domain it leaves out that carry an ordering:  *)
(* the second slot, which set() publishes and a load of src validates, the *)
(* link of a record that a scan must not miss, the bag with several nodes, *)
(* and the orphan stack through which an exiting thread hands it over.     *)
(*                                                                         *)
(* src is the head_ of a queue over nodes 1, 2, ... that are linked        *)
(* already, so the node after v is v + 1 and an unlink moves src by one.   *)
(***************************************************************************)
EXTENDS WeakMemory, FiniteSets, SequencesExt

CONSTANTS NProtectors, Retirers,
          Plans  \* what the threads may set out to do, see PlanType

Protectors == 1 .. NProtectors

\* The guards each protector opens, who goes on to set() the successor and
\* who exits at the end; the nodes each retirer unlinks and who calls drain()
\* first.  A thread with nothing to do does not take part.  Plans bounds a
\* run, and each run follows one of them.
PlanType == [rounds : [Protectors -> Nat], dequeuers : SUBSET Protectors,
             leavers : SUBSET Protectors, unlinks : [Retirers -> Nat],
             drainers : SUBSET Retirers]

ASSUME FenceAssumption ==
  NProtectors \in Nat /\ Protectors \cap Retirers = {} /\ Plans \subseteq PlanType

VARIABLES
  plan,    \* the plan this run follows
  pc,      \* pc[t]: t's next step
  rec,     \* p's record, named after the protector that linked it
  walk,    \* the records acquire_record has yet to try
  ptr,     \* p of protect, head of try_dequeue
  rounds,  \* guards p has opened
  used,    \* used[p]: p's last access to each node it has accessed
  unl,     \* nodes r has unlinked
  bag, todo, hz, exiting,  \* as in HazardDomain; todo: slots yet to read
  freed    \* the nodes that were deleted

protVars == <<rec, walk, ptr, rounds, used>>
retVars  == <<unl, bag, todo, hz, exiting, freed>>
vars == <<memVars, plan, pc, protVars, retVars>>

Threads == Protectors \cup Retirers
nullptr == 0

\* The locations.
src      == 1
head_    == 2             \* the records, most recently linked first
orphans_ == 3
Slot(q, s) == 4 * q + s   \* slot s of record q
Clock(p)   == 4 * p + 2   \* p's accesses to nodes; nobody reads it
Active(q)  == 4 * q + 3   \* record::active, TRUE as 1
Locs     == 1 .. 4 * NProtectors + 3

Init ==
  /\ plan \in Plans
  /\ MemInit(Threads, Locs,
       [l \in Locs \ {Clock(p) : p \in Protectors} |->
          CASE l = src      -> 1
            [] l = head_    -> << >>
            [] l = orphans_ -> {}
            [] l \in {Active(q) : q \in Protectors} -> 1
            [] OTHER        -> nullptr])
  /\ pc = [t \in Threads |->
            IF t \in Protectors
              THEN IF plan.rounds[t] > 0 THEN "start" ELSE "done"
              ELSE IF t \in plan.drainers THEN "adopt"
              ELSE IF plan.unlinks[t] > 0 THEN "ready" ELSE "done"]
  /\ rec = [p \in Protectors |-> 0]
  /\ walk = [p \in Protectors |-> << >>]
  /\ ptr = [p \in Protectors |-> nullptr]
  /\ rounds = [p \in Protectors |-> 0]
  /\ used = [p \in Protectors |-> << >>]
  /\ unl = [r \in Retirers |-> 0]
  /\ bag = [r \in Retirers |-> {}] /\ hz = [r \in Retirers |-> {}]
  /\ todo = [r \in Retirers |-> << >>]
  /\ exiting = [r \in Retirers |-> FALSE] /\ freed = {}

At(t, l)   == pc[t] = l
Goto(t, l) == pc' = [pc EXCEPT ![t] = l]

-----------------------------------------------------------------------------
(* The fences and orderings the argument rests on                          *)

UnfencedScan(t) == UNCHANGED memVars  \* Mutant: hp_missing_scan_fence
scan_fence(t) == Fence(t)

RelaxedClear == "relaxed"  \* Mutant
clear_mo == "release"

RelaxedRecycle == "relaxed"  \* Mutant
recycle_mo == "acquire"

-----------------------------------------------------------------------------
(* The protector: acquire_record, protect(0, src), set(1, next), ~guard    *)

\* acquire_record: r = head_.load(acquire).
PWalk(p) ==
  /\ At(p, "start") /\ Goto(p, "walk")
  /\ \E i \in Readable(p, head_) :
       /\ Load(p, head_, i, "acquire")
       /\ walk' = [walk EXCEPT ![p] = mem[head_][i].val]
  /\ UNCHANGED <<rec, ptr, rounds, used, retVars>>

\* p has record q and opens its first guard.
Acquired(p, q) ==
  /\ rec' = [rec EXCEPT ![p] = q]
  /\ walk' = [walk EXCEPT ![p] = << >>]
  /\ rounds' = [rounds EXCEPT ![p] = 1]
  /\ Goto(p, "load") /\ UNCHANGED <<ptr, used, retVars>>

\* active.compare_exchange_strong(false, true) recycles the record, or reads
\* true and the walk goes on.
PRecycle(p) ==
  /\ At(p, "walk") /\ walk[p] # << >>
  /\ LET a == Active(Head(walk[p]))
     IN  \/ /\ Newest(a).val = 0 /\ Update(p, a, 1, recycle_mo)
            /\ Acquired(p, Head(walk[p]))
         \/ /\ \E i \in Readable(p, a) : mem[a][i].val = 1
            /\ walk' = [walk EXCEPT ![p] = Tail(@)]
            /\ UNCHANGED <<memVars, pc, rec, ptr, rounds, used, retVars>>

\* A new record is pushed; a scan finds its slots from here on.
PLink(p) ==
  /\ At(p, "walk") /\ walk[p] = << >>
  /\ Update(p, head_, <<p>> \o Newest(head_).val, "release")
  /\ Acquired(p, p)

\* p = src.load(relaxed).
PLoad(p) ==
  /\ At(p, "load") /\ Goto(p, "publish")
  /\ \E i \in Readable(p, src) : /\ Load(p, src, i, "relaxed")
                                 /\ ptr' = [ptr EXCEPT ![p] = mem[src][i].val]
  /\ UNCHANGED <<rec, walk, rounds, used, retVars>>

PPublish(p) ==
  /\ At(p, "publish") /\ Goto(p, "fence")
  /\ Store(p, Slot(rec[p], 0), ptr[p], "release")
  /\ UNCHANGED <<protVars, retVars>>

PFence(p) ==
  /\ At(p, "fence") /\ Goto(p, "verify") /\ Fence(p)
  /\ UNCHANGED <<protVars, retVars>>

\* q = src.load(acquire): return p, or publish q.
PVerify(p) ==
  /\ At(p, "verify")
  /\ \E i \in Readable(p, src) :
       /\ Load(p, src, i, "acquire")
       /\ Goto(p, IF mem[src][i].val = ptr[p] THEN "deref" ELSE "publish")
       /\ ptr' = [ptr EXCEPT ![p] = mem[src][i].val]
  /\ UNCHANGED <<rec, walk, rounds, used, retVars>>

\* p accesses the nodes of N.
Access(p, N) ==
  /\ Store(p, Clock(p), nullptr, "relaxed")
  /\ used' = [used EXCEPT ![p] =
                [n \in N \cup DOMAIN @ |->
                   IF n \in N THEN view[p][Clock(p)] + 1 ELSE @[n]]]

\* next = p->next.load(): the protected node is read.
PDeref(p) ==
  /\ At(p, "deref") /\ Access(p, {ptr[p]})
  /\ Goto(p, IF p \in plan.dequeuers THEN "set" ELSE "clear0")
  /\ UNCHANGED <<rec, walk, ptr, rounds, retVars>>

Successor(p) == ptr[p] + 1

\* set(1, next) and its fence.
PSet(p) ==
  /\ At(p, "set") /\ Goto(p, "setfence")
  /\ Store(p, Slot(rec[p], 1), Successor(p), "release")
  /\ UNCHANGED <<protVars, retVars>>

PSetFence(p) ==
  /\ At(p, "setfence") /\ Goto(p, "validate") /\ Fence(p)
  /\ UNCHANGED <<protVars, retVars>>

\* if (head != head_.load(acquire)) continue.
PValidate(p) ==
  /\ At(p, "validate")
  /\ \E i \in Readable(p, src) :
       /\ Load(p, src, i, "acquire")
       /\ Goto(p, IF mem[src][i].val = ptr[p] THEN "use" ELSE "load")
  /\ UNCHANGED <<protVars, retVars>>

\* value = next->value.
PUse(p) ==
  /\ At(p, "use") /\ Goto(p, "clear0") /\ Access(p, {ptr[p], Successor(p)})
  /\ UNCHANGED <<rec, walk, ptr, rounds, retVars>>

\* ~guard, one slot after the other; the thread may open another guard.
PClear(p) ==
  /\ \/ /\ At(p, "clear0") /\ Goto(p, "clear1")
        /\ Store(p, Slot(rec[p], 0), nullptr, clear_mo)
        /\ UNCHANGED <<ptr, rounds>>
     \/ /\ At(p, "clear1")
        /\ Store(p, Slot(rec[p], 1), nullptr, clear_mo)
        /\ ptr' = [ptr EXCEPT ![p] = nullptr]
        /\ \/ /\ rounds[p] < plan.rounds[p] /\ Goto(p, "load")
              /\ rounds' = [rounds EXCEPT ![p] = @ + 1]
           \/ /\ rounds[p] = plan.rounds[p] /\ UNCHANGED rounds
              /\ Goto(p, IF p \in plan.leavers THEN "wipe0" ELSE "done")
  /\ UNCHANGED <<rec, walk, used, retVars>>

\* ~tl_cache with nothing in the bag: clear again, active.store(false).
PLeave(p) ==
  /\ \/ /\ At(p, "wipe0") /\ Goto(p, "wipe1")
        /\ Store(p, Slot(rec[p], 0), nullptr, "release")
     \/ /\ At(p, "wipe1") /\ Goto(p, "release")
        /\ Store(p, Slot(rec[p], 1), nullptr, "release")
     \/ /\ At(p, "release") /\ Goto(p, "done")
        /\ Store(p, Active(rec[p]), 0, "release")
  /\ UNCHANGED <<protVars, retVars>>

-----------------------------------------------------------------------------
(* The retirer: unlink, retire, scan, ~tl_cache                            *)

\* The head_ CAS of a dequeue, and bag.push_back of the node it unlinked;
\* the bag may or may not have reached the threshold.
RUnlink(r) ==
  /\ At(r, "ready") /\ unl[r] < plan.unlinks[r]
  /\ Goto(r, "ready") \/ Goto(r, "adopt")
  /\ Update(r, src, Newest(src).val + 1, "release")
  /\ bag' = [bag EXCEPT ![r] = @ \cup {Newest(src).val}]
  /\ unl' = [unl EXCEPT ![r] = @ + 1]
  /\ UNCHANGED <<protVars, todo, hz, exiting, freed>>

\* ~tl_cache begins.
RExit(r) ==
  /\ At(r, "ready")
  /\ Goto(r, IF bag[r] # {} THEN "adopt" ELSE "done")
  /\ exiting' = [exiting EXCEPT ![r] = TRUE]
  /\ UNCHANGED <<memVars, protVars, unl, bag, todo, hz, freed>>

\* orphans_.exchange(nullptr, acquire); a drain that finds nothing returns.
SAdopt(r) ==
  /\ At(r, "adopt")
  /\ Goto(r, IF bag[r] \cup Newest(orphans_).val = {} THEN "ready"
             ELSE "scanfence")
  /\ Update(r, orphans_, {}, "acquire")
  /\ bag' = [bag EXCEPT ![r] = @ \cup Newest(orphans_).val]
  /\ UNCHANGED <<protVars, unl, todo, hz, exiting, freed>>

SFence(r) ==
  /\ At(r, "scanfence") /\ Goto(r, "snap") /\ scan_fence(r)
  /\ UNCHANGED <<protVars, retVars>>

\* head_.load(acquire): the slots of the records it finds, in list order.
SWalk(r) ==
  /\ At(r, "snap")
  /\ \E i \in Readable(r, head_) :
       /\ Load(r, head_, i, "acquire")
       /\ Goto(r, IF mem[head_][i].val = << >> THEN "free" ELSE "slots")
       /\ LET recs == mem[head_][i].val
          IN  todo' = [todo EXCEPT ![r] =
                [j \in 1 .. 2 * Len(recs) |->
                   Slot(recs[(j + 1) \div 2], (j + 1) % 2)]]
  /\ UNCHANGED <<protVars, unl, bag, hz, exiting, freed>>

\* s.load(acquire) into the snapshot.
SSlot(r) ==
  /\ At(r, "slots")
  /\ LET l == Head(todo[r])
     IN  \E i \in Readable(r, l) :
           /\ Load(r, l, i, "acquire")
           /\ hz' = [hz EXCEPT ![r] = @ \cup ({mem[l][i].val} \ {nullptr})]
  /\ todo' = [todo EXCEPT ![r] = Tail(@)]
  /\ Goto(r, IF Len(todo[r]) = 1 THEN "free" ELSE "slots")
  /\ UNCHANGED <<protVars, unl, bag, exiting, freed>>

\* The deleters run, for what the snapshot does not name; the rest is kept.
SFree(r) ==
  /\ At(r, "free")
  /\ freed' = freed \cup (bag[r] \ hz[r])
  /\ bag' = [bag EXCEPT ![r] = @ \cap hz[r]]
  /\ hz' = [hz EXCEPT ![r] = {}]
  /\ Goto(r, IF ~exiting[r] THEN "ready"
             ELSE IF bag[r] \cap hz[r] = {} THEN "done" ELSE "orphan")
  /\ UNCHANGED <<memVars, protVars, unl, todo, exiting>>

\* push_orphan for a node the exit scan had to keep.
ROrphan(r) ==
  /\ At(r, "orphan")
  /\ Goto(r, IF Cardinality(bag[r]) = 1 THEN "done" ELSE "orphan")
  /\ \E n \in bag[r] :
       /\ Update(r, orphans_, Newest(orphans_).val \cup {n}, "release")
       /\ bag' = [bag EXCEPT ![r] = @ \ {n}]
  /\ UNCHANGED <<protVars, unl, todo, hz, exiting, freed>>

-----------------------------------------------------------------------------
Protector(p) ==
  \/ PWalk(p) \/ PRecycle(p) \/ PLink(p) \/ PLoad(p) \/ PPublish(p)
  \/ PFence(p) \/ PVerify(p) \/ PDeref(p) \/ PSet(p) \/ PSetFence(p)
  \/ PValidate(p) \/ PUse(p) \/ PClear(p) \/ PLeave(p)

Retirer(r) ==
  \/ RUnlink(r) \/ RExit(r) \/ SAdopt(r) \/ SFence(r)
  \/ SWalk(r) \/ SSlot(r) \/ SFree(r) \/ ROrphan(r)

Next ==
  /\ \/ \E p \in Protectors : Protector(p)
     \/ \E r \in Retirers : Retirer(r)
  /\ UNCHANGED plan

Spec == Init /\ [][Next]_vars

-----------------------------------------------------------------------------
(* Properties                                                              *)

(* The protocol's promise: a node protect has verified, and the successor  *)
(* that set published before src was validated, are not freed when they    *)
(* are read, although every load may be stale.                             *)
UseSafe ==
  \A p \in Protectors :
    /\ At(p, "deref") => ptr[p] \notin freed
    /\ At(p, "use") => {ptr[p], Successor(p)} \cap freed = {}

\* The slot p's next step stores to.
Target(p) == CASE pc[p] \in {"publish", "clear0", "wipe0"} -> Slot(rec[p], 0)
               [] pc[p] \in {"set", "clear1", "wipe1"}     -> Slot(rec[p], 1)
               [] OTHER                                    -> 0

(* The thread that recycles a record writes its slots after the thread     *)
(* that released it: no earlier clear can come later in modification order *)
(* and wipe out the new owner's hazard.                                    *)
StoresInOrder ==
  \A p \in Protectors :
    Target(p) # 0 => view[p][Target(p)] = Len(mem[Target(p)])

(* A free happens after the reads of the node that came before it: the     *)
(* scan that found a slot cleared, or naming something else, has the       *)
(* protector's accesses in its view.                                       *)
FreeHappensAfter ==
  \A r \in Retirers : At(r, "free") =>
    \A p \in Protectors : \A n \in (bag[r] \ hz[r]) \cap DOMAIN used[p] :
      used[p][n] <= view[r][Clock(p)]
=============================================================================

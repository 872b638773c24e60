--------------------------- MODULE HazardFenceInv ---------------------------
(***************************************************************************)
(* The inductive invariant behind UseSafe, FreeHappensAfter and            *)
(* StoresInOrder: what the views of WeakMemory have to do with each other, *)
(* and what a hazard that was fenced means for every scan.                 *)
(***************************************************************************)
EXTENDS HazardFence

Slots  == {Slot(q, s) : q \in Protectors, s \in {0, 1}}
Clocks == {Clock(p) : p \in Protectors}
Values == Nat \cup Seq(Protectors) \cup SUBSET Nat
Views  == [Locs -> Nat]
Writes == [val : Values, at : Views]

Below(v, w) == \A l \in Locs : v[l] <= w[l]

\* View v goes no further than memory m does, and whoever has a write to a
\* slot in view has what the write carries: slots are only read with acquire.
Sound(m, v) ==
  /\ v \in Views
  /\ \A l \in Locs : v[l] <= Len(m[l]) /\ (l \notin Clocks => v[l] >= 1)
  /\ \A l \in Slots : \A i \in 1 .. v[l] : Below(m[l][i].at, v)

MemInv ==
  /\ mem \in [Locs -> Seq(Writes)]
  /\ view \in [Threads -> Views] /\ seen \in [Threads -> Views]
  /\ rel \in [Threads -> Views]
  /\ \A l \in Locs : \A i \in 1 .. Len(mem[l]) :
       Sound(mem, mem[l][i].at) /\ mem[l][i].at[l] = i
  /\ \A t \in Threads :
       /\ Sound(mem, view[t]) /\ Sound(mem, seen[t]) /\ Sound(mem, rel[t])
       /\ Below(rel[t], view[t]) /\ Below(view[t], seen[t])
  /\ Sound(mem, sc)

PLabels == {"start", "walk", "load", "publish", "fence", "verify", "deref",
            "set", "setfence", "validate", "use", "clear0", "clear1",
            "wipe0", "wipe1", "release", "done"}
RLabels == {"ready", "adopt", "scanfence", "snap", "slots", "free", "orphan",
            "done"}

TypeInv ==
  /\ plan \in Plans
  /\ pc \in [Threads -> PLabels \cup RLabels]
  /\ \A p \in Protectors : pc[p] \in PLabels
  /\ \A r \in Retirers : pc[r] \in RLabels
  /\ rec \in [Protectors -> 0 .. NProtectors]
  /\ walk \in [Protectors -> Seq(Protectors)]
  /\ ptr \in [Protectors -> Nat] /\ DOMAIN used = Protectors
  /\ bag \in [Retirers -> SUBSET Nat] /\ hz \in [Retirers -> SUBSET Values]
  /\ todo \in [Retirers -> Seq(Slots)] /\ freed \in SUBSET Nat

\* The i-th write to src links node i; head_ only ever gains records; the
\* orphans were unlinked before they were pushed.
CellInv ==
  /\ \A i \in 1 .. Len(mem[src]) : mem[src][i].val = i
  /\ \A i \in 1 .. Len(mem[head_]) : mem[head_][i].val \in Seq(Protectors)
  /\ \A i, j \in 1 .. Len(mem[head_]) :
       i <= j => Range(mem[head_][i].val) \subseteq Range(mem[head_][j].val)
  /\ \A i \in 1 .. Len(mem[orphans_]) :
       mem[orphans_][i].val \in SUBSET (Nat \ {0})
  /\ \A n \in Newest(orphans_).val : Newest(orphans_).at[src] > n

\* Whoever has view v finds record q in the list.
Linked(q, v) == q \in Range(mem[head_][v[head_]].val)

\* Record q is p's.
Owns(p, q) == /\ q \in Protectors /\ rec[p] = q
              /\ ~(pc[p] = "done" /\ p \in plan.leavers)

\* Before p has a record nobody else links one with its name; what it walks
\* past is in the list.
WalkAt(p) ==
  /\ pc[p] \in {"start", "walk"} => rec[p] = 0
  /\ pc[p] \notin {"start", "walk", "done"} => rec[p] # 0
  /\ rec[p] = 0 => p \notin Range(Newest(head_).val)
  /\ \A q \in Range(walk[p]) : Linked(q, view[p])

\* A record nobody has linked has not been written to, and what released one
\* carries all writes to its slots.
SpareAt(q) ==
  /\ q \notin Range(Newest(head_).val) =>
       /\ Newest(Active(q)).val = 1
       /\ \A s \in {0, 1} : Len(mem[Slot(q, s)]) = 1
  /\ Newest(Active(q)).val # 1 =>
       \A s \in {0, 1} : Newest(Active(q)).at[Slot(q, s)] = Len(mem[Slot(q, s)])

\* The owner of a record is the only one, and has all writes to its slots in
\* view.
OwnAt(p, q) ==
  /\ Linked(q, view[p]) /\ Newest(Active(q)).val = 1
  /\ \A s \in {0, 1} : view[p][Slot(q, s)] = Len(mem[Slot(q, s)])
  /\ \A o \in Protectors : Owns(o, q) => o = p

RecInv == /\ \A p \in Protectors : WalkAt(p)
          /\ \A q \in Protectors : SpareAt(q)
          /\ \A p, q \in Protectors : Owns(p, q) => OwnAt(p, q)

Scanning(r) == pc[r] \in {"snap", "slots", "free"}

\* A bag's nodes were unlinked in its owner's view, and in everybody's whose
\* fence comes after that of the scan.
BagInv ==
  /\ \A r \in Retirers : \A n \in bag[r] :
       /\ n >= 1 /\ view[r][src] > n
       /\ Scanning(r) => sc[src] > n
  /\ \A n \in freed : sc[src] > n
  /\ \A r \in Retirers : pc[r] = "slots" => todo[r] # << >>

\* The k-th write of slot s of record q named n, and a fence came after it:
\* no scan with n in its bag misses it; the scan keeps n, or has met a later
\* write to the slot.
Fenced(n, q, s, k) ==
  LET l == Slot(q, s)
  IN  /\ n \in Nat \ {0} /\ k \in 1 .. Len(mem[l]) /\ mem[l][k].val = n
      /\ sc[l] >= k /\ Linked(q, sc)
      /\ \A r \in Retirers : n \in bag[r] =>
           /\ Scanning(r) => view[r][l] >= k
           /\ pc[r] = "snap" => Linked(q, view[r])
           /\ pc[r] = "slots" => \/ n \in hz[r] \/ view[r][l] > k
                                 \/ l \in Range(todo[r])
           /\ pc[r] = "free" => n \in hz[r] \/ view[r][l] > k

\* Slot s of p's record names n, which is not freed as long as it does.
Holds(p, s, n) ==
  Fenced(n, rec[p], s, Len(mem[Slot(rec[p], s)])) /\ n \notin freed

Names(p, s, n) == Newest(Slot(rec[p], s)).val = n

\* The verifying load of protect, and the validating one after set, cannot
\* succeed unless the hazard is fenced.
HoldAt(p) ==
  /\ pc[p] \in {"publish", "fence", "verify", "deref", "set", "setfence",
                "validate", "use"} => ptr[p] # 0
  /\ pc[p] = "fence" => Names(p, 0, ptr[p])
  /\ pc[p] = "verify" => view[p][src] > ptr[p] \/ Holds(p, 0, ptr[p])
  /\ pc[p] \in {"deref", "set", "setfence", "validate", "use"} =>
       Holds(p, 0, ptr[p])
  /\ pc[p] = "setfence" => Names(p, 1, Successor(p))
  /\ pc[p] = "validate" => view[p][src] > ptr[p] \/ Holds(p, 1, Successor(p))
  /\ pc[p] = "use" => Holds(p, 1, Successor(p))
  /\ pc[p] \in {"wipe0", "wipe1", "release"} => p \in plan.leavers
  /\ pc[p] \in {"wipe1", "release"} => Names(p, 0, nullptr)
  /\ pc[p] = "release" => Names(p, 1, nullptr)

HoldInv == \A p \in Protectors : HoldAt(p)

\* p's last access to n was made under a hazard for n that p still has, or
\* that was replaced by a write that carries the access.
Covered(p, n, q, s, k) ==
  /\ Fenced(n, q, s, k)
  /\ \/ Owns(p, q) /\ k = Len(mem[Slot(q, s)])
     \/ /\ k < Len(mem[Slot(q, s)])
        /\ mem[Slot(q, s)][k + 1].at[Clock(p)] >= used[p][n]

AccessAt(p) ==
  /\ view[p][Clock(p)] = Len(mem[Clock(p)])
  /\ \A n \in DOMAIN used[p] :
       /\ used[p][n] \in 0 .. view[p][Clock(p)]
       /\ \E q \in Protectors, s \in {0, 1} :
            \E k \in 1 .. Len(mem[Slot(q, s)]) : Covered(p, n, q, s, k)

AccessInv == \A p \in Protectors : AccessAt(p)

FenceInv == /\ MemInv /\ TypeInv /\ CellInv /\ RecInv /\ BagInv /\ HoldInv
            /\ AccessInv
=============================================================================

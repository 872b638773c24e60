------------------------- MODULE HazardFence_proofs -------------------------
(***************************************************************************)
(* Machine-checked proofs about the hazard pointer protocol under          *)
(* WeakMemory, for any number of protectors and retirers and any plans.    *)
(***************************************************************************)
EXTENDS HazardFenceInv, TLAPS

-----------------------------------------------------------------------------
(* Locations                                                               *)

\* The locations are different from each other.
LEMMA LocFacts ==
  /\ NProtectors \in Nat /\ Protectors = 1 .. NProtectors
  /\ src \in Locs /\ head_ \in Locs /\ orphans_ \in Locs
  /\ src # head_ /\ src # orphans_ /\ head_ # orphans_
  /\ \A q \in Protectors : /\ Clock(q) \in Locs /\ Active(q) \in Locs
                           /\ q # 0 /\ q \in Nat
  /\ Slots \subseteq Locs /\ Clocks \subseteq Locs /\ Slots \cap Clocks = {}
  /\ {src, head_, orphans_} \cap (Slots \cup Clocks) = {}
BY FenceAssumption DEF Protectors, Locs, src, head_, orphans_, Slot, Clock,
     Active, Slots, Clocks

\* Slots are locations of their own, and no two are the same.
LEMMA SlotFacts ==
  ASSUME NEW q \in Protectors, NEW s \in {0, 1}
  PROVE  /\ Slot(q, s) \in Slots /\ Slot(q, s) \in Locs
         /\ Slot(q, s) \notin Clocks
         /\ \A p \in Protectors : Slot(q, s) # Clock(p) /\ Slot(q, s) # Active(p)
         /\ Slot(q, s) # src /\ Slot(q, s) # head_ /\ Slot(q, s) # orphans_
         /\ Slot(q, s) # 0
         /\ \A o \in Protectors, u \in {0, 1} :
              Slot(q, s) = Slot(o, u) => q = o /\ s = u
BY FenceAssumption DEF Protectors, Locs, src, head_, orphans_, Slot, Clock,
     Active, Slots, Clocks

\* So are the active flags,
LEMMA ActiveFacts ==
  ASSUME NEW q \in Protectors
  PROVE  /\ Active(q) \in Locs /\ Active(q) \notin Clocks \cup Slots
         /\ Active(q) # src /\ Active(q) # head_ /\ Active(q) # orphans_
         /\ \A o \in Protectors : Active(q) = Active(o) => q = o
BY FenceAssumption DEF Protectors, Locs, src, head_, orphans_, Slot, Clock,
     Active, Slots, Clocks

\* and the clocks.
LEMMA ClockFacts ==
  ASSUME NEW q \in Protectors
  PROVE  /\ Clock(q) \in Locs /\ Clock(q) \in Clocks /\ Clock(q) \notin Slots
         /\ Clock(q) # src /\ Clock(q) # head_ /\ Clock(q) # orphans_
         /\ \A o \in Protectors : Clock(q) # Active(o)
         /\ \A o \in Protectors : Clock(q) = Clock(o) => q = o
BY FenceAssumption DEF Protectors, Locs, src, head_, orphans_, Slot, Clock,
     Active, Slots, Clocks

-----------------------------------------------------------------------------
(* Memory and views                                                        *)

\* What Append does to a sequence.
LEMMA Appended ==
  ASSUME NEW S, NEW w \in Seq(S), NEW e \in S
  PROVE  /\ Append(w, e) \in Seq(S) /\ Len(Append(w, e)) = Len(w) + 1
         /\ Len(w) \in Nat
         /\ \A i \in 1 .. Len(w) : Append(w, e)[i] = w[i]
         /\ Append(w, e)[Len(w) + 1] = e
OBVIOUS

\* The join of two views is their least upper bound.
LEMMA JoinFacts ==
  ASSUME NEW v \in Views, NEW w \in Views
  PROVE  /\ Join(v, w) \in Views /\ Below(v, Join(v, w)) /\ Below(w, Join(v, w))
         /\ \A l \in Locs : Join(v, w)[l] \in {v[l], w[l]}
BY DEF Views, Below, Join

\* The order on views is transitive.
LEMMA BelowTrans ==
  ASSUME NEW v \in Views, NEW w \in Views, NEW x \in Views,
         Below(v, w), Below(w, x)
  PROVE  Below(v, x)
BY DEF Views, Below

Memories == [Locs -> Seq(Writes)]

\* Memory n is memory m after some more writes.
Extends(m, n) ==
  \A l \in Locs : /\ Len(m[l]) <= Len(n[l])
                  /\ \A i \in 1 .. Len(m[l]) : n[l][i] = m[l][i]

\* Sound views stay sound when memory grows.
LEMMA SoundGrows ==
  ASSUME NEW m \in Memories, NEW n \in Memories, Extends(m, n), NEW v,
         Sound(m, v)
  PROVE  Sound(n, v)
<1>1. Slots \subseteq Locs
  BY LocFacts
<1>2. \A l \in Locs : Len(m[l]) \in Nat /\ Len(n[l]) \in Nat
  BY DEF Memories
<1>3. v \in Views /\ \A l \in Locs : v[l] \in Nat
  BY DEF Sound, Views
<1>4. ASSUME NEW l \in Slots, NEW i \in 1 .. v[l]
      PROVE  Below(n[l][i].at, v)
  <2>1. i \in 1 .. Len(m[l])
    BY <1>1, <1>2, <1>3 DEF Sound
  <2>2. n[l][i] = m[l][i]
    BY <1>1, <2>1 DEF Extends
  <2> QED BY <2>2 DEF Sound
<1>5. \A l \in Locs : v[l] <= Len(n[l]) /\ (l \notin Clocks => v[l] >= 1)
  BY <1>2, <1>3 DEF Sound, Extends
<1> QED BY <1>3, <1>4, <1>5 DEF Sound

\* The join of sound views is sound.
LEMMA SoundJoin ==
  ASSUME NEW m \in Memories, NEW v, NEW w, Sound(m, v), Sound(m, w),
         \A l \in Locs : \A i \in 1 .. Len(m[l]) : m[l][i].at \in Views
  PROVE  Sound(m, Join(v, w))
<1>1. v \in Views /\ w \in Views
  BY DEF Sound
<1>2. /\ Join(v, w) \in Views /\ Below(v, Join(v, w)) /\ Below(w, Join(v, w))
      /\ \A l \in Locs : Join(v, w)[l] \in {v[l], w[l]}
  BY <1>1, JoinFacts
<1>3. \A l \in Locs : Len(m[l]) \in Nat /\ v[l] \in Nat /\ w[l] \in Nat
  BY <1>1 DEF Memories, Views
<1>4. Slots \subseteq Locs
  BY LocFacts
<1>5. ASSUME NEW l \in Slots, NEW i \in 1 .. Join(v, w)[l]
      PROVE  Below(m[l][i].at, Join(v, w))
  <2>1. i \in 1 .. v[l] \/ i \in 1 .. w[l]
    BY <1>2, <1>3, <1>4
  <2>2. m[l][i].at \in Views
    BY <1>3, <1>4, <2>1 DEF Sound
  <2>3. CASE i \in 1 .. v[l]
    BY <1>1, <1>2, <2>2, <2>3, BelowTrans DEF Sound
  <2>4. CASE i \in 1 .. w[l]
    BY <1>1, <1>2, <2>2, <2>4, BelowTrans DEF Sound
  <2> QED BY <2>1, <2>3, <2>4
<1>6. \A l \in Locs : /\ Join(v, w)[l] <= Len(m[l])
                      /\ l \notin Clocks => Join(v, w)[l] >= 1
  BY <1>2, <1>3 DEF Sound
<1> QED BY <1>2, <1>5, <1>6 DEF Sound

\* A sound view may run ahead at a location that is not a slot.
LEMMA SoundAhead ==
  ASSUME NEW m \in Memories, NEW v, Sound(m, v),
         NEW l \in Locs \ Slots, NEW i \in Nat, v[l] <= i, i <= Len(m[l]),
         \A k \in Locs : \A j \in 1 .. Len(m[k]) : m[k][j].at \in Views
  PROVE  Sound(m, [v EXCEPT ![l] = i])
<1> DEFINE w == [v EXCEPT ![l] = i]
<1>1. v \in Views /\ w \in Views /\ Below(v, w)
  BY DEF Sound, Views, Below
<1>2. \A k \in Locs : Len(m[k]) \in Nat /\ v[k] \in Nat /\ w[k] \in Nat
  BY <1>1 DEF Memories, Views
<1>3. Slots \subseteq Locs
  BY LocFacts
<1>4. \A k \in Slots : w[k] = v[k]
  BY <1>1, <1>3 DEF Views
<1>5. ASSUME NEW k \in Slots, NEW j \in 1 .. w[k]
      PROVE  Below(m[k][j].at, w)
  <2>1. j \in 1 .. v[k] /\ j \in 1 .. Len(m[k])
    BY <1>2, <1>3, <1>4 DEF Sound
  <2> QED BY <1>1, <1>3, <2>1, BelowTrans DEF Sound
<1>6. \A k \in Locs : w[k] <= Len(m[k]) /\ (k \notin Clocks => w[k] >= 1)
  BY <1>1, <1>2 DEF Sound, Views
<1> QED BY <1>1, <1>5, <1>6 DEF Sound

\* A write extends memory, and the view that has it stays sound.  To a slot
\* writes only who has all earlier writes to it in view.
LEMMA SoundWrite ==
  ASSUME NEW m \in Memories, NEW v, Sound(m, v), NEW l \in Locs,
         NEW w \in Writes, NEW n \in Memories,
         n = [m EXCEPT ![l] = Append(@, w)],
         l \in Slots => /\ v[l] = Len(m[l])
                        /\ Below(w.at, [v EXCEPT ![l] = Len(m[l]) + 1]),
         \A k \in Locs : \A j \in 1 .. Len(m[k]) : m[k][j].at \in Views
  PROVE  Sound(n, [v EXCEPT ![l] = Len(m[l]) + 1])
<1> DEFINE N == Len(m[l]) + 1
           x == [v EXCEPT ![l] = N]
<1>1. /\ m[l] \in Seq(Writes) /\ Len(m[l]) \in Nat /\ n[l] = Append(m[l], w)
      /\ \A k \in Locs : k # l => n[k] = m[k]
  BY DEF Memories
<1>2. /\ Len(n[l]) = N /\ n[l][N] = w
      /\ \A i \in 1 .. Len(m[l]) : n[l][i] = m[l][i]
  BY <1>1, Appended
<1>3. \A k \in Locs : Len(m[k]) \in Nat /\ v[k] \in Nat
  BY DEF Memories, Sound, Views
<1>4. Extends(m, n)
  BY <1>1, <1>2, <1>3 DEF Extends
<1>5. Sound(n, v)
  BY <1>4, SoundGrows
<1>6. v \in Views /\ x \in Views /\ Below(v, x) /\ x[l] = N
      /\ \A k \in Locs : k # l => x[k] = v[k]
  BY <1>1, <1>3 DEF Sound, Views, Below
<1>7. \A k \in Locs : x[k] <= Len(n[k]) /\ (k \notin Clocks => x[k] >= 1)
  BY <1>1, <1>2, <1>3, <1>5, <1>6 DEF Sound
<1>8. ASSUME NEW k \in Slots, NEW i \in 1 .. x[k]
      PROVE  Below(n[k][i].at, x)
  <2>1. k \in Locs
    BY LocFacts
  <2>2. CASE k # l
    <3>1. i \in 1 .. v[k] /\ i \in 1 .. Len(m[k]) /\ n[k] = m[k]
      BY <1>1, <1>3, <1>6, <2>1, <2>2 DEF Sound
    <3>2. Below(m[k][i].at, v) /\ m[k][i].at \in Views
      BY <2>1, <3>1 DEF Sound
    <3> QED BY <1>6, <3>1, <3>2, BelowTrans
  <2>3. CASE k = l /\ i <= Len(m[l])
    <3>1. i \in 1 .. v[k] /\ i \in 1 .. Len(m[k]) /\ n[k][i] = m[k][i]
      BY <1>1, <1>2, <1>3, <1>6, <2>1, <2>3 DEF Sound
    <3>2. Below(m[k][i].at, v) /\ m[k][i].at \in Views
      BY <2>1, <3>1 DEF Sound
    <3> QED BY <1>6, <3>1, <3>2, BelowTrans
  <2>4. CASE k = l /\ i > Len(m[l])
    <3>1. i = N
      BY <1>1, <1>6, <2>4
    <3> QED BY <1>2, <2>4, <3>1
  <2> QED BY <1>1, <1>6, <2>2, <2>3, <2>4
<1> QED BY <1>6, <1>7, <1>8 DEF Sound

\* No view ever shrinks, and nothing that was written is lost.
Later ==
  /\ Extends(mem, mem') /\ Below(sc, sc')
  /\ \A t \in Threads : Below(view[t], view'[t])

\* The types the steps of memory rest on.
LEMMA MemTypes ==
  ASSUME MemInv
  PROVE  /\ mem \in Memories /\ sc \in Views
         /\ \A t \in Threads : /\ view[t] \in Views /\ seen[t] \in Views
                               /\ rel[t] \in Views
         /\ \A l \in Locs : /\ mem[l] \in Seq(Writes) /\ Len(mem[l]) \in Nat
                            /\ l \notin Clocks => Len(mem[l]) >= 1
         /\ \A l \in Locs : \A i \in 1 .. Len(mem[l]) :
              mem[l][i] \in Writes /\ mem[l][i].at \in Views
<1>1. mem \in Memories /\ sc \in Views
  BY DEF MemInv, Memories, Sound
<1>2. \A l \in Locs : /\ mem[l] \in Seq(Writes) /\ Len(mem[l]) \in Nat
  BY <1>1 DEF Memories
<1>3. ASSUME NEW l \in Locs, l \notin Clocks PROVE Len(mem[l]) >= 1
  <2>1. Sound(mem, sc)
    BY DEF MemInv
  <2>2. sc[l] \in Nat /\ sc[l] >= 1 /\ sc[l] <= Len(mem[l])
    BY <1>1, <1>3, <2>1 DEF Sound, Views
  <2> QED BY <1>2, <2>2
<1>4. ASSUME NEW l \in Locs, NEW i \in 1 .. Len(mem[l])
      PROVE  mem[l][i] \in Writes /\ mem[l][i].at \in Views
  <2>1. mem[l] \in Seq(Writes) /\ Len(mem[l]) \in Nat
    BY <1>2
  <2>2. mem[l][i] \in Writes
    BY <2>1
  <2> QED BY <2>2 DEF Writes
<1>5. \A t \in Threads : /\ view[t] \in Views /\ seen[t] \in Views
                         /\ rel[t] \in Views
  BY DEF MemInv
<1> QED BY <1>1, <1>2, <1>3, <1>4, <1>5

\* load
LEMMA LoadStep ==
  ASSUME MemInv, NEW t \in Threads, NEW l \in Locs \ Clocks, NEW i, NEW mo,
         Load(t, l, i, mo), mo = "acquire" \/ l \notin Slots
  PROVE  /\ MemInv' /\ Later /\ mem' = mem /\ sc' = sc
         /\ i \in 1 .. Len(mem[l]) /\ view[t][l] <= i /\ view'[t][l] = i
         /\ \A u \in Threads : u # t => view'[u] = view[u]
         /\ mo = "acquire" => Below(mem[l][i].at, view'[t])
<1> DEFINE a == mem[l][i].at
<1>1. /\ i \in view[t][l] .. Len(mem[l])
      /\ mem' = mem /\ rel' = rel /\ sc' = sc
      /\ view' = [view EXCEPT ![t] = IF mo = "acquire" THEN Join(@, a)
                                     ELSE [@ EXCEPT ![l] = i]]
      /\ seen' = [seen EXCEPT ![t] = Join(@, a)]
  BY DEF Load, Readable
<1>2. /\ mem \in Memories /\ view[t] \in Views /\ seen[t] \in Views
      /\ sc \in Views /\ Len(mem[l]) \in Nat
      /\ \A k \in Locs : \A j \in 1 .. Len(mem[k]) : mem[k][j].at \in Views
      /\ \A u \in Threads : view[u] \in Views
  BY MemTypes
<1>3. Sound(mem, view[t]) /\ Sound(mem, seen[t])
  BY DEF MemInv
<1>4. i \in 1 .. Len(mem[l]) /\ view[t][l] <= i /\ view[t][l] \in Nat
  BY <1>1, <1>2, <1>3 DEF Sound, Views
<1>5. a \in Views /\ Sound(mem, a) /\ a[l] = i
  BY <1>2, <1>4 DEF MemInv
<1>6. Sound(mem, Join(seen[t], a))
  BY <1>2, <1>3, <1>5, SoundJoin
<1>7. view \in [Threads -> Views] /\ seen \in [Threads -> Views]
      /\ rel \in [Threads -> Views]
  BY DEF MemInv
<1>8. /\ Below(seen[t], Join(seen[t], a)) /\ Below(a, Join(seen[t], a))
      /\ Join(seen[t], a) \in Views
  BY <1>2, <1>5, JoinFacts
<1>9. /\ view'[t] \in Views /\ Sound(mem, view'[t]) /\ Below(view[t], view'[t])
      /\ view'[t][l] = i /\ (mo = "acquire" => Below(a, view'[t]))
      /\ Below(view'[t], Join(seen[t], a))
  <2>1. CASE mo = "acquire"
    <3>1. view'[t] = Join(view[t], a)
      BY <1>1, <1>7, <2>1
    <3>2. Sound(mem, Join(view[t], a))
      BY <1>2, <1>3, <1>5, SoundJoin
    <3>3. /\ Below(view[t], Join(view[t], a)) /\ Below(a, Join(view[t], a))
          /\ Join(view[t], a) \in Views
          /\ \A k \in Locs : Join(view[t], a)[k] \in {view[t][k], a[k]}
      BY <1>2, <1>5, JoinFacts
    <3>4. Join(view[t], a)[l] = i
      BY <1>2, <1>4, <1>5, <3>3 DEF Below, Views
    <3>5. Below(view[t], Join(seen[t], a))
      BY <1>2, <1>8, BelowTrans DEF MemInv
    <3>6. Below(Join(view[t], a), Join(seen[t], a))
      BY <1>8, <3>3, <3>5 DEF Below
    <3> QED BY <3>1, <3>2, <3>3, <3>4, <3>6
  <2>2. CASE mo # "acquire"
    <3>1. view'[t] = [view[t] EXCEPT ![l] = i]
      BY <1>1, <1>7, <2>2
    <3>2. Sound(mem, [view[t] EXCEPT ![l] = i])
      BY <1>2, <1>3, <1>4, <2>2, SoundAhead
    <3>3. /\ [view[t] EXCEPT ![l] = i] \in Views
          /\ Below(view[t], [view[t] EXCEPT ![l] = i])
          /\ [view[t] EXCEPT ![l] = i][l] = i
      BY <1>2, <1>4 DEF Views, Below
    <3>4. Below(view[t], Join(seen[t], a))
      BY <1>2, <1>8, BelowTrans DEF MemInv
    <3>5. Below([view[t] EXCEPT ![l] = i], Join(seen[t], a))
      BY <1>2, <1>5, <1>8, <3>4 DEF Below, Views
    <3> QED BY <2>2, <3>1, <3>2, <3>3, <3>5
  <2> QED BY <2>1, <2>2
<1>10. /\ \A u \in Threads : u # t => view'[u] = view[u] /\ seen'[u] = seen[u]
       /\ seen'[t] = Join(seen[t], a)
       /\ view' \in [Threads -> Views] /\ seen' \in [Threads -> Views]
  <2>1. \A u \in Threads : u # t => view'[u] = view[u] /\ seen'[u] = seen[u]
    BY <1>1, <1>7
  <2>2. seen'[t] = Join(seen[t], a)
    BY <1>1, <1>7
  <2>3. view' \in [Threads -> Views]
    <3>1. DOMAIN view' = Threads /\ view' = [u \in Threads |-> view'[u]]
      BY <1>1, <1>7
    <3>2. \A u \in Threads : view'[u] \in Views
      BY <1>2, <1>9, <2>1
    <3> QED BY <3>1, <3>2
  <2>4. seen' \in [Threads -> Views]
    BY <1>1, <1>7, <1>8
  <2> QED BY <2>1, <2>2, <2>3, <2>4
<1>11. \A v \in Views : Below(v, v)
  BY DEF Below, Views
<1>12. Later
  BY <1>1, <1>2, <1>9, <1>10, <1>11 DEF Later, Extends
<1>13. Below(rel[t], view'[t])
  BY <1>2, <1>9, MemTypes, BelowTrans DEF MemInv
<1>14. ASSUME NEW u \in Threads
       PROVE  /\ Sound(mem, view'[u]) /\ Sound(mem, seen'[u])
              /\ Sound(mem, rel'[u])
              /\ Below(rel'[u], view'[u]) /\ Below(view'[u], seen'[u])
  <2>1. CASE u = t
    BY <1>1, <1>6, <1>9, <1>10, <1>13, <2>1 DEF MemInv
  <2>2. CASE u # t
    BY <1>1, <1>10, <2>2 DEF MemInv
  <2> QED BY <2>1, <2>2
<1>15. MemInv'
  BY <1>1, <1>7, <1>10, <1>14 DEF MemInv
<1> QED BY <1>1, <1>4, <1>9, <1>10, <1>12, <1>15

\* What a write to l does to memory.
Written(t, l, w) ==
  /\ Len(mem'[l]) = Len(mem[l]) + 1 /\ mem'[l][Len(mem[l]) + 1] = w
  /\ \A i \in 1 .. Len(mem[l]) : mem'[l][i] = mem[l][i]
  /\ \A k \in Locs : k # l => mem'[k] = mem[k]
  /\ \A u \in Threads : u # t => view'[u] = view[u]
  /\ sc' = sc

\* A write that carries a sound view, by a thread whose new views are sound.
LEMMA WriteStep ==
  ASSUME MemInv, NEW t \in Threads, NEW l \in Locs, NEW w \in Writes,
         NEW v, NEW s,
         mem' = [mem EXCEPT ![l] = Append(@, w)],
         view' = [view EXCEPT ![t] = v], seen' = [seen EXCEPT ![t] = s],
         rel' = rel, sc' = sc,
         Sound(mem', w.at), w.at[l] = Len(mem[l]) + 1,
         Sound(mem', v), Sound(mem', s), Below(view[t], v), Below(v, s)
  PROVE  MemInv' /\ Later /\ Written(t, l, w) /\ view'[t] = v
<1>1. /\ mem \in Memories /\ mem[l] \in Seq(Writes) /\ Len(mem[l]) \in Nat
      /\ mem \in [Locs -> Seq(Writes)] /\ sc \in Views
      /\ \A u \in Threads : view[u] \in Views
      /\ rel[t] \in Views
  BY MemTypes DEF Memories
<1>2. /\ Append(mem[l], w) \in Seq(Writes)
      /\ Len(Append(mem[l], w)) = Len(mem[l]) + 1
      /\ \A i \in 1 .. Len(mem[l]) : Append(mem[l], w)[i] = mem[l][i]
      /\ Append(mem[l], w)[Len(mem[l]) + 1] = w
  BY <1>1, Appended
<1>3. /\ mem' \in [Locs -> Seq(Writes)] /\ mem'[l] = Append(mem[l], w)
      /\ \A k \in Locs : k # l => mem'[k] = mem[k]
  BY <1>1, <1>2
<1>4. mem' \in Memories
  BY <1>3 DEF Memories
<1>5. Extends(mem, mem')
  BY <1>1, <1>2, <1>3, MemTypes DEF Extends
<1>6. view \in [Threads -> Views] /\ seen \in [Threads -> Views]
      /\ rel \in [Threads -> Views]
  BY DEF MemInv
<1>7. v \in Views /\ s \in Views
  BY DEF Sound
<1>8. /\ view'[t] = v /\ seen'[t] = s
      /\ \A u \in Threads : u # t => view'[u] = view[u] /\ seen'[u] = seen[u]
      /\ view' \in [Threads -> Views] /\ seen' \in [Threads -> Views]
  BY <1>6, <1>7
<1>9. \A x \in Views : Below(x, x)
  BY DEF Below, Views
<1>10. Later
  BY <1>1, <1>5, <1>8, <1>9 DEF Later
<1>11. Written(t, l, w)
  BY <1>2, <1>3, <1>8 DEF Written
<1>12. \A x : Sound(mem, x) => Sound(mem', x)
  BY <1>1, <1>4, <1>5, SoundGrows
<1>13. ASSUME NEW k \in Locs, NEW i \in 1 .. Len(mem'[k])
       PROVE  Sound(mem', mem'[k][i].at) /\ mem'[k][i].at[k] = i
  <2>1. CASE k = l /\ i = Len(mem[l]) + 1
    BY <1>2, <1>3, <2>1
  <2>2. CASE ~(k = l /\ i = Len(mem[l]) + 1)
    <3>1. i \in 1 .. Len(mem[k]) /\ mem'[k][i] = mem[k][i]
      BY <1>1, <1>2, <1>3, <2>2
    <3>2. Sound(mem, mem[k][i].at) /\ mem[k][i].at[k] = i
      BY <3>1 DEF MemInv
    <3> QED BY <1>12, <3>1, <3>2
  <2> QED BY <2>1, <2>2
<1>14. Below(rel[t], v)
  <2>1. Below(rel[t], view[t])
    BY DEF MemInv
  <2> QED BY <1>1, <1>7, <2>1, BelowTrans
<1>15. ASSUME NEW u \in Threads
       PROVE  /\ Sound(mem', view'[u]) /\ Sound(mem', seen'[u])
              /\ Sound(mem', rel'[u])
              /\ Below(rel'[u], view'[u]) /\ Below(view'[u], seen'[u])
  <2>0. Sound(mem, rel[u])
    BY DEF MemInv
  <2>1. CASE u = t
    BY <1>8, <1>12, <1>14, <2>0, <2>1
  <2>2. CASE u # t
    BY <1>8, <1>12, <2>2 DEF MemInv
  <2> QED BY <2>1, <2>2
<1>16. Sound(mem', sc')
  BY <1>12 DEF MemInv
<1>17. MemInv'
  BY <1>3, <1>6, <1>8, <1>13, <1>15, <1>16 DEF MemInv
<1> QED BY <1>8, <1>10, <1>11, <1>17

\* What a store does.
Stored(t, l, x, mo) ==
  \E w \in Writes : /\ Written(t, l, w) /\ w.val = x
                    /\ mo = "release" => w.at = view'[t]

\* store
LEMMA StoreStep ==
  ASSUME MemInv, NEW t \in Threads, NEW l \in Locs, NEW x \in Values, NEW mo,
         Store(t, l, x, mo),
         l \in Slots => mo = "release" /\ view[t][l] = Len(mem[l])
  PROVE  /\ MemInv' /\ Later /\ Stored(t, l, x, mo)
         /\ view'[t] = [view[t] EXCEPT ![l] = Len(mem[l]) + 1]
<1> DEFINE N == Len(mem[l]) + 1
           b == IF mo = "release" THEN view[t] ELSE rel[t]
           w == [val |-> x, at |-> [b EXCEPT ![l] = N]]
           v == [view[t] EXCEPT ![l] = N]
           s == [seen[t] EXCEPT ![l] = N]
<1>1. /\ mem \in Memories /\ Len(mem[l]) \in Nat /\ N \in Nat
      /\ view[t] \in Views /\ seen[t] \in Views /\ rel[t] \in Views
      /\ \A k \in Locs : \A j \in 1 .. Len(mem[k]) : mem[k][j].at \in Views
      /\ mem[l] \in Seq(Writes)
  BY MemTypes
<1>2. /\ Sound(mem, view[t]) /\ Sound(mem, seen[t]) /\ Sound(mem, rel[t])
      /\ Below(view[t], seen[t])
  BY DEF MemInv
<1>3. b \in Views /\ Sound(mem, b)
  BY <1>1, <1>2
<1>4. v \in Views /\ s \in Views /\ [b EXCEPT ![l] = N] \in Views
  BY <1>1, <1>3 DEF Views
<1>5. w \in Writes /\ w.val = x /\ w.at = [b EXCEPT ![l] = N]
  BY <1>4 DEF Writes
<1>6. /\ mem' = [mem EXCEPT ![l] = Append(@, w)]
      /\ view' = [view EXCEPT ![t] = v] /\ seen' = [seen EXCEPT ![t] = s]
      /\ rel' = rel /\ sc' = sc
  <2>1. view \in [Threads -> Views] /\ seen \in [Threads -> Views]
    BY DEF MemInv
  <2> QED BY <2>1 DEF Store, Carried
<1>7. mem' \in Memories
  <2>1. Append(mem[l], w) \in Seq(Writes)
    BY <1>1, <1>5, Appended
  <2> QED BY <1>1, <1>6, <2>1 DEF Memories
<1>8. Below(view[t], v) /\ Below(v, s)
  BY <1>1, <1>2 DEF Below, Views, Sound
<1>9. l \in Slots => /\ view[t][l] = Len(mem[l]) /\ seen[t][l] = Len(mem[l])
                     /\ w.at = v
  BY <1>1, <1>2, <1>5 DEF Sound, Below, Views
<1>10. \A y \in Views : Below(y, y)
  BY DEF Below, Views
<1> HIDE DEF w, b
<1>11. Sound(mem', v)
  BY <1>1, <1>2, <1>4, <1>5, <1>6, <1>7, <1>9, <1>10, SoundWrite
<1>12. Sound(mem', s)
  BY <1>1, <1>2, <1>4, <1>5, <1>6, <1>7, <1>8, <1>9, SoundWrite
<1>13. Sound(mem', w.at)
  <2>1. CASE l \in Slots
    BY <1>9, <1>11, <2>1
  <2>2. CASE l \notin Slots
    <3>1. Sound(mem', [b EXCEPT ![l] = Len(mem[l]) + 1])
      BY <1>1, <1>3, <1>5, <1>6, <1>7, <2>2, SoundWrite
    <3> QED BY <1>5, <3>1
  <2> QED BY <2>1, <2>2
<1>14. w.at[l] = N
  BY <1>1, <1>3, <1>5 DEF Views
<1>15. MemInv' /\ Later /\ Written(t, l, w) /\ view'[t] = v
  <2>1. w \in Writes
    BY <1>5
  <2> HIDE DEF v, s
  <2> QED BY <2>1, <1>6, <1>8, <1>11, <1>12, <1>13, <1>14, WriteStep
<1>16. mo = "release" => w.at = v
  BY <1>5 DEF b
<1> QED BY <1>5, <1>15, <1>16 DEF Stored

\* What a read-modify-write does.
Updated(t, l, x, mo) ==
  \E w \in Writes : /\ Written(t, l, w) /\ w.val = x
                    /\ Below(Newest(l).at, w.at)
                    /\ mo = "release" => Below(view[t], w.at)

\* A read-modify-write.
LEMMA UpdateStep ==
  ASSUME MemInv, NEW t \in Threads, NEW l \in Locs \ (Slots \cup Clocks),
         NEW x \in Values, NEW mo, Update(t, l, x, mo)
  PROVE  /\ MemInv' /\ Later /\ Updated(t, l, x, mo)
         /\ view'[t][l] = Len(mem[l]) + 1
         /\ mo = "acquire" => Below(Newest(l).at, view'[t])
         /\ mo # "acquire" =>
              \A k \in Locs : k # l => view'[t][k] = view[t][k]
<1> DEFINE N == Len(mem[l]) + 1
           old == Newest(l).at
           y == IF mo = "acquire" THEN Join(view[t], old) ELSE view[t]
           b == IF mo = "release" THEN y ELSE rel[t]
           c == [b EXCEPT ![l] = N]
           w == [val |-> x, at |-> Join(old, c)]
           v == [y EXCEPT ![l] = N]
           s == [Join(seen[t], old) EXCEPT ![l] = N]
<1>1. /\ mem \in Memories /\ Len(mem[l]) \in Nat /\ N \in Nat
      /\ view[t] \in Views /\ seen[t] \in Views /\ rel[t] \in Views
      /\ \A k \in Locs : \A j \in 1 .. Len(mem[k]) : mem[k][j].at \in Views
      /\ mem[l] \in Seq(Writes) /\ Len(mem[l]) >= 1
  BY MemTypes
<1>2. /\ Sound(mem, view[t]) /\ Sound(mem, seen[t]) /\ Sound(mem, rel[t])
      /\ Below(view[t], seen[t]) /\ Below(rel[t], view[t])
  BY DEF MemInv
<1>3. old \in Views /\ Sound(mem, old) /\ old[l] = Len(mem[l])
  <2>1. Len(mem[l]) \in 1 .. Len(mem[l])
    BY <1>1
  <2> QED BY <1>1, <2>1 DEF Newest, MemInv
<1> HIDE DEF old
<1>4. /\ Join(view[t], old) \in Views /\ Sound(mem, Join(view[t], old))
      /\ Below(view[t], Join(view[t], old)) /\ Below(old, Join(view[t], old))
  BY <1>1, <1>2, <1>3, JoinFacts, SoundJoin
<1>5. /\ Join(seen[t], old) \in Views /\ Sound(mem, Join(seen[t], old))
      /\ Below(seen[t], Join(seen[t], old)) /\ Below(old, Join(seen[t], old))
      /\ \A k \in Locs : Join(seen[t], old)[k] \in {seen[t][k], old[k]}
  BY <1>1, <1>2, <1>3, JoinFacts, SoundJoin
<1>6. y \in Views /\ Sound(mem, y) /\ Below(view[t], y)
      /\ (mo = "acquire" => Below(old, y)) /\ (mo # "acquire" => y = view[t])
  <2>1. Below(view[t], view[t])
    BY <1>1 DEF Below, Views
  <2> QED BY <1>1, <1>2, <1>4, <2>1
<1>7. Below(y, Join(seen[t], old))
  <2>1. Below(view[t], Join(seen[t], old))
    BY <1>1, <1>2, <1>5, BelowTrans
  <2>2. \A k \in Locs : Join(view[t], old)[k] \in {view[t][k], old[k]}
    BY <1>1, <1>3, JoinFacts
  <2>3. Below(Join(view[t], old), Join(seen[t], old))
    BY <1>5, <2>1, <2>2 DEF Below
  <2> QED BY <2>1, <2>3
<1>8. b \in Views /\ Sound(mem, b) /\ (mo = "release" => b = view[t])
  BY <1>1, <1>2, <1>6
<1> HIDE DEF y, b
<1>9. /\ c \in Views /\ c[l] = N /\ \A k \in Locs : k # l => c[k] = b[k]
  BY <1>1, <1>8 DEF Views
<1>10. Join(old, c) \in Views /\ Join(old, c)[l] = N
       /\ Below(old, Join(old, c)) /\ Below(c, Join(old, c))
  <2>1. /\ Join(old, c) \in Views /\ Below(old, Join(old, c))
        /\ Below(c, Join(old, c)) /\ Join(old, c)[l] \in {old[l], c[l]}
    BY <1>3, <1>9, JoinFacts
  <2>2. Join(old, c)[l] = N
    <3>1. c[l] <= Join(old, c)[l]
      BY <2>1 DEF Below
    <3> QED BY <1>1, <1>3, <1>9, <2>1, <3>1
  <2> QED BY <2>1, <2>2
<1>11. w \in Writes /\ w.val = x /\ w.at = Join(old, c)
  BY <1>10 DEF Writes
<1>12. /\ mem' = [mem EXCEPT ![l] = Append(@, w)]
       /\ view' = [view EXCEPT ![t] = v] /\ seen' = [seen EXCEPT ![t] = s]
       /\ rel' = rel /\ sc' = sc
  <2>1. view \in [Threads -> Views] /\ seen \in [Threads -> Views]
    BY DEF MemInv
  <2> QED BY <2>1 DEF Update, Carried, old, y, b
<1>13. mem' \in Memories
  <2>1. Append(mem[l], w) \in Seq(Writes)
    BY <1>1, <1>11, Appended
  <2> QED BY <1>1, <1>12, <2>1 DEF Memories
<1>14. /\ v \in Views /\ v[l] = N /\ \A k \in Locs : k # l => v[k] = y[k]
  BY <1>1, <1>6 DEF Views
<1>15. Below(view[t], v) /\ Below(v, s)
  <2>1. y[l] <= N /\ view[t][l] <= N
    BY <1>1, <1>2, <1>6 DEF Sound, Views
  <2>2. Below(view[t], v)
    BY <1>1, <1>6, <1>14, <2>1 DEF Below, Views
  <2>3. s[l] = N /\ \A k \in Locs : k # l => s[k] = Join(seen[t], old)[k]
    BY <1>5 DEF Views
  <2>4. Below(v, s)
    BY <1>1, <1>7, <1>14, <2>3 DEF Below
  <2> QED BY <2>2, <2>4
<1> HIDE DEF w
<1>16. Sound(mem', v) /\ Sound(mem', s) /\ Sound(mem', c)
  BY <1>1, <1>5, <1>6, <1>8, <1>11, <1>12, <1>13, SoundWrite
<1> HIDE DEF v, s, c
<1>17. Sound(mem', w.at)
  <2>1. Sound(mem', old)
    <3>1. Extends(mem, mem')
      <4>1. /\ Len(Append(mem[l], w)) = Len(mem[l]) + 1
            /\ \A i \in 1 .. Len(mem[l]) : Append(mem[l], w)[i] = mem[l][i]
        BY <1>1, <1>11, Appended
      <4>2. /\ mem'[l] = Append(mem[l], w)
            /\ \A k \in Locs : k # l => mem'[k] = mem[k]
        BY <1>1, <1>12 DEF Memories
      <4>3. ASSUME NEW k \in Locs
            PROVE  /\ Len(mem[k]) <= Len(mem'[k])
                   /\ \A i \in 1 .. Len(mem[k]) : mem'[k][i] = mem[k][i]
        <5>1. Len(mem[k]) \in Nat
          BY MemTypes
        <5> QED BY <4>1, <4>2, <5>1
      <4> QED BY <4>3 DEF Extends
    <3> QED BY <1>1, <1>3, <1>13, <3>1, SoundGrows
  <2>2. \A k \in Locs : \A j \in 1 .. Len(mem'[k]) : mem'[k][j].at \in Views
    <3>1. ASSUME NEW k \in Locs, NEW j \in 1 .. Len(mem'[k])
          PROVE  mem'[k][j].at \in Views
      <4>1. mem'[k] \in Seq(Writes)
        BY <1>13 DEF Memories
      <4>2. mem'[k][j] \in Writes
        BY <4>1
      <4> QED BY <4>2 DEF Writes
    <3> QED BY <3>1
  <2> QED BY <1>11, <1>13, <1>16, <2>1, <2>2, SoundJoin
<1>18. MemInv' /\ Later /\ Written(t, l, w) /\ view'[t] = v
  BY <1>10, <1>11, <1>12, <1>15, <1>16, <1>17, WriteStep
<1>19. mo = "release" => Below(view[t], w.at)
  <2>1. ASSUME mo = "release" PROVE Below(view[t], c)
    <3>1. view[t][l] <= N
      BY <1>1, <1>2 DEF Sound, Views
    <3>2. ASSUME NEW k \in Locs PROVE view[t][k] <= c[k]
      <4>1. view[t][k] \in Nat
        BY <1>1 DEF Views
      <4>2. CASE k = l
        BY <1>9, <3>1, <4>2
      <4>3. CASE k # l
        <5>1. c[k] = view[t][k]
          BY <1>8, <1>9, <2>1, <4>3
        <5> QED BY <4>1, <5>1
      <4> QED BY <4>2, <4>3
    <3> QED BY <3>2 DEF Below
  <2> QED BY <1>1, <1>9, <1>10, <1>11, <2>1, BelowTrans
<1>20. mo = "acquire" => Below(old, v)
  <2> SUFFICES ASSUME mo = "acquire", NEW k \in Locs PROVE old[k] <= v[k]
    BY DEF Below
  <2>1. old[k] <= y[k]
    BY <1>6 DEF Below
  <2> QED BY <1>1, <1>3, <1>14, <2>1
<1> QED BY <1>6, <1>10, <1>11, <1>14, <1>18, <1>19, <1>20 DEF old, Updated

\* atomic_thread_fence(seq_cst)
LEMMA FenceStep ==
  ASSUME MemInv, NEW t \in Threads, Fence(t)
  PROVE  /\ MemInv' /\ Later /\ mem' = mem
         /\ view'[t] = sc' /\ Below(view[t], sc')
         /\ \A u \in Threads : u # t => view'[u] = view[u]
<1> DEFINE v == Join(seen[t], sc)
<1>1. /\ mem \in Memories /\ view[t] \in Views /\ seen[t] \in Views
      /\ rel[t] \in Views /\ sc \in Views
      /\ \A k \in Locs : \A j \in 1 .. Len(mem[k]) : mem[k][j].at \in Views
      /\ \A u \in Threads : view[u] \in Views
  BY MemTypes
<1>2. /\ Sound(mem, seen[t]) /\ Sound(mem, sc) /\ Below(view[t], seen[t])
      /\ view \in [Threads -> Views] /\ seen \in [Threads -> Views]
      /\ rel \in [Threads -> Views]
  BY DEF MemInv
<1>3. v \in Views /\ Below(seen[t], v) /\ Below(sc, v) /\ Sound(mem, v)
  BY <1>1, <1>2, JoinFacts, SoundJoin
<1>4. Below(view[t], v)
  BY <1>1, <1>2, <1>3, BelowTrans
<1>5. /\ view' = [view EXCEPT ![t] = v] /\ seen' = [seen EXCEPT ![t] = v]
      /\ rel' = [rel EXCEPT ![t] = v] /\ sc' = v /\ mem' = mem
  BY DEF Fence
<1> HIDE DEF v
<1>6. /\ view'[t] = v /\ seen'[t] = v /\ rel'[t] = v
      /\ view' \in [Threads -> Views] /\ seen' \in [Threads -> Views]
      /\ rel' \in [Threads -> Views]
      /\ \A u \in Threads : u # t => /\ view'[u] = view[u] /\ seen'[u] = seen[u]
                                     /\ rel'[u] = rel[u]
  BY <1>2, <1>3, <1>5
<1>7. \A y \in Views : Below(y, y)
  BY DEF Below, Views
<1>8. Later
  BY <1>1, <1>3, <1>4, <1>5, <1>6, <1>7 DEF Later, Extends
<1>9. ASSUME NEW u \in Threads
      PROVE  /\ Sound(mem, view'[u]) /\ Sound(mem, seen'[u])
             /\ Sound(mem, rel'[u])
             /\ Below(rel'[u], view'[u]) /\ Below(view'[u], seen'[u])
  <2>1. CASE u = t
    BY <1>3, <1>6, <1>7, <2>1
  <2>2. CASE u # t
    BY <1>6, <2>2 DEF MemInv
  <2> QED BY <2>1, <2>2
<1>10. MemInv'
  BY <1>3, <1>5, <1>6, <1>9 DEF MemInv
<1> QED BY <1>4, <1>5, <1>6, <1>8, <1>10

-----------------------------------------------------------------------------
(* What stays true while memory grows                                      *)

\* A step that leaves the shared cells alone.
LEMMA CellFrame ==
  ASSUME CellInv, \A l \in {src, head_, orphans_} : mem'[l] = mem[l]
  PROVE  CellInv'
BY DEF CellInv, Newest

\* Who finds a record in the list finds it in any later list.
LEMMA LinkedStep ==
  ASSUME MemInv, CellInv', Later, NEW q, NEW v \in Views, NEW w \in Views,
         Sound(mem, v), Sound(mem', w), v[head_] <= w[head_],
         q \in Range(mem[head_][v[head_]].val)
  PROVE  q \in Range(mem'[head_][w[head_]].val)
<1>1. head_ \in Locs /\ head_ \notin Clocks
  BY LocFacts
<1>2. Len(mem[head_]) \in Nat
  BY <1>1, MemTypes
<1>3. v[head_] \in 1 .. Len(mem[head_]) /\ w[head_] \in Nat
  BY <1>1, <1>2 DEF Sound, Views
<1>4. mem'[head_][v[head_]] = mem[head_][v[head_]]
  BY <1>1, <1>3 DEF Later, Extends
<1>5. /\ v[head_] \in 1 .. Len(mem'[head_]) /\ w[head_] \in 1 .. Len(mem'[head_])
  <2>1. w[head_] <= Len(mem'[head_])
    BY <1>1 DEF Sound
  <2> QED BY <1>3, <2>1
<1> QED BY <1>4, <1>5 DEF CellInv

\* A retirer's view and place in its scan are what Fenced looks at.
SameScan(r) == /\ pc'[r] = pc[r] /\ bag'[r] = bag[r] /\ hz'[r] = hz[r]
               /\ todo'[r] = todo[r]

\* What Fenced says of one scan.
Met(r, n, q, s, k) ==
  n \in bag[r] =>
    /\ Scanning(r) => view[r][Slot(q, s)] >= k
    /\ pc[r] = "snap" => Linked(q, view[r])
    /\ pc[r] = "slots" => \/ n \in hz[r] \/ view[r][Slot(q, s)] > k
                          \/ Slot(q, s) \in Range(todo[r])
    /\ pc[r] = "free" => n \in hz[r] \/ view[r][Slot(q, s)] > k

\* Fenced, with its definition expanded.
LEMMA FencedMet ==
  ASSUME NEW n, NEW q, NEW s, NEW k
  PROVE  Fenced(n, q, s, k) <=>
           /\ n \in Nat \ {0} /\ k \in 1 .. Len(mem[Slot(q, s)])
           /\ mem[Slot(q, s)][k].val = n
           /\ sc[Slot(q, s)] >= k /\ Linked(q, sc)
           /\ \A r \in Retirers : Met(r, n, q, s, k)
BY DEF Fenced, Met

\* A scan that does not move keeps what it has met.
LEMMA MetFrame ==
  ASSUME MemInv, MemInv', CellInv', Later, NEW r \in Retirers, SameScan(r),
         NEW n, NEW q \in Protectors, NEW s \in {0, 1}, NEW k \in Nat,
         Met(r, n, q, s, k)
  PROVE  Met(r, n, q, s, k)'
<1>1. r \in Threads
  BY DEF Threads
<1>2. Slot(q, s) \in Locs /\ head_ \in Locs
  BY SlotFacts, LocFacts
<1>3. view[r] \in Views /\ view'[r] \in Views /\ Sound(mem, view[r])
      /\ Sound(mem', view'[r])
  BY <1>1 DEF MemInv
<1>4. view[r][Slot(q, s)] <= view'[r][Slot(q, s)]
      /\ view[r][head_] <= view'[r][head_]
      /\ view[r][Slot(q, s)] \in Nat /\ view'[r][Slot(q, s)] \in Nat
  BY <1>1, <1>2, <1>3 DEF Later, Below, Views
<1>5. Linked(q, view[r]) => Linked(q, view[r])'
  BY <1>3, <1>4, LinkedStep DEF Linked
<1> QED BY <1>4, <1>5 DEF Met, SameScan, Scanning

\* A fenced hazard stays so, if every scan keeps what it has met.
LEMMA FencedFrame ==
  ASSUME MemInv, MemInv', CellInv', Later,
         NEW n, NEW q \in Protectors, NEW s \in {0, 1}, NEW k,
         Fenced(n, q, s, k),
         \A r \in Retirers : Met(r, n, q, s, k) => Met(r, n, q, s, k)'
  PROVE  Fenced(n, q, s, k)'
<1> DEFINE l == Slot(q, s)
<1>1. l \in Locs /\ head_ \in Locs
  BY SlotFacts, LocFacts
<1>2. /\ n \in Nat \ {0} /\ k \in 1 .. Len(mem[l]) /\ mem[l][k].val = n
      /\ sc[l] >= k /\ Linked(q, sc)
      /\ \A r \in Retirers : Met(r, n, q, s, k)
  BY FencedMet
<1>3. Len(mem[l]) \in Nat /\ Len(mem'[l]) \in Nat
  BY <1>1, MemTypes DEF MemInv
<1>4. k \in 1 .. Len(mem'[l]) /\ mem'[l][k].val = n
  BY <1>1, <1>2, <1>3 DEF Later, Extends
<1>5. Sound(mem, sc) /\ Sound(mem', sc') /\ sc \in Views /\ sc' \in Views
  BY DEF MemInv, Sound
<1>6. sc[l] <= sc'[l] /\ sc[head_] <= sc'[head_] /\ sc[l] \in Nat /\ sc'[l] \in Nat
  BY <1>1, <1>5 DEF Later, Below, Views
<1>7. Linked(q, sc)'
  BY <1>2, <1>5, <1>6, LinkedStep DEF Linked
<1>8. sc'[l] >= k
  BY <1>2, <1>3, <1>6
<1> QED BY <1>2, <1>4, <1>7, <1>8 DEF Fenced, Met

\* What keeps the hazards fenced, whoever takes the step.
Stays == \A q \in Protectors, s \in {0, 1} : \A n, k :
           Fenced(n, q, s, k) => Fenced(n, q, s, k)'

\* A protector's step moves no scan.
LEMMA ProtectorStays ==
  ASSUME MemInv, MemInv', CellInv', Later, \A r \in Retirers : SameScan(r)
  PROVE  Stays
<1> SUFFICES ASSUME NEW q \in Protectors, NEW s \in {0, 1}, NEW n, NEW k,
                    Fenced(n, q, s, k)
             PROVE  Fenced(n, q, s, k)'
  BY DEF Stays
<1>1. k \in Nat
  <2>1. Len(mem[Slot(q, s)]) \in Nat /\ k \in 1 .. Len(mem[Slot(q, s)])
    BY SlotFacts, MemTypes, FencedMet
  <2> QED BY <2>1
<1>2. \A r \in Retirers : Met(r, n, q, s, k) => Met(r, n, q, s, k)'
  BY <1>1, MetFrame
<1> QED BY <1>2, FencedFrame

\* A hazard that is not written to.
LEMMA HoldsStays ==
  ASSUME NEW o \in Protectors, Stays, NEW s \in {0, 1}, NEW n,
         Holds(o, s, n), rec[o] \in Protectors, rec'[o] = rec[o],
         mem'[Slot(rec[o], s)] = mem[Slot(rec[o], s)], n \notin freed'
  PROVE  Holds(o, s, n)'
<1>1. PICK q \in Protectors : q = rec[o]
  OBVIOUS
<1>2. PICK k : k = Len(mem[Slot(q, s)])
  OBVIOUS
<1>3. Fenced(n, q, s, k)
  BY <1>1, <1>2 DEF Holds
<1>4. Fenced(n, q, s, k)'
  BY <1>3 DEF Stays
<1>5. q = rec'[o] /\ k = Len(mem'[Slot(rec'[o], s)])
  BY <1>1, <1>2
<1> QED BY <1>4, <1>5 DEF Holds

\* A protector that does not move, or whose record nobody writes to, keeps
\* its hazards.
LEMMA HoldFrame ==
  ASSUME NEW o \in Protectors, HoldAt(o), WalkAt(o), TypeInv, Stays, MemInv,
         MemInv', Later,
         pc'[o] = pc[o], rec'[o] = rec[o], ptr'[o] = ptr[o], plan' = plan,
         Owns(o, rec[o]) => \A s \in {0, 1} :
                              mem'[Slot(rec[o], s)] = mem[Slot(rec[o], s)],
         \A s \in {0, 1}, n \in Nat : Holds(o, s, n) => n \notin freed'
  PROVE  HoldAt(o)'
<1>1. o \in Threads /\ src \in Locs
  BY LocFacts DEF Threads
<1>2. view[o][src] <= view'[o][src] /\ view[o][src] \in Nat
      /\ view'[o][src] \in Nat
  BY <1>1 DEF Later, Below, MemInv, Views
<1>3. ptr[o] \in Nat /\ Successor(o) = ptr[o] + 1 /\ Successor(o)' = Successor(o)
  BY DEF TypeInv, Successor
<1>4. CASE pc[o] \in {"start", "walk", "load", "publish", "clear0", "clear1",
                      "wipe0", "done"}
  BY <1>4 DEF HoldAt
<1>5. CASE pc[o] \notin {"start", "walk", "load", "publish", "clear0", "clear1",
                         "wipe0", "done"}
  <2>1. rec[o] # 0 /\ rec[o] \in Protectors
    BY <1>5, LocFacts DEF WalkAt, TypeInv
  <2>2. \A s \in {0, 1} : mem'[Slot(rec[o], s)] = mem[Slot(rec[o], s)]
    BY <1>5, <2>1 DEF Owns
  <2>3. ASSUME NEW s \in {0, 1}, NEW n PROVE Names(o, s, n) => Names(o, s, n)'
    BY <2>2 DEF Names, Newest
  <2>4. ASSUME NEW s \in {0, 1}, NEW n \in Nat, Holds(o, s, n)
        PROVE  Holds(o, s, n)'
    <3>1. n \notin freed'
      BY <2>4
    <3> QED BY <2>1, <2>2, <2>4, <3>1, HoldsStays
  <2> QED BY <1>2, <1>3, <2>3, <2>4 DEF HoldAt
<1> QED BY <1>4, <1>5

\* The accesses made so far stay covered, unless the step takes a hazard away
\* without carrying the accesses made under it.
LEMMA AccessFrame ==
  ASSUME NEW o \in Protectors, AccessAt(o), Stays, MemInv, MemInv', Later,
         used'[o] = used[o], mem'[Clock(o)] = mem[Clock(o)],
         \A q \in Protectors, s \in {0, 1} : Owns(o, q) =>
           \/ Owns(o, q)' /\ Len(mem'[Slot(q, s)]) = Len(mem[Slot(q, s)])
           \/ /\ Len(mem'[Slot(q, s)]) = Len(mem[Slot(q, s)]) + 1
              /\ mem'[Slot(q, s)][Len(mem[Slot(q, s)]) + 1].at[Clock(o)]
                   >= view[o][Clock(o)]
           \/ Newest(Slot(q, s)).val = nullptr
  PROVE  AccessAt(o)'
<1>1. o \in Threads /\ Clock(o) \in Locs
  BY ClockFacts DEF Threads
<1>2. /\ view[o][Clock(o)] = Len(mem[Clock(o)]) /\ view[o][Clock(o)] \in Nat
      /\ view'[o][Clock(o)] \in Nat
  BY <1>1 DEF AccessAt, MemInv, Views
<1>3. view'[o][Clock(o)] = Len(mem'[Clock(o)])
  <2>1. view[o][Clock(o)] <= view'[o][Clock(o)]
    BY <1>1 DEF Later, Below
  <2>2. Sound(mem', view'[o])
    BY <1>1 DEF MemInv
  <2>3. view'[o][Clock(o)] <= Len(mem'[Clock(o)])
    BY <1>1, <2>2 DEF Sound
  <2> QED BY <1>2, <2>1, <2>3
<1>4. ASSUME NEW n \in DOMAIN used[o]
      PROVE  /\ used'[o][n] \in 0 .. view'[o][Clock(o)]
             /\ \E q \in Protectors, s \in {0, 1} :
                  \E k \in 1 .. Len(mem'[Slot(q, s)]) : Covered(o, n, q, s, k)'
  <2>1. used[o][n] \in 0 .. view[o][Clock(o)]
    BY DEF AccessAt
  <2>2. PICK q \in Protectors, s \in {0, 1} :
          \E k \in 1 .. Len(mem[Slot(q, s)]) : Covered(o, n, q, s, k)
    BY DEF AccessAt
  <2> DEFINE l == Slot(q, s)
  <2>3. PICK k \in 1 .. Len(mem[l]) : Covered(o, n, q, s, k)
    BY <2>2
  <2>4. Fenced(n, q, s, k) /\ Fenced(n, q, s, k)'
    BY <2>3 DEF Covered, Stays
  <2>5. l \in Locs /\ Len(mem[l]) \in Nat /\ Len(mem'[l]) \in Nat
    BY SlotFacts, MemTypes DEF MemInv
  <2>6. Len(mem[l]) <= Len(mem'[l])
        /\ \A i \in 1 .. Len(mem[l]) : mem'[l][i] = mem[l][i]
    BY <2>5 DEF Later, Extends
  <2>7. k \in 1 .. Len(mem'[l])
    BY <2>5, <2>6
  <2>8. Covered(o, n, q, s, k)'
    <3>1. CASE k < Len(mem[l]) /\ mem[l][k + 1].at[Clock(o)] >= used[o][n]
      <4>1. k + 1 \in 1 .. Len(mem[l]) /\ mem'[l][k + 1] = mem[l][k + 1]
        BY <2>5, <2>6, <3>1
      <4> QED BY <2>4, <2>5, <2>6, <3>1, <4>1 DEF Covered
    <3>2. CASE Owns(o, q) /\ k = Len(mem[l])
      <4>1. CASE Owns(o, q)' /\ Len(mem'[l]) = Len(mem[l])
        BY <2>4, <3>2, <4>1 DEF Covered
      <4>2. CASE /\ Len(mem'[l]) = Len(mem[l]) + 1
                 /\ mem'[l][Len(mem[l]) + 1].at[Clock(o)] >= view[o][Clock(o)]
        <5>1. mem'[l][k + 1].at[Clock(o)] >= used[o][n]
          <6>1. k + 1 \in 1 .. Len(mem'[l])
            BY <2>5, <3>2, <4>2
          <6>2. mem'[l][k + 1].at \in Views
            BY <2>5, <6>1 DEF MemInv, Sound
          <6>3. mem'[l][k + 1].at[Clock(o)] \in Nat
            BY <1>1, <6>2 DEF Views
          <6> QED BY <1>2, <2>1, <3>2, <4>2, <6>3
        <5> QED BY <2>4, <2>5, <3>2, <4>2, <5>1 DEF Covered
      <4>3. Newest(l).val # nullptr
        BY <2>4, <3>2, FencedMet DEF Newest, nullptr
      <4> QED BY <3>2, <4>1, <4>2, <4>3
    <3> QED BY <2>3, <3>1, <3>2 DEF Covered
  <2>9. view[o][Clock(o)] <= view'[o][Clock(o)]
    BY <1>1 DEF Later, Below
  <2> QED BY <1>2, <2>1, <2>7, <2>8, <2>9
<1> QED BY <1>3, <1>4 DEF AccessAt

\* The list as the last write to head_ has it is the longest.
LEMMA NewestLinked ==
  ASSUME MemInv, CellInv, NEW v \in Views, Sound(mem, v), NEW q,
         Linked(q, v)
  PROVE  q \in Range(Newest(head_).val)
<1>1. head_ \in Locs /\ head_ \notin Clocks
  BY LocFacts
<1>2. /\ v[head_] \in 1 .. Len(mem[head_])
      /\ Len(mem[head_]) \in 1 .. Len(mem[head_])
      /\ v[head_] <= Len(mem[head_])
  <2>1. Len(mem[head_]) \in Nat
    BY <1>1, MemTypes
  <2> QED BY <1>1, <2>1 DEF Sound, Views
<1>3. Range(mem[head_][v[head_]].val)
        \subseteq Range(mem[head_][Len(mem[head_])].val)
  BY <1>2 DEF CellInv
<1> QED BY <1>3 DEF Linked, Newest

\* The records and their owners, when nobody takes or releases one and only
\* an owner writes to its slots.
LEMMA RecFrame ==
  ASSUME RecInv, MemInv, CellInv, MemInv', CellInv', Later,
         rec' = rec, mem'[head_] = mem[head_],
         \A q \in Protectors : mem'[Active(q)] = mem[Active(q)],
         \A o \in Protectors :
           /\ pc'[o] \in {"start", "walk"} => rec[o] = 0
           /\ pc'[o] \notin {"start", "walk", "done"} => rec[o] # 0
           /\ \/ walk'[o] = walk[o]
              \/ \A q \in Range(walk'[o]) : Linked(q, view[o])',
         \A o, q \in Protectors : Owns(o, q)' <=> Owns(o, q),
         \A q \in Protectors :
           \/ \A s \in {0, 1} : mem'[Slot(q, s)] = mem[Slot(q, s)]
           \/ \E p \in Protectors :
                /\ Owns(p, q)
                /\ \A s \in {0, 1} :
                     view'[p][Slot(q, s)] = Len(mem'[Slot(q, s)])
  PROVE  RecInv'
<1>1. \A o \in Protectors :
        /\ o \in Threads /\ view[o] \in Views /\ view'[o] \in Views
        /\ Sound(mem, view[o]) /\ Sound(mem', view'[o])
        /\ Below(view[o], view'[o])
  BY DEF Threads, MemInv, Later
<1>2. ASSUME NEW o \in Protectors, NEW q, Linked(q, view[o])
      PROVE  Linked(q, view[o])'
  <2>1. view[o][head_] <= view'[o][head_]
    BY <1>1, LocFacts DEF Below
  <2> QED BY <1>1, <1>2, <2>1, LinkedStep DEF Linked
<1>3. Newest(head_)' = Newest(head_)
      /\ \A q \in Protectors : Newest(Active(q))' = Newest(Active(q))
  BY DEF Newest
<1>4. ASSUME NEW o \in Protectors PROVE WalkAt(o)'
  <2>1. WalkAt(o)
    BY DEF RecInv
  <2> QED BY <1>2, <1>3, <2>1 DEF WalkAt
<1>5. ASSUME NEW q \in Protectors PROVE SpareAt(q)'
  <2>1. SpareAt(q)
    BY DEF RecInv
  <2>2. CASE \A s \in {0, 1} : mem'[Slot(q, s)] = mem[Slot(q, s)]
    BY <1>3, <2>1, <2>2 DEF SpareAt
  <2>3. CASE \E p \in Protectors : Owns(p, q)
    <3>1. PICK p \in Protectors : Owns(p, q)
      BY <2>3
    <3>2. Linked(q, view[p]) /\ Newest(Active(q)).val = 1
      BY <3>1 DEF RecInv, OwnAt
    <3>3. q \in Range(Newest(head_).val)
      BY <1>1, <3>2, NewestLinked
    <3> QED BY <1>3, <3>2, <3>3 DEF SpareAt
  <2> QED BY <2>2, <2>3
<1>6. ASSUME NEW o \in Protectors, NEW q \in Protectors, Owns(o, q)
      PROVE  OwnAt(o, q)'
  <2>1. OwnAt(o, q)
    BY <1>6 DEF RecInv
  <2>2. Linked(q, view[o])' /\ Newest(Active(q))'.val = 1
    BY <1>2, <1>3, <2>1 DEF OwnAt
  <2>3. \A p \in Protectors : Owns(p, q)' => p = o
    BY <2>1 DEF OwnAt
  <2>4. ASSUME NEW s \in {0, 1}
        PROVE  view'[o][Slot(q, s)] = Len(mem'[Slot(q, s)])
    <3>1. CASE mem'[Slot(q, s)] = mem[Slot(q, s)]
      <4>1. Slot(q, s) \in Locs
        BY SlotFacts
      <4>2. view[o][Slot(q, s)] <= view'[o][Slot(q, s)]
        BY <1>1, <4>1 DEF Below
      <4>3. view'[o][Slot(q, s)] <= Len(mem'[Slot(q, s)])
        BY <1>1, <4>1 DEF Sound
      <4>4. view[o][Slot(q, s)] \in Nat /\ view'[o][Slot(q, s)] \in Nat
        BY <1>1, <4>1 DEF Views
      <4> QED BY <2>1, <3>1, <4>2, <4>3, <4>4 DEF OwnAt
    <3>2. CASE mem'[Slot(q, s)] # mem[Slot(q, s)]
      <4>1. PICK p \in Protectors :
              /\ Owns(p, q)
              /\ \A u \in {0, 1} : view'[p][Slot(q, u)] = Len(mem'[Slot(q, u)])
        BY <3>2
      <4>2. p = o
        BY <2>1, <4>1 DEF OwnAt
      <4> QED BY <4>1, <4>2
    <3> QED BY <3>1, <3>2
  <2> QED BY <2>2, <2>3, <2>4 DEF OwnAt
<1> QED BY <1>4, <1>5, <1>6 DEF RecInv

\* Bags do not change in a protector's step.
LEMMA BagFrame ==
  ASSUME BagInv, TypeInv, MemInv, MemInv', Later, freed' = freed,
         \A r \in Retirers : SameScan(r)
  PROVE  BagInv'
<1>1. src \in Locs /\ sc \in Views /\ sc' \in Views
      /\ \A r \in Retirers : r \in Threads /\ view[r] \in Views /\ view'[r] \in Views
  BY LocFacts DEF Threads, MemInv, Sound
<1>2. sc[src] <= sc'[src] /\ sc[src] \in Nat /\ sc'[src] \in Nat
      /\ \A r \in Retirers : /\ view[r][src] <= view'[r][src]
                             /\ view[r][src] \in Nat /\ view'[r][src] \in Nat
  BY <1>1 DEF Later, Below, Views
<1>3. \A r \in Retirers : bag[r] \subseteq Nat
  BY DEF TypeInv
<1>4. \A n \in freed : n \in Nat
  BY DEF TypeInv
<1>5. ASSUME NEW r \in Retirers
      PROVE  /\ \A n \in bag'[r] : /\ n >= 1 /\ view'[r][src] > n
                                   /\ Scanning(r)' => sc'[src] > n
             /\ pc'[r] = "slots" => todo'[r] # << >>
  BY <1>2, <1>3 DEF BagInv, SameScan, Scanning
<1>6. \A n \in freed' : sc'[src] > n
  BY <1>2, <1>4 DEF BagInv
<1> QED BY <1>5, <1>6 DEF BagInv

-----------------------------------------------------------------------------
(* The steps of a protector                                                *)

\* What is left to show for a step of p that moves nobody else and writes to
\* no slot of another thread's record.
LEMMA ProtectorStep ==
  ASSUME FenceInv, NEW p \in Protectors,
         MemInv', CellInv', TypeInv', RecInv', Later,
         UNCHANGED retVars, plan' = plan,
         \A u \in Threads : u # p => pc'[u] = pc[u],
         \A o \in Protectors : o # p =>
           /\ rec'[o] = rec[o] /\ ptr'[o] = ptr[o] /\ used'[o] = used[o]
           /\ mem'[Clock(o)] = mem[Clock(o)],
         \A q \in Protectors : ~Owns(p, q) =>
           \A s \in {0, 1} : mem'[Slot(q, s)] = mem[Slot(q, s)],
         Stays => HoldAt(p)' /\ AccessAt(p)'
  PROVE  FenceInv'
<1>1. /\ MemInv /\ TypeInv /\ CellInv /\ RecInv /\ BagInv /\ HoldInv
      /\ AccessInv
  BY DEF FenceInv
<1>2. \A r \in Retirers : r \in Threads /\ r # p
  BY FenceAssumption DEF Threads
<1>3. \A r \in Retirers : SameScan(r)
  BY <1>2 DEF retVars, SameScan
<1>4. Stays
  BY <1>1, <1>3, ProtectorStays
<1>5. BagInv'
  BY <1>1, <1>3, BagFrame DEF retVars
<1>6. ASSUME NEW o \in Protectors, o # p PROVE HoldAt(o)' /\ AccessAt(o)'
  <2>1. pc'[o] = pc[o]
    BY <1>6 DEF Threads
  <2>2. \A q \in Protectors : Owns(o, q) => ~Owns(p, q)
    BY <1>1, <1>6 DEF RecInv, OwnAt
  <2>3. \A q \in Protectors : Owns(o, q)' <=> Owns(o, q)
    BY <1>6, <2>1 DEF Owns
  <2>4. \A q \in Protectors : Owns(o, q) =>
          \A s \in {0, 1} : mem'[Slot(q, s)] = mem[Slot(q, s)]
    BY <2>2
  <2>5. HoldAt(o) /\ WalkAt(o) /\ AccessAt(o)
    BY <1>1 DEF HoldInv, RecInv, AccessInv
  <2>6. \A s \in {0, 1}, n \in Nat : Holds(o, s, n) => n \notin freed'
    BY DEF Holds, retVars
  <2>7. Owns(o, rec[o]) => \A s \in {0, 1} :
                             mem'[Slot(rec[o], s)] = mem[Slot(rec[o], s)]
    BY <2>4 DEF Owns
  <2>8. HoldAt(o)'
    BY <1>1, <1>4, <1>6, <2>1, <2>5, <2>6, <2>7, HoldFrame
  <2>9. AccessAt(o)'
    <3>1. used'[o] = used[o] /\ mem'[Clock(o)] = mem[Clock(o)]
      BY <1>6
    <3>2. \A q \in Protectors, s \in {0, 1} : Owns(o, q) =>
            Owns(o, q)' /\ Len(mem'[Slot(q, s)]) = Len(mem[Slot(q, s)])
      BY <2>3, <2>4
    <3> QED BY <1>1, <1>4, <2>5, <3>1, <3>2, AccessFrame
  <2> QED BY <2>8, <2>9
<1>7. HoldInv' /\ AccessInv'
  BY <1>4, <1>6 DEF HoldInv, AccessInv
<1> QED BY <1>5, <1>7 DEF FenceInv

\* What p's own record is like while p uses it.
LEMMA Owner ==
  ASSUME FenceInv, NEW p \in Protectors, pc[p] \notin {"start", "walk", "done"}
  PROVE  /\ rec[p] \in Protectors /\ Owns(p, rec[p]) /\ OwnAt(p, rec[p])
         /\ \A q \in Protectors : Owns(p, q) <=> q = rec[p]
<1>1. rec[p] \in 0 .. NProtectors /\ rec[p] # 0
  BY DEF FenceInv, TypeInv, RecInv, WalkAt
<1>2. rec[p] \in Protectors /\ Owns(p, rec[p])
  BY <1>1, LocFacts DEF Owns
<1>3. \A q \in Protectors : Owns(p, q) <=> q = rec[p]
  BY <1>2 DEF Owns
<1> QED BY <1>2, <1>3 DEF FenceInv, RecInv

\* A step of p that writes to no record and leaves the list alone.
LEMMA QuietStep ==
  ASSUME FenceInv, NEW p \in Protectors, TypeInv', MemInv', Later,
         pc[p] \notin {"start", "walk", "done"},
         pc'[p] \notin {"start", "walk", "done"},
         UNCHANGED <<retVars, plan, rec, walk>>,
         \A u \in Threads : u # p => pc'[u] = pc[u],
         \A o \in Protectors : o # p => ptr'[o] = ptr[o] /\ used'[o] = used[o],
         \A l \in Locs : l # Clock(p) => mem'[l] = mem[l],
         Stays => HoldAt(p)' /\ AccessAt(p)'
  PROVE  FenceInv'
<1>1. MemInv /\ CellInv /\ RecInv
  BY DEF FenceInv
<1>2. /\ \A l \in {src, head_, orphans_} : mem'[l] = mem[l]
      /\ \A q \in Protectors : mem'[Active(q)] = mem[Active(q)]
      /\ \A o \in Protectors : o # p => mem'[Clock(o)] = mem[Clock(o)]
      /\ \A q \in Protectors, s \in {0, 1} : mem'[Slot(q, s)] = mem[Slot(q, s)]
  BY ClockFacts, ActiveFacts, SlotFacts, LocFacts
<1>3. CellInv'
  BY <1>1, <1>2, CellFrame
<1>4. \A o, q \in Protectors : Owns(o, q)' <=> Owns(o, q)
  BY DEF Owns, Threads
<1>5. \A o \in Protectors :
        /\ pc'[o] \in {"start", "walk"} => rec[o] = 0
        /\ pc'[o] \notin {"start", "walk", "done"} => rec[o] # 0
  BY <1>1 DEF RecInv, WalkAt, Threads
<1>6. RecInv'
  BY <1>1, <1>2, <1>3, <1>4, <1>5, RecFrame
<1> QED BY <1>2, <1>3, <1>6, ProtectorStep

\* A step of p that only reads, or fences.
LEMMA ReadStep ==
  ASSUME FenceInv, NEW p \in Protectors, TypeInv', MemInv', Later,
         pc[p] \notin {"start", "walk", "done"},
         pc'[p] \notin {"start", "walk", "done"},
         UNCHANGED <<retVars, plan, rec, walk, used, mem>>,
         \A u \in Threads : u # p => pc'[u] = pc[u],
         \A o \in Protectors : o # p => ptr'[o] = ptr[o],
         Stays => HoldAt(p)'
  PROVE  FenceInv'
<1>1. \A q \in Protectors : Owns(p, q)' <=> Owns(p, q)
  BY DEF Owns
<1>2. Stays => AccessAt(p)'
  <2>1. AccessAt(p) /\ MemInv
    BY DEF FenceInv, AccessInv
  <2> QED BY <1>1, <2>1, AccessFrame
<1> QED BY <1>2, QuietStep

\* The control of p's step.
LEMMA Moves ==
  ASSUME TypeInv, NEW t \in Threads, NEW x, Goto(t, x)
  PROVE  pc'[t] = x /\ \A u \in Threads : u # t => pc'[u] = pc[u]
BY DEF TypeInv, Goto

\* Where a thread may go.
LEMMA MovesType ==
  ASSUME TypeInv, NEW p \in Protectors, NEW x \in PLabels, Goto(p, x)
  PROVE  /\ pc' \in [Threads -> PLabels \cup RLabels]
         /\ \A o \in Protectors : pc'[o] \in PLabels
         /\ \A r \in Retirers : pc'[r] \in RLabels
         /\ p \in Threads
<1>1. p \in Threads /\ \A r \in Retirers : r # p
  BY FenceAssumption DEF Threads
<1> QED BY <1>1 DEF TypeInv, Goto

\* protect: p = src.load(relaxed).
LEMMA PLoadInv ==
  ASSUME FenceInv, NEW p \in Protectors, PLoad(p), plan' = plan
  PROVE  FenceInv'
<1>1. MemInv /\ TypeInv /\ CellInv
  BY DEF FenceInv
<1>2. p \in Threads /\ src \in Locs \ Clocks /\ src \notin Slots
  BY LocFacts DEF Threads
<1>3. PICK i \in Readable(p, src) :
        /\ Load(p, src, i, "relaxed")
        /\ ptr' = [ptr EXCEPT ![p] = mem[src][i].val]
  BY DEF PLoad
<1>4. /\ MemInv' /\ Later /\ mem' = mem /\ i \in 1 .. Len(mem[src])
  BY <1>1, <1>2, <1>3, LoadStep
<1>5. i \in Nat \ {0} /\ mem[src][i].val = i
  <2>1. Len(mem[src]) \in Nat
    BY <1>1, <1>2, MemTypes
  <2> QED BY <1>1, <1>4, <2>1 DEF CellInv
<1>6. /\ pc[p] = "load" /\ pc'[p] = "publish" /\ Goto(p, "publish")
      /\ \A u \in Threads : u # p => pc'[u] = pc[u]
  BY <1>1, <1>2, Moves DEF PLoad, At
<1>7. ptr'[p] = i /\ ptr' \in [Protectors -> Nat]
      /\ \A o \in Protectors : o # p => ptr'[o] = ptr[o]
  BY <1>1, <1>3, <1>5 DEF TypeInv
<1>8. UNCHANGED <<retVars, rec, walk, used>>
  BY DEF PLoad
<1>9. TypeInv'
  BY <1>1, <1>6, <1>7, <1>8, MovesType DEF TypeInv, PLabels, retVars
<1>10. HoldAt(p)'
  BY <1>5, <1>6, <1>7 DEF HoldAt
<1> QED BY <1>4, <1>6, <1>7, <1>8, <1>9, <1>10, ReadStep

\* The fence of protect: a scan that fenced before has the unlink in the
\* view p gets; one that fences later gets the hazard.
LEMMA FenceHolds ==
  ASSUME FenceInv, NEW p \in Protectors, NEW s \in {0, 1}, NEW n \in Nat \ {0},
         pc[p] \notin {"start", "walk", "done"}, Names(p, s, n), Fence(p),
         sc[src] <= n, MemInv', CellInv', Later,
         UNCHANGED <<retVars, rec, mem>>,
         \A r \in Retirers : pc'[r] = pc[r] /\ view'[r] = view[r]
  PROVE  Holds(p, s, n)'
<1>1. PICK q \in Protectors : q = rec[p] /\ Owns(p, q) /\ OwnAt(p, q)
  BY Owner
<1>2. PICK k : k = Len(mem[Slot(q, s)])
  OBVIOUS
<1>3. p \in Threads /\ Slot(q, s) \in Locs /\ Slot(q, s) \notin Clocks
      /\ src \in Locs /\ head_ \in Locs
  BY SlotFacts, LocFacts DEF Threads
<1>4. MemInv /\ BagInv /\ TypeInv
  BY DEF FenceInv
<1>5. k \in Nat /\ k >= 1
  BY <1>2, <1>3, <1>4, MemTypes
<1>6. mem[Slot(q, s)][k].val = n
  BY <1>1, <1>2 DEF Names, Newest
<1>7. Below(view[p], sc')
  BY <1>3, <1>4, FenceStep
<1>8. view[p][Slot(q, s)] = k /\ Linked(q, view[p])
  BY <1>1, <1>2 DEF OwnAt
<1>9. sc'[Slot(q, s)] >= k
  <2>1. view[p][Slot(q, s)] <= sc'[Slot(q, s)]
    BY <1>3, <1>7 DEF Below
  <2> QED BY <1>8, <2>1
<1>10. Linked(q, sc)'
  <2>1. view[p] \in Views /\ sc' \in Views /\ Sound(mem, view[p])
        /\ Sound(mem', sc')
    BY <1>3, <1>4 DEF MemInv, Sound
  <2>2. view[p][head_] <= sc'[head_]
    BY <1>3, <1>7 DEF Below
  <2> QED BY <1>4, <1>8, <2>1, <2>2, LinkedStep DEF Linked
<1>11. ASSUME NEW r \in Retirers PROVE Met(r, n, q, s, k)'
  <2>1. n \in bag[r] => ~Scanning(r)
    <3>1. sc[src] \in Nat
      BY <1>3, <1>4, MemTypes DEF Views
    <3> QED BY <1>4, <3>1 DEF BagInv
  <2>2. bag' = bag
    BY DEF retVars
  <2> QED BY <2>1, <2>2 DEF Met, Scanning
<1>12. Fenced(n, q, s, k)'
  BY <1>2, <1>5, <1>6, <1>9, <1>10, <1>11 DEF Fenced, Met
<1>13. n \notin freed'
  <2>1. sc[src] \in Nat
    BY <1>3, <1>4, MemTypes DEF Views
  <2> QED BY <1>4, <2>1 DEF BagInv, retVars
<1>14. q = rec'[p] /\ k = Len(mem'[Slot(rec'[p], s)])
  BY <1>1, <1>2
<1> QED BY <1>12, <1>13, <1>14 DEF Holds

\* protect's fence: the slot is known to every later scan, and what scans
\* that came before are about to free is no longer in src.
LEMMA PFenceInv ==
  ASSUME FenceInv, NEW p \in Protectors, PFence(p), plan' = plan
  PROVE  FenceInv'
<1>1. MemInv /\ TypeInv /\ CellInv /\ HoldAt(p)
  BY DEF FenceInv, HoldInv
<1>2. p \in Threads /\ src \in Locs /\ \A r \in Retirers : r \in Threads /\ r # p
  BY LocFacts, FenceAssumption DEF Threads
<1>3. /\ pc[p] = "fence" /\ pc'[p] = "verify" /\ Goto(p, "verify") /\ Fence(p)
      /\ \A u \in Threads : u # p => pc'[u] = pc[u]
      /\ UNCHANGED <<retVars, rec, walk, used, ptr>>
  BY <1>1, <1>2, Moves DEF PFence, At, protVars
<1>4. /\ MemInv' /\ Later /\ mem' = mem /\ view'[p] = sc'
      /\ \A u \in Threads : u # p => view'[u] = view[u]
  BY <1>1, <1>2, <1>3, FenceStep
<1>5. CellInv'
  BY <1>1, <1>4, CellFrame
<1>6. TypeInv'
  BY <1>1, <1>3, MovesType DEF TypeInv, PLabels, retVars
<1>7. ptr[p] \in Nat \ {0} /\ Names(p, 0, ptr[p])
  BY <1>1, <1>3 DEF HoldAt, TypeInv
<1>8. view'[p][src] > ptr[p] \/ sc[src] <= ptr[p]
  <2>1. sc[src] <= sc'[src] /\ sc[src] \in Nat /\ sc'[src] \in Nat
    BY <1>1, <1>2, <1>4, MemTypes DEF Later, Below, MemInv, Sound, Views
  <2> QED BY <1>4, <1>7, <2>1
<1>9. sc[src] <= ptr[p] => Holds(p, 0, ptr[p])'
  <2>1. ASSUME NEW n \in Nat \ {0}, n = ptr[p], sc[src] <= n
        PROVE  Holds(p, 0, n)'
    BY <1>2, <1>3, <1>4, <1>5, <1>7, <2>1, FenceHolds
  <2>2. PICK n \in Nat \ {0} : n = ptr[p] /\ n = ptr'[p]
    BY <1>3, <1>7
  <2> QED BY <2>1, <2>2 DEF Holds
<1>10. HoldAt(p)'
  BY <1>3, <1>7, <1>8, <1>9 DEF HoldAt
<1> QED BY <1>3, <1>4, <1>6, <1>10, ReadStep

\* The fence of set.
LEMMA PSetFenceInv ==
  ASSUME FenceInv, NEW p \in Protectors, PSetFence(p), plan' = plan
  PROVE  FenceInv'
<1>1. MemInv /\ TypeInv /\ CellInv /\ HoldAt(p)
  BY DEF FenceInv, HoldInv
<1>2. p \in Threads /\ src \in Locs /\ \A r \in Retirers : r \in Threads /\ r # p
  BY LocFacts, FenceAssumption DEF Threads
<1>3. /\ pc[p] = "setfence" /\ pc'[p] = "validate" /\ Goto(p, "validate")
      /\ Fence(p)
      /\ \A u \in Threads : u # p => pc'[u] = pc[u]
      /\ UNCHANGED <<retVars, rec, walk, used, ptr>>
  BY <1>1, <1>2, Moves DEF PSetFence, At, protVars
<1>4. /\ MemInv' /\ Later /\ mem' = mem /\ view'[p] = sc'
      /\ \A u \in Threads : u # p => view'[u] = view[u]
  BY <1>1, <1>2, <1>3, FenceStep
<1>5. CellInv'
  BY <1>1, <1>4, CellFrame
<1>6. TypeInv'
  BY <1>1, <1>3, MovesType DEF TypeInv, PLabels, retVars
<1>7. /\ ptr[p] \in Nat \ {0} /\ Names(p, 1, Successor(p))
      /\ Holds(p, 0, ptr[p]) /\ Successor(p) = ptr[p] + 1
      /\ rec[p] \in Protectors
  BY <1>1, <1>3, Owner DEF HoldAt, TypeInv, Successor
<1>8. view'[p][src] > ptr[p] \/ sc[src] <= ptr[p] + 1
  <2>1. sc[src] <= sc'[src] /\ sc[src] \in Nat /\ sc'[src] \in Nat
    BY <1>1, <1>2, <1>4, MemTypes DEF Later, Below, MemInv, Sound, Views
  <2> QED BY <1>4, <1>7, <2>1
<1>9. sc[src] <= ptr[p] + 1 => Holds(p, 1, Successor(p))'
  <2>1. ASSUME NEW n \in Nat \ {0}, n = ptr[p] + 1, sc[src] <= n
        PROVE  Holds(p, 1, n)'
    BY <1>2, <1>3, <1>4, <1>5, <1>7, <2>1, FenceHolds
  <2>2. PICK n \in Nat \ {0} : n = ptr[p] + 1 /\ n = Successor(p)'
    BY <1>3, <1>7 DEF Successor
  <2> QED BY <2>1, <2>2 DEF Holds
<1>10. Stays => Holds(p, 0, ptr[p])'
  <2>1. PICK n : n = ptr[p] /\ n = ptr'[p]
    BY <1>3
  <2>2. n \notin freed'
    BY <1>3, <1>7, <2>1 DEF Holds, retVars
  <2>3. Holds(p, 0, n)
    BY <1>7, <2>1
  <2>4. Stays => Holds(p, 0, n)'
    BY <1>3, <1>4, <1>7, <2>2, <2>3, HoldsStays
  <2> QED BY <2>1, <2>4 DEF Holds
<1>11. Stays => HoldAt(p)'
  BY <1>3, <1>7, <1>8, <1>9, <1>10 DEF HoldAt
<1> QED BY <1>3, <1>4, <1>6, <1>11, ReadStep

\* The verifying load of protect.
LEMMA PVerifyInv ==
  ASSUME FenceInv, NEW p \in Protectors, PVerify(p), plan' = plan
  PROVE  FenceInv'
<1>1. MemInv /\ TypeInv /\ CellInv /\ HoldAt(p)
  BY DEF FenceInv, HoldInv
<1>2. p \in Threads /\ src \in Locs \ Clocks /\ src \notin Slots
  BY LocFacts DEF Threads
<1>3. PICK i \in Readable(p, src) :
        /\ Load(p, src, i, "acquire")
        /\ Goto(p, IF mem[src][i].val = ptr[p] THEN "deref" ELSE "publish")
        /\ ptr' = [ptr EXCEPT ![p] = mem[src][i].val]
  BY DEF PVerify
<1>4. /\ MemInv' /\ Later /\ mem' = mem /\ i \in 1 .. Len(mem[src])
      /\ view[p][src] <= i
  BY <1>1, <1>2, <1>3, LoadStep
<1>5. i \in Nat \ {0} /\ mem[src][i].val = i
  <2>1. Len(mem[src]) \in Nat
    BY <1>1, <1>2, MemTypes
  <2> QED BY <1>1, <1>4, <2>1 DEF CellInv
<1>6. /\ pc[p] = "verify"
      /\ pc'[p] = IF i = ptr[p] THEN "deref" ELSE "publish"
      /\ \A u \in Threads : u # p => pc'[u] = pc[u]
  BY <1>1, <1>2, <1>3, <1>5, Moves DEF PVerify, At
<1>7. ptr'[p] = i /\ ptr' \in [Protectors -> Nat]
      /\ \A o \in Protectors : o # p => ptr'[o] = ptr[o]
  BY <1>1, <1>3, <1>5 DEF TypeInv
<1>8. UNCHANGED <<retVars, rec, walk, used>>
  BY DEF PVerify
<1>9. TypeInv'
  BY <1>1, <1>3, <1>7, <1>8, MovesType DEF TypeInv, PLabels, retVars
<1>10. ASSUME i = ptr[p], Stays PROVE Holds(p, 0, ptr[p])'
  <2>1. view[p][src] \in Nat
    BY <1>1, <1>2 DEF MemInv, Views
  <2>2. Holds(p, 0, i)
    BY <1>1, <1>4, <1>5, <1>6, <1>10, <2>1 DEF HoldAt
  <2>3. i \notin freed'
    BY <1>8, <2>2 DEF Holds, retVars
  <2>4. rec[p] \in Protectors
    BY <1>6, Owner
  <2>5. Holds(p, 0, i)'
    BY <1>4, <1>8, <1>10, <2>2, <2>3, <2>4, HoldsStays
  <2> QED BY <1>7, <2>5 DEF Holds
<1>11. Stays => HoldAt(p)'
  BY <1>5, <1>6, <1>7, <1>10 DEF HoldAt
<1> QED BY <1>4, <1>6, <1>7, <1>8, <1>9, <1>11, ReadStep

\* The validating load of try_dequeue.
LEMMA PValidateInv ==
  ASSUME FenceInv, NEW p \in Protectors, PValidate(p), plan' = plan
  PROVE  FenceInv'
<1>1. MemInv /\ TypeInv /\ CellInv /\ HoldAt(p)
  BY DEF FenceInv, HoldInv
<1>2. p \in Threads /\ src \in Locs \ Clocks /\ src \notin Slots
  BY LocFacts DEF Threads
<1>3. PICK i \in Readable(p, src) :
        /\ Load(p, src, i, "acquire")
        /\ Goto(p, IF mem[src][i].val = ptr[p] THEN "use" ELSE "load")
  BY DEF PValidate
<1>4. /\ MemInv' /\ Later /\ mem' = mem /\ i \in 1 .. Len(mem[src])
      /\ view[p][src] <= i
  BY <1>1, <1>2, <1>3, LoadStep
<1>5. i \in Nat \ {0} /\ mem[src][i].val = i
  <2>1. Len(mem[src]) \in Nat
    BY <1>1, <1>2, MemTypes
  <2> QED BY <1>1, <1>4, <2>1 DEF CellInv
<1>6. /\ pc[p] = "validate"
      /\ pc'[p] = IF i = ptr[p] THEN "use" ELSE "load"
      /\ \A u \in Threads : u # p => pc'[u] = pc[u]
  BY <1>1, <1>2, <1>3, <1>5, Moves DEF PValidate, At
<1>8. UNCHANGED <<retVars, rec, walk, used, ptr>>
  BY DEF PValidate, protVars
<1>9. TypeInv'
  BY <1>1, <1>3, <1>8, MovesType DEF TypeInv, PLabels, retVars
<1>10. ASSUME i = ptr[p], Stays
       PROVE  Holds(p, 0, ptr[p])' /\ Holds(p, 1, Successor(p))'
  <2>1. view[p][src] \in Nat
    BY <1>1, <1>2 DEF MemInv, Views
  <2>2. Holds(p, 0, i) /\ Holds(p, 1, i + 1)
    BY <1>1, <1>4, <1>5, <1>6, <1>10, <2>1 DEF HoldAt, Successor
  <2>3. i \notin freed' /\ i + 1 \notin freed'
    BY <1>8, <2>2 DEF Holds, retVars
  <2>4. rec[p] \in Protectors
    BY <1>6, Owner
  <2>5. Holds(p, 0, i)' /\ Holds(p, 1, i + 1)'
    BY <1>4, <1>8, <1>10, <2>2, <2>3, <2>4, HoldsStays
  <2> QED BY <1>8, <1>10, <2>5 DEF Holds, Successor
<1>11. Stays => HoldAt(p)'
  BY <1>1, <1>6, <1>8, <1>10 DEF HoldAt
<1> QED BY <1>4, <1>6, <1>8, <1>9, <1>11, ReadStep

\* An access to nodes that p holds is counted and covered.
LEMMA AccessStep ==
  ASSUME FenceInv, NEW p \in Protectors, NEW N, Access(p, N),
         pc[p] \notin {"start", "walk", "done"},
         pc'[p] \notin {"start", "walk", "done"}, plan' = plan, rec' = rec,
         \A n \in N : \E s \in {0, 1} : Holds(p, s, n)
  PROVE  /\ MemInv' /\ Later
         /\ \A l \in Locs : l # Clock(p) => mem'[l] = mem[l]
         /\ \A o \in Protectors : o # p => used'[o] = used[o]
         /\ Stays => AccessAt(p)'
<1>1. MemInv /\ AccessAt(p) /\ TypeInv
  BY DEF FenceInv, AccessInv
<1>2. p \in Threads /\ Clock(p) \in Locs /\ Clock(p) \notin Slots
  BY ClockFacts DEF Threads
<1>3. nullptr \in Values
  BY DEF Values, nullptr
<1>4. Store(p, Clock(p), nullptr, "relaxed")
  BY DEF Access
<1>5. /\ MemInv' /\ Later
      /\ view'[p] = [view[p] EXCEPT ![Clock(p)] = Len(mem[Clock(p)]) + 1]
  BY <1>1, <1>2, <1>3, <1>4, StoreStep
<1>6. PICK w \in Writes : Written(p, Clock(p), w)
  BY <1>1, <1>2, <1>3, <1>4, StoreStep DEF Stored
<1>7. /\ \A l \in Locs : l # Clock(p) => mem'[l] = mem[l]
      /\ Len(mem'[Clock(p)]) = Len(mem[Clock(p)]) + 1
  BY <1>6 DEF Written
<1> DEFINE c == view[p][Clock(p)] + 1
<1>8. /\ view[p][Clock(p)] = Len(mem[Clock(p)]) /\ view[p][Clock(p)] \in Nat
      /\ view'[p][Clock(p)] = c
      /\ view'[p][Clock(p)] = Len(mem'[Clock(p)])
  BY <1>1, <1>2, <1>5, <1>7 DEF AccessAt, MemInv, Views
<1>9. /\ \A o \in Protectors : o # p => used'[o] = used[o]
      /\ DOMAIN used' = Protectors
      /\ DOMAIN used'[p] = N \cup DOMAIN used[p]
      /\ \A n \in N : used'[p][n] = c
      /\ \A n \in DOMAIN used[p] \ N : used'[p][n] = used[p][n]
  BY <1>1 DEF Access, TypeInv
<1>10. /\ \A q \in Protectors : Owns(p, q)' <=> Owns(p, q)
       /\ Owns(p, rec[p]) /\ rec[p] \in Protectors
  BY Owner DEF Owns
<1>11. \A q \in Protectors, s \in {0, 1} : mem'[Slot(q, s)] = mem[Slot(q, s)]
  BY <1>7, SlotFacts
<1>12. ASSUME NEW n \in N, Stays
       PROVE  \E q \in Protectors, s \in {0, 1} :
                \E k \in 1 .. Len(mem'[Slot(q, s)]) : Covered(p, n, q, s, k)'
  <2>1. PICK s \in {0, 1} : Holds(p, s, n)
    OBVIOUS
  <2>2. PICK q \in Protectors : q = rec[p]
    BY <1>10
  <2>3. PICK k : k = Len(mem[Slot(q, s)])
    OBVIOUS
  <2>4. Fenced(n, q, s, k)
    BY <2>1, <2>2, <2>3 DEF Holds
  <2>5. Fenced(n, q, s, k)' /\ k \in 1 .. Len(mem[Slot(q, s)])
    BY <1>12, <2>4, FencedMet DEF Stays
  <2>6. Covered(p, n, q, s, k)'
    BY <1>10, <1>11, <2>2, <2>3, <2>5 DEF Covered
  <2> QED BY <1>11, <2>5, <2>6
<1>13. ASSUME NEW n \in DOMAIN used[p] \ N, Stays
       PROVE  /\ used'[p][n] \in 0 .. view'[p][Clock(p)]
              /\ \E q \in Protectors, s \in {0, 1} :
                   \E k \in 1 .. Len(mem'[Slot(q, s)]) : Covered(p, n, q, s, k)'
  <2>1. used[p][n] \in 0 .. view[p][Clock(p)]
    BY <1>1 DEF AccessAt
  <2>2. PICK q \in Protectors, s \in {0, 1} :
          \E k \in 1 .. Len(mem[Slot(q, s)]) : Covered(p, n, q, s, k)
    BY <1>1 DEF AccessAt
  <2>3. PICK k \in 1 .. Len(mem[Slot(q, s)]) : Covered(p, n, q, s, k)
    BY <2>2
  <2>4. Fenced(n, q, s, k)'
    BY <1>13, <2>3 DEF Covered, Stays
  <2>5. Covered(p, n, q, s, k)'
    BY <1>9, <1>10, <1>11, <2>3, <2>4 DEF Covered
  <2> QED BY <1>8, <1>9, <1>11, <2>1, <2>5
<1>14. Stays => AccessAt(p)'
  <2> SUFFICES ASSUME Stays, NEW n \in DOMAIN used'[p]
               PROVE  /\ used'[p][n] \in 0 .. view'[p][Clock(p)]
                      /\ \E q \in Protectors, s \in {0, 1} :
                           \E k \in 1 .. Len(mem'[Slot(q, s)]) :
                             Covered(p, n, q, s, k)'
    BY <1>8 DEF AccessAt
  <2>1. CASE n \in N
    BY <1>8, <1>9, <1>12, <2>1
  <2>2. CASE n \notin N
    BY <1>9, <1>13, <2>2
  <2> QED BY <2>1, <2>2
<1> QED BY <1>5, <1>7, <1>9, <1>14

\* The protected node is read.
LEMMA PDerefInv ==
  ASSUME FenceInv, NEW p \in Protectors, PDeref(p), plan' = plan
  PROVE  FenceInv'
<1>1. MemInv /\ TypeInv /\ HoldAt(p)
  BY DEF FenceInv, HoldInv
<1>2. p \in Threads /\ \A q \in Protectors, s \in {0, 1} :
                         Slot(q, s) \in Locs /\ Slot(q, s) # Clock(p)
  BY SlotFacts DEF Threads
<1>3. PICK x \in {"set", "clear0"} : Goto(p, x)
  BY DEF PDeref
<1>4. /\ pc[p] = "deref" /\ pc'[p] = x
      /\ \A u \in Threads : u # p => pc'[u] = pc[u]
      /\ UNCHANGED <<retVars, rec, walk, ptr>> /\ Access(p, {ptr[p]})
  BY <1>1, <1>2, <1>3, Moves DEF PDeref, At
<1>5. Holds(p, 0, ptr[p]) /\ ptr[p] \in Nat \ {0} /\ rec[p] \in Protectors
  BY <1>1, <1>4, Owner DEF HoldAt, TypeInv
<1>6. /\ MemInv' /\ Later
      /\ \A l \in Locs : l # Clock(p) => mem'[l] = mem[l]
      /\ \A o \in Protectors : o # p => used'[o] = used[o]
      /\ Stays => AccessAt(p)'
  BY <1>3, <1>4, <1>5, AccessStep
<1>7. TypeInv'
  <2>1. DOMAIN used' = Protectors
    BY <1>1, <1>4 DEF Access, TypeInv
  <2> QED BY <1>1, <1>3, <1>4, <2>1, MovesType DEF TypeInv, PLabels, retVars
<1>8. Stays => Holds(p, 0, ptr[p])'
  <2>1. PICK n : n = ptr[p] /\ n = ptr'[p]
    BY <1>4
  <2>2. Holds(p, 0, n) /\ n \notin freed'
    BY <1>4, <1>5, <2>1 DEF Holds, retVars
  <2>3. Stays => Holds(p, 0, n)'
    BY <1>2, <1>4, <1>5, <1>6, <2>2, HoldsStays
  <2> QED BY <2>1, <2>3 DEF Holds
<1>9. Stays => HoldAt(p)'
  BY <1>3, <1>4, <1>5, <1>8 DEF HoldAt
<1> QED BY <1>3, <1>4, <1>6, <1>7, <1>9, QuietStep

\* The protected node's successor is read.
LEMMA PUseInv ==
  ASSUME FenceInv, NEW p \in Protectors, PUse(p), plan' = plan
  PROVE  FenceInv'
<1>1. MemInv /\ TypeInv /\ HoldAt(p)
  BY DEF FenceInv, HoldInv
<1>2. p \in Threads
  BY DEF Threads
<1>3. /\ pc[p] = "use" /\ pc'[p] = "clear0" /\ Goto(p, "clear0")
      /\ \A u \in Threads : u # p => pc'[u] = pc[u]
      /\ UNCHANGED <<retVars, rec, walk, ptr>>
      /\ Access(p, {ptr[p], Successor(p)})
  BY <1>1, <1>2, Moves DEF PUse, At
<1>4. Holds(p, 0, ptr[p]) /\ Holds(p, 1, Successor(p))
  BY <1>1, <1>3 DEF HoldAt
<1>5. /\ MemInv' /\ Later
      /\ \A l \in Locs : l # Clock(p) => mem'[l] = mem[l]
      /\ \A o \in Protectors : o # p => used'[o] = used[o]
      /\ Stays => AccessAt(p)'
  BY <1>3, <1>4, AccessStep
<1>6. TypeInv'
  <2>1. DOMAIN used' = Protectors
    BY <1>1, <1>3 DEF Access, TypeInv
  <2> QED BY <1>1, <1>3, <2>1, MovesType DEF TypeInv, PLabels, retVars
<1>7. HoldAt(p)'
  BY <1>3 DEF HoldAt
<1> QED BY <1>3, <1>5, <1>6, <1>7, QuietStep

\* A store of p to a slot of its record: it comes last in modification order
\* and carries p's accesses.
LEMMA SlotWrite ==
  ASSUME FenceInv, NEW p \in Protectors, NEW s \in {0, 1}, NEW x \in Nat,
         Store(p, Slot(rec[p], s), x, "release"),
         pc[p] \notin {"start", "walk", "done"}
  PROVE  /\ MemInv' /\ Later
         /\ \A l \in Locs : l # Slot(rec[p], s) => mem'[l] = mem[l]
         /\ Len(mem'[Slot(rec[p], s)]) = Len(mem[Slot(rec[p], s)]) + 1
         /\ mem'[Slot(rec[p], s)][Len(mem'[Slot(rec[p], s)])].val = x
         /\ mem'[Slot(rec[p], s)][Len(mem[Slot(rec[p], s)]) + 1].at[Clock(p)]
              = view[p][Clock(p)]
         /\ \A u \in {0, 1} :
              view'[p][Slot(rec[p], u)] = Len(mem'[Slot(rec[p], u)])
<1>1. PICK q \in Protectors : q = rec[p] /\ Owns(p, q) /\ OwnAt(p, q)
  BY Owner
<1> DEFINE l == Slot(q, s)
<1>2. p \in Threads /\ l \in Slots /\ l \in Locs /\ l # Clock(p)
      /\ Clock(p) \in Locs
      /\ \A u \in {0, 1} : Slot(q, u) \in Locs /\ (Slot(q, u) = l <=> u = s)
  BY SlotFacts, ClockFacts DEF Threads
<1>3. MemInv /\ x \in Values
  BY DEF FenceInv, Values
<1>4. \A u \in {0, 1} : view[p][Slot(q, u)] = Len(mem[Slot(q, u)])
  BY <1>1 DEF OwnAt
<1>5. /\ MemInv' /\ Later
      /\ view'[p] = [view[p] EXCEPT ![l] = Len(mem[l]) + 1]
  BY <1>1, <1>2, <1>3, <1>4, StoreStep
<1>6. PICK w \in Writes : Written(p, l, w) /\ w.val = x /\ w.at = view'[p]
  <2>1. Store(p, l, x, "release") /\ view[p][l] = Len(mem[l])
    BY <1>1, <1>4
  <2> HIDE DEF l
  <2>2. Stored(p, l, x, "release")
    BY <1>2, <1>3, <2>1, StoreStep
  <2> QED BY <2>2 DEF Stored
<1>7. /\ \A k \in Locs : k # l => mem'[k] = mem[k]
      /\ Len(mem'[l]) = Len(mem[l]) + 1 /\ mem'[l][Len(mem[l]) + 1] = w
  BY <1>6 DEF Written
<1>8. view[p] \in Views
  BY <1>2, <1>3, MemTypes
<1>9. view'[p][Clock(p)] = view[p][Clock(p)]
  BY <1>2, <1>5, <1>8 DEF Views
<1>10. \A u \in {0, 1} : view'[p][Slot(q, u)] = Len(mem'[Slot(q, u)])
  BY <1>2, <1>4, <1>5, <1>7, <1>8 DEF Views
<1> QED BY <1>1, <1>5, <1>6, <1>7, <1>9, <1>10

\* What a store to a slot of its own record leaves of the invariant.
LEMMA SlotStep ==
  ASSUME FenceInv, NEW p \in Protectors, NEW s \in {0, 1}, NEW x \in Nat,
         Store(p, Slot(rec[p], s), x, "release"), TypeInv',
         pc[p] \notin {"start", "walk", "done"},
         pc'[p] \notin {"start", "walk"}, pc'[p] = "done" => p \notin plan.leavers,
         UNCHANGED <<retVars, plan, rec, walk, used>>,
         \A u \in Threads : u # p => pc'[u] = pc[u],
         \A o \in Protectors : o # p => ptr'[o] = ptr[o],
         Stays => HoldAt(p)'
  PROVE  FenceInv'
<1>1. MemInv /\ CellInv /\ RecInv /\ AccessAt(p)
  BY DEF FenceInv, AccessInv
<1>2. /\ MemInv' /\ Later
      /\ \A l \in Locs : l # Slot(rec[p], s) => mem'[l] = mem[l]
      /\ Len(mem'[Slot(rec[p], s)]) = Len(mem[Slot(rec[p], s)]) + 1
      /\ mem'[Slot(rec[p], s)][Len(mem[Slot(rec[p], s)]) + 1].at[Clock(p)]
           = view[p][Clock(p)]
      /\ \A u \in {0, 1} :
           view'[p][Slot(rec[p], u)] = Len(mem'[Slot(rec[p], u)])
  BY SlotWrite
<1>3. PICK q \in Protectors : /\ q = rec[p] /\ Owns(p, q)
                              /\ \A o \in Protectors : Owns(p, o) <=> o = q
  BY Owner
<1>4. /\ \A l \in {src, head_, orphans_} : mem'[l] = mem[l]
      /\ \A o \in Protectors : mem'[Active(o)] = mem[Active(o)]
      /\ \A o \in Protectors : mem'[Clock(o)] = mem[Clock(o)]
      /\ \A o \in Protectors \ {q}, u \in {0, 1} :
           mem'[Slot(o, u)] = mem[Slot(o, u)]
      /\ \A u \in {0, 1} : u # s => mem'[Slot(q, u)] = mem[Slot(q, u)]
  <2>1. \A l \in Locs : l # Slot(q, s) => mem'[l] = mem[l]
    BY <1>2, <1>3
  <2> QED BY <2>1, SlotFacts, ActiveFacts, ClockFacts, LocFacts
<1>5. CellInv'
  BY <1>1, <1>4, CellFrame
<1>6. \A o, i \in Protectors : Owns(o, i)' <=> Owns(o, i)
  BY DEF Owns, Threads
<1>7. \A o \in Protectors :
        /\ pc'[o] \in {"start", "walk"} => rec[o] = 0
        /\ pc'[o] \notin {"start", "walk", "done"} => rec[o] # 0
  <2>1. rec[p] # 0
    BY Owner, LocFacts
  <2> QED BY <1>1, <2>1 DEF RecInv, WalkAt, Threads
<1>8. \A o \in Protectors :
        \/ \A u \in {0, 1} : mem'[Slot(o, u)] = mem[Slot(o, u)]
        \/ \E i \in Protectors :
             /\ Owns(i, o)
             /\ \A u \in {0, 1} : view'[i][Slot(o, u)] = Len(mem'[Slot(o, u)])
  BY <1>2, <1>3, <1>4
<1>9. RecInv'
  BY <1>1, <1>2, <1>4, <1>5, <1>6, <1>7, <1>8, RecFrame
<1>10. Stays => AccessAt(p)'
  <2>1. ASSUME NEW o \in Protectors, NEW u \in {0, 1}, Owns(p, o)
        PROVE  \/ Owns(p, o)' /\ Len(mem'[Slot(o, u)]) = Len(mem[Slot(o, u)])
               \/ /\ Len(mem'[Slot(o, u)]) = Len(mem[Slot(o, u)]) + 1
                  /\ mem'[Slot(o, u)][Len(mem[Slot(o, u)]) + 1].at[Clock(p)]
                       >= view[p][Clock(p)]
    <3>1. o = q
      BY <1>3, <2>1
    <3>2. view[p][Clock(p)] \in Nat
      BY <1>1, ClockFacts DEF MemInv, Views, Threads
    <3>3. CASE u = s
      BY <1>2, <1>3, <3>1, <3>2, <3>3
    <3>4. CASE u # s
      BY <1>4, <1>6, <2>1, <3>1, <3>4
    <3> QED BY <3>3, <3>4
  <2> QED BY <1>1, <1>2, <1>4, <2>1, AccessFrame
<1>11. \A o \in Protectors : ~Owns(p, o) =>
         \A u \in {0, 1} : mem'[Slot(o, u)] = mem[Slot(o, u)]
  BY <1>3, <1>4
<1> QED BY <1>2, <1>4, <1>5, <1>9, <1>10, <1>11, ProtectorStep

\* The publishing store of protect.
LEMMA PPublishInv ==
  ASSUME FenceInv, NEW p \in Protectors, PPublish(p), plan' = plan
  PROVE  FenceInv'
<1>1. TypeInv /\ HoldAt(p) /\ p \in Threads
  BY DEF FenceInv, HoldInv, Threads
<1>2. /\ pc[p] = "publish" /\ pc'[p] = "fence" /\ Goto(p, "fence")
      /\ \A u \in Threads : u # p => pc'[u] = pc[u]
      /\ UNCHANGED <<retVars, rec, walk, ptr, used>>
      /\ Store(p, Slot(rec[p], 0), ptr[p], "release")
  BY <1>1, Moves DEF PPublish, At, protVars
<1>3. ptr[p] \in Nat /\ ptr[p] # 0
  BY <1>1, <1>2 DEF TypeInv, HoldAt
<1>4. TypeInv'
  BY <1>1, <1>2, MovesType DEF TypeInv, PLabels, retVars
<1>5. mem'[Slot(rec[p], 0)][Len(mem'[Slot(rec[p], 0)])].val = ptr[p]
  BY <1>2, <1>3, SlotWrite
<1>6. HoldAt(p)'
  BY <1>2, <1>3, <1>5 DEF HoldAt, Names, Newest
<1> QED BY <1>2, <1>3, <1>4, <1>6, SlotStep

\* The store of set(1, next).
LEMMA PSetInv ==
  ASSUME FenceInv, NEW p \in Protectors, PSet(p), plan' = plan
  PROVE  FenceInv'
<1>1. TypeInv /\ HoldAt(p) /\ p \in Threads
  BY DEF FenceInv, HoldInv, Threads
<1>2. /\ pc[p] = "set" /\ pc'[p] = "setfence" /\ Goto(p, "setfence")
      /\ \A u \in Threads : u # p => pc'[u] = pc[u]
      /\ UNCHANGED <<retVars, rec, walk, ptr, used>>
      /\ Store(p, Slot(rec[p], 1), Successor(p), "release")
  BY <1>1, Moves DEF PSet, At, protVars
<1>3. /\ ptr[p] \in Nat /\ ptr[p] # 0 /\ Successor(p) = ptr[p] + 1
      /\ Holds(p, 0, ptr[p]) /\ rec[p] \in Protectors
  BY <1>1, <1>2, Owner DEF TypeInv, HoldAt, Successor
<1>4. TypeInv'
  BY <1>1, <1>2, MovesType DEF TypeInv, PLabels, retVars
<1>5. /\ mem'[Slot(rec[p], 1)][Len(mem'[Slot(rec[p], 1)])].val = Successor(p)
      /\ \A l \in Locs : l # Slot(rec[p], 1) => mem'[l] = mem[l]
  <2>1. PICK x \in Nat : x = Successor(p)
    BY <1>3
  <2>2. Store(p, Slot(rec[p], 1), x, "release")
    BY <1>2, <2>1
  <2> QED BY <1>2, <2>1, <2>2, SlotWrite
<1>6. Stays => Holds(p, 0, ptr[p])'
  <2>1. PICK n : n = ptr[p] /\ n = ptr'[p]
    BY <1>2
  <2>2. Holds(p, 0, n) /\ n \notin freed'
    BY <1>2, <1>3, <2>1 DEF Holds, retVars
  <2>3. mem'[Slot(rec[p], 0)] = mem[Slot(rec[p], 0)]
    BY <1>3, <1>5, SlotFacts
  <2>4. Stays => Holds(p, 0, n)'
    BY <1>2, <1>3, <2>2, <2>3, HoldsStays
  <2> QED BY <2>1, <2>4 DEF Holds
<1>7. Names(p, 1, Successor(p))'
  BY <1>2, <1>5 DEF Names, Newest, Successor
<1>8. Stays => HoldAt(p)'
  BY <1>2, <1>3, <1>6, <1>7 DEF HoldAt
<1> QED BY <1>2, <1>3, <1>4, <1>8, SlotStep

\* ~guard.
LEMMA PClearInv ==
  ASSUME FenceInv, NEW p \in Protectors, PClear(p), plan' = plan
  PROVE  FenceInv'
<1>1. TypeInv /\ p \in Threads /\ nullptr \in Nat
  BY DEF FenceInv, Threads, nullptr
<1>2. \E s \in {0, 1}, x \in {"clear1", "load", "wipe0", "done"} :
        /\ pc[p] \in {"clear0", "clear1"} /\ Goto(p, x)
        /\ Store(p, Slot(rec[p], s), nullptr, "release")
        /\ x = "done" => p \notin plan.leavers
        /\ x = "wipe0" => p \in plan.leavers
        /\ ptr' = ptr \/ ptr' = [ptr EXCEPT ![p] = nullptr]
        /\ UNCHANGED <<retVars, rec, walk, used>>
  <2>0. UNCHANGED <<retVars, rec, walk, used>>
    BY DEF PClear
  <2>1. CASE /\ At(p, "clear0") /\ Goto(p, "clear1")
             /\ Store(p, Slot(rec[p], 0), nullptr, clear_mo)
             /\ UNCHANGED <<ptr, rounds>>
    BY <2>0, <2>1 DEF At, clear_mo
  <2>2. CASE /\ At(p, "clear1")
             /\ Store(p, Slot(rec[p], 1), nullptr, clear_mo)
             /\ ptr' = [ptr EXCEPT ![p] = nullptr]
             /\ Goto(p, "load")
    BY <2>0, <2>2 DEF At, clear_mo
  <2>3. CASE /\ At(p, "clear1")
             /\ Store(p, Slot(rec[p], 1), nullptr, clear_mo)
             /\ ptr' = [ptr EXCEPT ![p] = nullptr]
             /\ Goto(p, IF p \in plan.leavers THEN "wipe0" ELSE "done")
    <3>1. CASE p \in plan.leavers
      BY <2>0, <2>3, <3>1 DEF At, clear_mo
    <3>2. CASE p \notin plan.leavers
      BY <2>0, <2>3, <3>2 DEF At, clear_mo
    <3> QED BY <3>1, <3>2
  <2> QED BY <2>1, <2>2, <2>3 DEF PClear
<1>20. PICK s \in {0, 1}, x \in {"clear1", "load", "wipe0", "done"} :
        /\ pc[p] \in {"clear0", "clear1"} /\ Goto(p, x)
        /\ Store(p, Slot(rec[p], s), nullptr, "release")
        /\ x = "done" => p \notin plan.leavers
        /\ x = "wipe0" => p \in plan.leavers
        /\ ptr' = ptr \/ ptr' = [ptr EXCEPT ![p] = nullptr]
        /\ UNCHANGED <<retVars, rec, walk, used>>
  BY <1>2
<1>3. pc'[p] = x /\ \A u \in Threads : u # p => pc'[u] = pc[u]
  BY <1>1, <1>20, Moves
<1>4. ptr' \in [Protectors -> Nat]
      /\ \A o \in Protectors : o # p => ptr'[o] = ptr[o]
  BY <1>1, <1>20 DEF TypeInv
<1>5. TypeInv'
  BY <1>1, <1>20, <1>4, MovesType DEF TypeInv, PLabels, retVars
<1>6. HoldAt(p)'
  BY <1>20, <1>3 DEF HoldAt
<1> QED BY <1>1, <1>20, <1>3, <1>4, <1>5, <1>6, SlotStep

\* ~tl_cache: the slots are wiped, then the record is released.
LEMMA PLeaveInv ==
  ASSUME FenceInv, NEW p \in Protectors, PLeave(p), plan' = plan
  PROVE  FenceInv'
<1>1. /\ MemInv /\ TypeInv /\ CellInv /\ RecInv /\ HoldAt(p) /\ AccessAt(p)
      /\ p \in Threads /\ nullptr \in Nat
  BY DEF FenceInv, HoldInv, AccessInv, Threads, nullptr
<1>2. UNCHANGED <<retVars, rec, walk, used, ptr>>
  BY DEF PLeave, protVars
<1>3. CASE /\ At(p, "wipe0") /\ Goto(p, "wipe1")
           /\ Store(p, Slot(rec[p], 0), nullptr, "release")
  <2>1. /\ pc[p] = "wipe0" /\ pc'[p] = "wipe1"
        /\ \A u \in Threads : u # p => pc'[u] = pc[u]
    BY <1>1, <1>3, Moves DEF At
  <2>2. TypeInv'
    BY <1>1, <1>2, <1>3, MovesType DEF TypeInv, PLabels, retVars
  <2>3. mem'[Slot(rec[p], 0)][Len(mem'[Slot(rec[p], 0)])].val = nullptr
    BY <1>1, <1>3, <2>1, SlotWrite
  <2>4. HoldAt(p)'
    <3>1. p \in plan.leavers
      BY <1>1, <2>1 DEF HoldAt
    <3> QED BY <1>2, <2>1, <2>3, <3>1 DEF HoldAt, Names, Newest
  <2> QED BY <1>1, <1>2, <1>3, <2>1, <2>2, <2>4, SlotStep
<1>4. CASE /\ At(p, "wipe1") /\ Goto(p, "release")
           /\ Store(p, Slot(rec[p], 1), nullptr, "release")
  <2>1. /\ pc[p] = "wipe1" /\ pc'[p] = "release"
        /\ \A u \in Threads : u # p => pc'[u] = pc[u]
    BY <1>1, <1>4, Moves DEF At
  <2>2. TypeInv'
    BY <1>1, <1>2, <1>4, MovesType DEF TypeInv, PLabels, retVars
  <2>3. /\ mem'[Slot(rec[p], 1)][Len(mem'[Slot(rec[p], 1)])].val = nullptr
        /\ \A l \in Locs : l # Slot(rec[p], 1) => mem'[l] = mem[l]
    BY <1>1, <1>4, <2>1, SlotWrite
  <2>4. mem'[Slot(rec[p], 0)] = mem[Slot(rec[p], 0)]
    BY <2>1, <2>3, Owner, SlotFacts
  <2>5. Names(p, 0, nullptr)'
    BY <1>1, <1>2, <2>1, <2>4 DEF HoldAt, Names, Newest
  <2>6. HoldAt(p)'
    <3>1. p \in plan.leavers
      BY <1>1, <2>1 DEF HoldAt
    <3>2. Names(p, 1, nullptr)'
      BY <1>2, <2>3 DEF Names, Newest
    <3> QED BY <2>1, <2>5, <3>1, <3>2 DEF HoldAt
  <2> QED BY <1>1, <1>2, <1>4, <2>1, <2>2, <2>6, SlotStep
<1>5. CASE /\ At(p, "release") /\ Goto(p, "done")
           /\ Store(p, Active(rec[p]), 0, "release")
  <2>1. /\ pc[p] = "release" /\ pc'[p] = "done"
        /\ \A u \in Threads : u # p => pc'[u] = pc[u]
    BY <1>1, <1>5, Moves DEF At
  <2>2. TypeInv'
    BY <1>1, <1>2, <1>5, MovesType DEF TypeInv, PLabels, retVars
  <2>3. PICK q \in Protectors :
          /\ q = rec[p] /\ Owns(p, q) /\ OwnAt(p, q)
          /\ \A o \in Protectors : Owns(p, o) <=> o = q
    BY <2>1, Owner
  <2>4. Active(q) \in Locs /\ Active(q) \notin Slots /\ 0 \in Values
    BY ActiveFacts DEF Values
  <2>5. Store(p, Active(q), 0, "release")
    BY <1>5, <2>3
  <2>6. /\ MemInv' /\ Later /\ Stored(p, Active(q), 0, "release")
        /\ view'[p] = [view[p] EXCEPT ![Active(q)] = Len(mem[Active(q)]) + 1]
    BY <1>1, <2>4, <2>5, StoreStep
  <2>7. PICK w \in Writes : /\ Written(p, Active(q), w) /\ w.val = 0
                            /\ w.at = view'[p]
    BY <2>6 DEF Stored
  <2>8. /\ \A l \in Locs : l # Active(q) => mem'[l] = mem[l]
        /\ Len(mem'[Active(q)]) = Len(mem[Active(q)]) + 1
        /\ mem'[Active(q)][Len(mem[Active(q)]) + 1] = w
        /\ \A u \in Threads : u # p => view'[u] = view[u]
    BY <2>7 DEF Written
  <2>9. /\ \A l \in {src, head_, orphans_} : mem'[l] = mem[l]
        /\ \A o \in Protectors : o # q => mem'[Active(o)] = mem[Active(o)]
        /\ \A o \in Protectors : mem'[Clock(o)] = mem[Clock(o)]
        /\ \A o \in Protectors, s \in {0, 1} : mem'[Slot(o, s)] = mem[Slot(o, s)]
    BY <2>8, ActiveFacts, ClockFacts, SlotFacts, LocFacts
  <2>10. CellInv'
    BY <1>1, <2>9, CellFrame
  <2>11. Newest(Active(q))' = w
    BY <2>8 DEF Newest
  <2>12. \A s \in {0, 1} : w.at[Slot(q, s)] = Len(mem'[Slot(q, s)])
    <3> SUFFICES ASSUME NEW s \in {0, 1}
                 PROVE  w.at[Slot(q, s)] = Len(mem'[Slot(q, s)])
      OBVIOUS
    <3>1. Slot(q, s) \in Locs /\ Slot(q, s) # Active(q) /\ view[p] \in Views
      BY <1>1, SlotFacts, MemTypes
    <3>2. w.at[Slot(q, s)] = view[p][Slot(q, s)]
      BY <2>6, <2>7, <3>1 DEF Views
    <3> QED BY <2>3, <2>9, <3>2 DEF OwnAt
  <2>13. \A o, i \in Protectors : Owns(o, i)' => Owns(o, i) /\ (o # p => i # q)
    <3>1. \A i \in Protectors : Owns(p, i)' => Owns(p, i)
      BY <1>2, <2>1 DEF Owns
    <3>2. \A o, i \in Protectors : o # p => (Owns(o, i)' <=> Owns(o, i))
      BY <1>2, <2>1 DEF Owns, Threads
    <3>3. \A o \in Protectors : Owns(o, q) => o = p
      BY <2>3 DEF OwnAt
    <3> QED BY <3>1, <3>2, <3>3
  <2>14. ASSUME NEW o \in Protectors PROVE view'[o][head_] = view[o][head_]
    <3>1. head_ \in Locs /\ head_ # Active(q) /\ o \in Threads
      BY LocFacts, ActiveFacts DEF Threads
    <3> QED BY <1>1, <2>6, <2>8, <3>1, MemTypes DEF Views
  <2>15. \A i : \A o \in Protectors : Linked(i, view[o])' <=> Linked(i, view[o])
    BY <2>9, <2>14 DEF Linked
  <2>16. Newest(head_)' = Newest(head_)
    BY <2>9 DEF Newest
  <2>17. ASSUME NEW o \in Protectors PROVE WalkAt(o)'
    <3>1. WalkAt(o)
      BY <1>1 DEF RecInv
    <3>2. o = p \/ pc'[o] = pc[o]
      BY <2>1 DEF Threads
    <3> QED BY <1>2, <2>1, <2>3, <2>15, <2>16, <3>1, <3>2 DEF WalkAt
  <2>18. ASSUME NEW o \in Protectors PROVE SpareAt(o)'
    <3>1. SpareAt(o)
      BY <1>1 DEF RecInv
    <3>2. CASE o = q
      <4>1. q \in Range(Newest(head_).val)
        BY <1>1, <2>3, MemTypes, NewestLinked DEF OwnAt, MemInv
      <4> QED BY <2>11, <2>12, <2>16, <3>2, <4>1 DEF SpareAt
    <3>3. CASE o # q
      <4>1. Newest(Active(o))' = Newest(Active(o))
        BY <2>9, <3>3 DEF Newest
      <4> QED BY <2>9, <2>16, <3>1, <4>1 DEF SpareAt
    <3> QED BY <3>2, <3>3
  <2>19. ~Owns(p, q)'
    BY <1>1, <2>1 DEF Owns, HoldAt
  <2>20. ASSUME NEW o \in Protectors, NEW i \in Protectors, Owns(o, i)'
         PROVE  OwnAt(o, i)'
    <3>1. Owns(o, i) /\ i # q /\ o # p
      BY <2>3, <2>13, <2>19, <2>20
    <3>2. OwnAt(o, i)
      BY <1>1, <3>1 DEF RecInv
    <3>3. o \in Threads
      BY DEF Threads
    <3>4. Newest(Active(i))' = Newest(Active(i)) /\ view'[o] = view[o]
      BY <2>8, <2>9, <3>1, <3>3 DEF Newest
    <3> QED BY <2>9, <2>13, <2>15, <3>2, <3>4 DEF OwnAt
  <2>21. RecInv'
    BY <2>17, <2>18, <2>20 DEF RecInv
  <2>22. HoldAt(p)'
    BY <2>1 DEF HoldAt
  <2>23. Stays => AccessAt(p)'
    <3>1. \A o \in Protectors, s \in {0, 1} :
            Owns(p, o) => Newest(Slot(o, s)).val = nullptr
      BY <1>1, <2>1, <2>3 DEF HoldAt, Names
    <3> QED BY <1>1, <1>2, <2>6, <2>9, <3>1, AccessFrame
  <2> QED BY <1>2, <2>1, <2>2, <2>6, <2>9, <2>10, <2>21, <2>22, <2>23,
             ProtectorStep
<1> QED BY <1>3, <1>4, <1>5 DEF PLeave

\* Nothing happens to memory.
LEMMA StillStep ==
  ASSUME MemInv, UNCHANGED memVars
  PROVE  MemInv' /\ Later
<1>1. \A y \in Views : Below(y, y)
  BY DEF Below, Views
<1>2. /\ sc \in Views /\ \A t \in Threads : view[t] \in Views
      /\ \A l \in Locs : Len(mem[l]) \in Nat
  BY MemTypes
<1>3. Later
  BY <1>1, <1>2 DEF Later, Extends, memVars
<1> QED BY <1>3 DEF MemInv, memVars, Sound

\* A step of p on its way to a record.
LEMMA WalkStep ==
  ASSUME FenceInv, NEW p \in Protectors, MemInv', Later, mem' = mem,
         pc[p] \in {"start", "walk"}, pc'[p] = "walk", TypeInv',
         UNCHANGED <<retVars, plan, rec, ptr, used>>,
         \A u \in Threads : u # p => pc'[u] = pc[u],
         \A o \in Protectors : o # p => walk'[o] = walk[o],
         \A q \in Range(walk'[p]) : Linked(q, view[p])'
  PROVE  FenceInv'
<1>1. MemInv /\ CellInv /\ RecInv /\ AccessAt(p)
  BY DEF FenceInv, AccessInv
<1>2. CellInv'
  BY <1>1, CellFrame
<1>3. rec[p] = 0
  BY <1>1 DEF RecInv, WalkAt
<1>4. \A o, q \in Protectors : Owns(o, q)' <=> Owns(o, q)
  BY DEF Owns, Threads
<1>5. \A o \in Protectors :
        /\ pc'[o] \in {"start", "walk"} => rec[o] = 0
        /\ pc'[o] \notin {"start", "walk", "done"} => rec[o] # 0
  BY <1>1, <1>3 DEF RecInv, WalkAt, Threads
<1>6. RecInv'
  <2>1. \A o \in Protectors : \/ walk'[o] = walk[o]
                              \/ \A q \in Range(walk'[o]) : Linked(q, view[o])'
    OBVIOUS
  <2> QED BY <1>1, <1>2, <1>4, <1>5, <2>1, RecFrame
<1>7. HoldAt(p)'
  BY DEF HoldAt
<1>8. Stays => AccessAt(p)'
  BY <1>1, <1>4, AccessFrame
<1> QED BY <1>2, <1>6, <1>7, <1>8, ProtectorStep

\* acquire_record: r = head_.load(acquire).
LEMMA PWalkInv ==
  ASSUME FenceInv, NEW p \in Protectors, PWalk(p), plan' = plan
  PROVE  FenceInv'
<1>1. MemInv /\ TypeInv /\ CellInv
  BY DEF FenceInv
<1>2. p \in Threads /\ head_ \in Locs \ Clocks /\ head_ \notin Slots
  BY LocFacts DEF Threads
<1>3. PICK i \in Readable(p, head_) :
        /\ Load(p, head_, i, "acquire")
        /\ walk' = [walk EXCEPT ![p] = mem[head_][i].val]
  BY DEF PWalk
<1>4. /\ MemInv' /\ Later /\ mem' = mem /\ i \in 1 .. Len(mem[head_])
      /\ view'[p][head_] = i
  BY <1>1, <1>2, <1>3, LoadStep
<1>5. mem[head_][i].val \in Seq(Protectors)
  BY <1>1, <1>4 DEF CellInv
<1>6. /\ pc[p] = "start" /\ pc'[p] = "walk" /\ Goto(p, "walk")
      /\ \A u \in Threads : u # p => pc'[u] = pc[u]
      /\ UNCHANGED <<retVars, rec, ptr, used>>
  BY <1>1, <1>2, Moves DEF PWalk, At
<1>7. /\ walk'[p] = mem[head_][i].val /\ walk' \in [Protectors -> Seq(Protectors)]
      /\ \A o \in Protectors : o # p => walk'[o] = walk[o]
  BY <1>1, <1>3, <1>5 DEF TypeInv
<1>8. TypeInv'
  BY <1>1, <1>6, <1>7, MovesType DEF TypeInv, PLabels, retVars
<1>9. \A q \in Range(walk'[p]) : Linked(q, view[p])'
  BY <1>4, <1>7 DEF Linked
<1> QED BY <1>4, <1>6, <1>7, <1>8, <1>9, WalkStep

\* A record that p may have is p's now.
LEMMA TakeStep ==
  ASSUME FenceInv, NEW p \in Protectors, NEW q \in Protectors, Acquired(p, q),
         pc[p] = "walk", plan' = plan, MemInv', CellInv', Later,
         \A o \in Protectors : ~Owns(o, q),
         \A o \in Protectors : mem'[Clock(o)] = mem[Clock(o)],
         \A o \in Protectors, s \in {0, 1} : mem'[Slot(o, s)] = mem[Slot(o, s)],
         \A o \in Protectors : o # q => mem'[Active(o)] = mem[Active(o)],
         Newest(Active(q))'.val = 1, Linked(q, view[p])',
         \A s \in {0, 1} : view'[p][Slot(q, s)] = Len(mem[Slot(q, s)]),
         Range(Newest(head_).val) \subseteq Range(Newest(head_)'.val),
         Range(Newest(head_)'.val) \subseteq Range(Newest(head_).val) \cup {p}
  PROVE  FenceInv'
<1>1. MemInv /\ TypeInv /\ CellInv /\ RecInv /\ AccessAt(p) /\ p \in Threads
  BY DEF FenceInv, AccessInv, Threads
<1>2. /\ rec' = [rec EXCEPT ![p] = q] /\ walk' = [walk EXCEPT ![p] = << >>]
      /\ Goto(p, "load") /\ UNCHANGED <<ptr, used, retVars>>
  BY DEF Acquired
<1>3. /\ pc'[p] = "load" /\ \A u \in Threads : u # p => pc'[u] = pc[u]
  BY <1>1, <1>2, Moves
<1>4. /\ rec'[p] = q /\ walk'[p] = << >>
      /\ \A o \in Protectors : o # p => rec'[o] = rec[o] /\ walk'[o] = walk[o]
      /\ rec' \in [Protectors -> 0 .. NProtectors]
      /\ walk' \in [Protectors -> Seq(Protectors)]
  BY <1>1, <1>2, LocFacts DEF TypeInv
<1>5. TypeInv'
  BY <1>1, <1>2, <1>4, MovesType DEF TypeInv, PLabels, retVars
<1>6. rec[p] = 0 /\ 0 \notin Protectors
  BY <1>1, LocFacts DEF RecInv, WalkAt
<1>7. /\ Owns(p, q)' /\ \A o \in Protectors : Owns(p, o)' => o = q
      /\ \A o, i \in Protectors : o # p => (Owns(o, i)' <=> Owns(o, i))
      /\ \A o \in Protectors : ~Owns(p, o)
  BY <1>3, <1>4, <1>6 DEF Owns, Threads
<1>8. ASSUME NEW o \in Protectors, NEW i, Linked(i, view[o])
      PROVE  Linked(i, view[o])'
  <2>1. o \in Threads
    BY DEF Threads
  <2>2. /\ view[o] \in Views /\ view'[o] \in Views /\ Sound(mem, view[o])
        /\ Sound(mem', view'[o]) /\ view[o][head_] <= view'[o][head_]
    BY <1>1, <2>1, LocFacts DEF MemInv, Later, Below
  <2> QED BY <1>1, <1>8, <2>2, LinkedStep DEF Linked
<1>9. ASSUME NEW o \in Protectors PROVE WalkAt(o)'
  <2>1. WalkAt(o)
    BY <1>1 DEF RecInv
  <2>2. CASE o = p
    <3>1. Range(<< >>) = {}
      BY DEF Range
    <3> QED BY <1>3, <1>4, <1>6, <2>2, <3>1 DEF WalkAt
  <2>3. CASE o # p
    <3>1. pc'[o] = pc[o]
      BY <1>3, <2>3 DEF Threads
    <3> QED BY <1>4, <1>8, <2>1, <2>3, <3>1 DEF WalkAt
  <2> QED BY <2>2, <2>3
<1>10. ASSUME NEW o \in Protectors PROVE SpareAt(o)'
  <2>1. SpareAt(o)
    BY <1>1 DEF RecInv
  <2>2. CASE o = q
    BY <2>1, <2>2 DEF SpareAt
  <2>3. CASE o # q
    <3>1. Newest(Active(o))' = Newest(Active(o))
      BY <2>3 DEF Newest
    <3> QED BY <2>1, <3>1 DEF SpareAt
  <2> QED BY <2>2, <2>3
<1>11. ASSUME NEW o \in Protectors, NEW i \in Protectors, Owns(o, i)'
       PROVE  OwnAt(o, i)'
  <2>1. CASE o = p
    <3>1. i = q
      BY <1>7, <1>11, <2>1
    <3> QED BY <1>7, <2>1, <3>1 DEF OwnAt
  <2>2. CASE o # p
    <3>1. Owns(o, i) /\ OwnAt(o, i) /\ i # q
      BY <1>1, <1>7, <1>11, <2>2 DEF RecInv
    <3>2. Newest(Active(i))' = Newest(Active(i)) /\ o \in Threads
      BY <3>1 DEF Newest, Threads
    <3>3. \A j \in Protectors : Owns(j, i)' => j = o
      BY <1>7, <3>1 DEF OwnAt
    <3>4. ASSUME NEW s \in {0, 1}
          PROVE  view'[o][Slot(i, s)] = Len(mem'[Slot(i, s)])
      <4>1. Slot(i, s) \in Locs
        BY SlotFacts
      <4>2. view[o][Slot(i, s)] <= view'[o][Slot(i, s)]
        BY <3>2, <4>1 DEF Later, Below
      <4>3. Sound(mem', view'[o])
        BY <3>2 DEF MemInv
      <4>4. view'[o][Slot(i, s)] <= Len(mem'[Slot(i, s)])
        BY <4>1, <4>3 DEF Sound
      <4>5. view[o][Slot(i, s)] \in Nat /\ view'[o][Slot(i, s)] \in Nat
        BY <1>1, <3>2, <4>1 DEF MemInv, Views
      <4> QED BY <3>1, <4>2, <4>4, <4>5 DEF OwnAt
    <3> QED BY <1>8, <3>1, <3>2, <3>3, <3>4 DEF OwnAt
  <2> QED BY <2>1, <2>2
<1>12. RecInv'
  BY <1>9, <1>10, <1>11 DEF RecInv
<1>13. HoldAt(p)'
  BY <1>3 DEF HoldAt
<1>14. Stays => AccessAt(p)'
  BY <1>1, <1>2, <1>7, AccessFrame
<1> QED BY <1>2, <1>3, <1>4, <1>5, <1>12, <1>13, <1>14, ProtectorStep

\* A record is recycled, or turns out to be taken.
LEMMA PRecycleInv ==
  ASSUME FenceInv, NEW p \in Protectors, PRecycle(p), plan' = plan
  PROVE  FenceInv'
<1>1. /\ MemInv /\ TypeInv /\ CellInv /\ RecInv /\ WalkAt(p) /\ p \in Threads
      /\ pc[p] = "walk" /\ walk[p] \in Seq(Protectors) /\ walk[p] # << >>
  BY DEF FenceInv, RecInv, TypeInv, Threads, PRecycle, At
<1>2. PICK q \in Protectors : q = Head(walk[p])
  BY <1>1
<1>3. /\ q \in Range(walk[p]) /\ Range(Tail(walk[p])) \subseteq Range(walk[p])
      /\ Tail(walk[p]) \in Seq(Protectors)
  BY <1>1, <1>2 DEF Range
<1>4. Linked(q, view[p])
  BY <1>1, <1>3 DEF WalkAt
<1>5. CASE /\ walk' = [walk EXCEPT ![p] = Tail(@)]
           /\ UNCHANGED <<memVars, pc, rec, ptr, rounds, used, retVars>>
  <2>1. MemInv' /\ Later
    BY <1>1, <1>5, StillStep
  <2>2. /\ walk'[p] = Tail(walk[p]) /\ walk' \in [Protectors -> Seq(Protectors)]
        /\ \A o \in Protectors : o # p => walk'[o] = walk[o]
    BY <1>1, <1>3, <1>5 DEF TypeInv
  <2>3. TypeInv'
    BY <1>1, <1>5, <2>2 DEF TypeInv, retVars
  <2>4. \A i \in Range(walk'[p]) : Linked(i, view[p])'
    BY <1>1, <1>3, <1>5, <2>2 DEF WalkAt, Linked, memVars
  <2>5. UNCHANGED <<retVars, plan, rec, ptr, used, mem, pc>>
    BY <1>5 DEF memVars
  <2> QED BY <1>1, <2>1, <2>2, <2>3, <2>4, <2>5, WalkStep
<1>6. CASE /\ Newest(Active(q)).val = 0 /\ Update(p, Active(q), 1, recycle_mo)
           /\ Acquired(p, q)
  <2>1. Active(q) \in Locs \ (Slots \cup Clocks) /\ 1 \in Values
    BY ActiveFacts DEF Values
  <2>2. Update(p, Active(q), 1, "acquire")
    BY <1>6 DEF recycle_mo
  <2>3. /\ MemInv' /\ Later /\ Updated(p, Active(q), 1, "acquire")
        /\ Below(Newest(Active(q)).at, view'[p])
    BY <1>1, <2>1, <2>2, UpdateStep
  <2>4. PICK w \in Writes : Written(p, Active(q), w) /\ w.val = 1
    BY <2>3 DEF Updated
  <2>5. /\ \A l \in Locs : l # Active(q) => mem'[l] = mem[l]
        /\ Newest(Active(q))' = w
    BY <2>4 DEF Written, Newest
  <2>6. /\ \A l \in {src, head_, orphans_} : mem'[l] = mem[l]
        /\ \A o \in Protectors : o # q => mem'[Active(o)] = mem[Active(o)]
        /\ \A o \in Protectors : mem'[Clock(o)] = mem[Clock(o)]
        /\ \A o \in Protectors, s \in {0, 1} : mem'[Slot(o, s)] = mem[Slot(o, s)]
    BY <2>5, ActiveFacts, ClockFacts, SlotFacts, LocFacts
  <2>7. CellInv'
    BY <1>1, <2>6, CellFrame
  <2>8. \A o \in Protectors : ~Owns(o, q)
    BY <1>1, <1>6 DEF RecInv, OwnAt
  <2>9. view[p] \in Views /\ view'[p] \in Views /\ Sound(mem, view[p])
        /\ Sound(mem', view'[p])
    BY <1>1, <2>3 DEF MemInv
  <2>10. Linked(q, view[p])'
    <3>1. view[p][head_] <= view'[p][head_]
      BY <1>1, <2>3, LocFacts DEF Later, Below
    <3> QED BY <1>1, <1>4, <2>3, <2>7, <2>9, <3>1, LinkedStep DEF Linked
  <2>11. ASSUME NEW s \in {0, 1}
         PROVE  view'[p][Slot(q, s)] = Len(mem[Slot(q, s)])
    <3>1. Slot(q, s) \in Locs
      BY SlotFacts
    <3>2. Newest(Active(q)).at[Slot(q, s)] = Len(mem[Slot(q, s)])
      BY <1>1, <1>6 DEF RecInv, SpareAt
    <3>3. /\ Len(mem[Slot(q, s)]) <= view'[p][Slot(q, s)]
          /\ view'[p][Slot(q, s)] <= Len(mem'[Slot(q, s)])
      BY <2>3, <2>9, <3>1, <3>2 DEF Below, Sound
    <3>4. Len(mem[Slot(q, s)]) \in Nat /\ view'[p][Slot(q, s)] \in Nat
      BY <1>1, <2>9, <3>1, MemTypes DEF Views
    <3> QED BY <2>6, <3>3, <3>4
  <2>12. Newest(head_)' = Newest(head_)
    BY <2>6 DEF Newest
  <2> QED BY <1>1, <1>6, <2>3, <2>4, <2>5, <2>6, <2>7, <2>8, <2>10, <2>11,
             <2>12, TakeStep
<1> QED BY <1>2, <1>5, <1>6 DEF PRecycle

\* A new record is pushed.
LEMMA PLinkInv ==
  ASSUME FenceInv, NEW p \in Protectors, PLink(p), plan' = plan
  PROVE  FenceInv'
<1>1. /\ MemInv /\ TypeInv /\ CellInv /\ RecInv /\ WalkAt(p) /\ SpareAt(p)
      /\ p \in Threads /\ pc[p] = "walk"
  BY DEF FenceInv, RecInv, Threads, PLink, At
<1>2. p \notin Range(Newest(head_).val)
  BY <1>1 DEF WalkAt
<1>3. head_ \in Locs \ (Slots \cup Clocks) /\ Len(mem[head_]) \in Nat
      /\ Len(mem[head_]) \in 1 .. Len(mem[head_])
  BY <1>1, LocFacts, MemTypes
<1> DEFINE old == Newest(head_).val
           new == <<p>> \o old
<1>4. old \in Seq(Protectors)
  BY <1>1, <1>3 DEF CellInv, Newest
<1> HIDE DEF old
<1>5. new \in Seq(Protectors) /\ Range(new) = Range(old) \cup {p}
  <2>1. new \in Seq(Protectors) /\ Len(new) = Len(old) + 1 /\ Len(old) \in Nat
        /\ new[1] = p /\ \A i \in 1 .. Len(old) : new[i + 1] = old[i]
    BY <1>4
  <2> HIDE DEF new
  <2>2. ASSUME NEW x \in Range(new) PROVE x \in Range(old) \cup {p}
    <3>1. PICK i \in 1 .. Len(new) : x = new[i]
      BY <2>1 DEF Range
    <3>2. CASE i = 1
      BY <2>1, <3>1, <3>2
    <3>3. CASE i # 1
      <4>1. i - 1 \in 1 .. Len(old) /\ new[(i - 1) + 1] = old[i - 1]
        BY <2>1, <3>3
      <4>2. x = old[i - 1]
        BY <2>1, <3>1, <4>1
      <4> QED BY <1>4, <4>1, <4>2 DEF Range
    <3> QED BY <3>2, <3>3
  <2>3. p \in Range(new)
    BY <2>1 DEF Range
  <2>4. ASSUME NEW x \in Range(old) PROVE x \in Range(new)
    <3>1. PICK i \in 1 .. Len(old) : x = old[i]
      BY <1>4 DEF Range
    <3>2. i + 1 \in 1 .. Len(new) /\ new[i + 1] = x
      BY <2>1, <3>1
    <3> QED BY <2>1, <3>2 DEF Range
  <2> QED BY <2>1, <2>2, <2>3, <2>4
<1>6. Update(p, head_, new, "release") /\ Acquired(p, p)
  BY DEF PLink, old
<1> HIDE DEF new
<1>7. new \in Values
  BY <1>5 DEF Values
<1>8. /\ MemInv' /\ Later /\ Updated(p, head_, new, "release")
      /\ view'[p][head_] = Len(mem[head_]) + 1
      /\ \A l \in Locs : l # head_ => view'[p][l] = view[p][l]
  BY <1>1, <1>3, <1>6, <1>7, UpdateStep
<1>9. PICK w \in Writes : Written(p, head_, w) /\ w.val = new
  BY <1>8 DEF Updated
<1>10. /\ \A l \in Locs : l # head_ => mem'[l] = mem[l]
       /\ Len(mem'[head_]) = Len(mem[head_]) + 1
       /\ mem'[head_][Len(mem[head_]) + 1] = w
       /\ \A i \in 1 .. Len(mem[head_]) : mem'[head_][i] = mem[head_][i]
       /\ Newest(head_)' = w
  BY <1>9 DEF Written, Newest
<1>11. /\ mem'[src] = mem[src] /\ mem'[orphans_] = mem[orphans_]
       /\ \A o \in Protectors : mem'[Active(o)] = mem[Active(o)]
       /\ \A o \in Protectors : mem'[Clock(o)] = mem[Clock(o)]
       /\ \A o \in Protectors, s \in {0, 1} : mem'[Slot(o, s)] = mem[Slot(o, s)]
  BY <1>10, ActiveFacts, ClockFacts, SlotFacts, LocFacts
<1>12. CellInv'
  <2>1. \A i \in 1 .. Len(mem[head_]) :
          Range(mem[head_][i].val) \subseteq Range(old)
    <3> SUFFICES ASSUME NEW i \in 1 .. Len(mem[head_])
                 PROVE  Range(mem[head_][i].val)
                          \subseteq Range(mem[head_][Len(mem[head_])].val)
      BY DEF Newest, old
    <3>1. i <= Len(mem[head_])
      BY <1>3
    <3> QED BY <1>1, <1>3, <3>1 DEF CellInv
  <2>2. ASSUME NEW i \in 1 .. Len(mem'[head_])
        PROVE  \/ i \in 1 .. Len(mem[head_]) /\ mem'[head_][i] = mem[head_][i]
               \/ i = Len(mem[head_]) + 1 /\ mem'[head_][i].val = new
    BY <1>3, <1>9, <1>10
  <2>3. \A i \in 1 .. Len(mem'[head_]) : mem'[head_][i].val \in Seq(Protectors)
    BY <1>1, <1>5, <2>2 DEF CellInv
  <2>4. ASSUME NEW i \in 1 .. Len(mem'[head_]), NEW j \in 1 .. Len(mem'[head_]),
               i <= j
        PROVE  Range(mem'[head_][i].val) \subseteq Range(mem'[head_][j].val)
    <3>1. CASE j \in 1 .. Len(mem[head_]) /\ mem'[head_][j] = mem[head_][j]
      <4>1. i \in 1 .. Len(mem[head_]) /\ mem'[head_][i] = mem[head_][i]
        BY <1>3, <1>10, <2>4, <3>1
      <4> QED BY <1>1, <2>4, <3>1, <4>1 DEF CellInv
    <3>2. CASE j = Len(mem[head_]) + 1 /\ mem'[head_][j].val = new
      BY <1>5, <2>1, <2>2, <3>2
    <3> QED BY <2>2, <3>1, <3>2
  <2>5. Newest(orphans_)' = Newest(orphans_)
    BY <1>11 DEF Newest
  <2> QED BY <1>1, <1>11, <2>3, <2>4, <2>5 DEF CellInv
<1>13. ASSUME NEW o \in Protectors PROVE ~Owns(o, p)
  <2>1. o \in Threads /\ view[o] \in Views /\ Sound(mem, view[o])
    BY <1>1 DEF Threads, MemInv
  <2> QED BY <1>1, <1>2, <2>1, NewestLinked DEF RecInv, OwnAt
<1>14. Newest(Active(p))'.val = 1
  BY <1>1, <1>2, <1>11 DEF SpareAt, Newest
<1>15. Linked(p, view[p])'
  BY <1>5, <1>8, <1>9, <1>10 DEF Linked
<1>16. ASSUME NEW s \in {0, 1} PROVE view'[p][Slot(p, s)] = Len(mem[Slot(p, s)])
  <2>1. /\ Slot(p, s) \in Locs /\ Slot(p, s) # head_ /\ Slot(p, s) \notin Clocks
    BY SlotFacts
  <2>2. Len(mem[Slot(p, s)]) = 1
    BY <1>1, <1>2 DEF SpareAt
  <2>3. Sound(mem, view[p]) /\ view[p] \in Views
    BY <1>1 DEF MemInv
  <2>4. /\ view[p][Slot(p, s)] \in Nat /\ view[p][Slot(p, s)] >= 1
        /\ view[p][Slot(p, s)] <= Len(mem[Slot(p, s)])
    BY <2>1, <2>3 DEF Sound, Views
  <2>5. view'[p][Slot(p, s)] = view[p][Slot(p, s)]
    BY <1>8, <2>1
  <2> QED BY <2>2, <2>4, <2>5
<1>17. /\ Range(Newest(head_).val) \subseteq Range(Newest(head_)'.val)
       /\ Range(Newest(head_)'.val) \subseteq Range(Newest(head_).val) \cup {p}
  BY <1>5, <1>9, <1>10 DEF old
<1> QED BY <1>1, <1>6, <1>8, <1>11, <1>12, <1>13, <1>14, <1>15, <1>16, <1>17,
           TakeStep

-----------------------------------------------------------------------------
(* The steps of a retirer                                                  *)

\* After r's step its scan has met every fenced hazard still.
Keeps(r) == \A q \in Protectors, s \in {0, 1} : \A n, k :
              Fenced(n, q, s, k) => Met(r, n, q, s, k)'

\* Between scans there is nothing to meet.
LEMMA IdleKeeps ==
  ASSUME NEW r \in Retirers, pc'[r] \notin {"snap", "slots", "free"}
  PROVE  Keeps(r)
BY DEF Keeps, Met, Scanning

\* What is left to show for a step of r.
LEMMA RetirerStep ==
  ASSUME FenceInv, NEW r \in Retirers,
         MemInv', CellInv', TypeInv', BagInv', Later,
         UNCHANGED <<protVars, plan>>,
         \A u \in Threads : u # r => pc'[u] = pc[u],
         \A t \in Retirers : t # r =>
           bag'[t] = bag[t] /\ hz'[t] = hz[t] /\ todo'[t] = todo[t],
         \A l \in Locs : l \notin {src, orphans_} => mem'[l] = mem[l],
         Keeps(r),
         \A o \in Protectors, s \in {0, 1}, n \in Nat :
           Holds(o, s, n) => n \notin freed'
  PROVE  FenceInv'
<1>1. /\ MemInv /\ TypeInv /\ CellInv /\ RecInv /\ BagInv /\ HoldInv
      /\ AccessInv
  BY DEF FenceInv
<1>2. /\ \A t \in Retirers : t \in Threads
      /\ \A o \in Protectors : o \in Threads /\ o # r
  BY FenceAssumption DEF Threads
<1>3. /\ \A q \in Protectors : mem'[Active(q)] = mem[Active(q)]
      /\ \A q \in Protectors : mem'[Clock(q)] = mem[Clock(q)]
      /\ \A q \in Protectors, s \in {0, 1} : mem'[Slot(q, s)] = mem[Slot(q, s)]
      /\ mem'[head_] = mem[head_]
  BY ActiveFacts, ClockFacts, SlotFacts, LocFacts
<1>4. /\ \A o \in Protectors : pc'[o] = pc[o]
      /\ UNCHANGED <<rec, walk, ptr, used>>
  BY <1>2 DEF protVars
<1>5. \A t \in Retirers : t # r => SameScan(t)
  BY <1>2 DEF SameScan
<1>6. Stays
  <2> SUFFICES ASSUME NEW q \in Protectors, NEW s \in {0, 1}, NEW n, NEW k,
                      Fenced(n, q, s, k)
               PROVE  Fenced(n, q, s, k)'
    BY DEF Stays
  <2>1. k \in Nat
    <3>1. Len(mem[Slot(q, s)]) \in Nat /\ k \in 1 .. Len(mem[Slot(q, s)])
      BY <1>1, SlotFacts, MemTypes, FencedMet
    <3> QED BY <3>1
  <2>2. \A t \in Retirers : t # r => (Met(t, n, q, s, k) => Met(t, n, q, s, k)')
    BY <1>1, <1>5, <2>1, MetFrame
  <2>3. Met(r, n, q, s, k)'
    BY DEF Keeps
  <2>4. \A t \in Retirers : Met(t, n, q, s, k) => Met(t, n, q, s, k)'
    BY <2>2, <2>3
  <2> QED BY <1>1, <2>4, FencedFrame
<1>7. \A o, q \in Protectors : Owns(o, q)' <=> Owns(o, q)
  BY <1>4 DEF Owns
<1>8. RecInv'
  <2>1. \A o \in Protectors :
          /\ pc'[o] \in {"start", "walk"} => rec[o] = 0
          /\ pc'[o] \notin {"start", "walk", "done"} => rec[o] # 0
    BY <1>1, <1>4 DEF RecInv, WalkAt
  <2> QED BY <1>1, <1>3, <1>4, <1>7, <2>1, RecFrame
<1>9. ASSUME NEW o \in Protectors PROVE HoldAt(o)' /\ AccessAt(o)'
  <2>1. HoldAt(o) /\ WalkAt(o) /\ AccessAt(o)
    BY <1>1 DEF HoldInv, RecInv, AccessInv
  <2>2. Owns(o, rec[o]) => \A s \in {0, 1} :
                             mem'[Slot(rec[o], s)] = mem[Slot(rec[o], s)]
    BY <1>3 DEF Owns
  <2>3. \A s \in {0, 1}, n \in Nat : Holds(o, s, n) => n \notin freed'
    OBVIOUS
  <2>4. HoldAt(o)'
    BY <1>1, <1>4, <1>6, <2>1, <2>2, <2>3, HoldFrame
  <2>5. \A q \in Protectors, s \in {0, 1} : Owns(o, q) =>
          Owns(o, q)' /\ Len(mem'[Slot(q, s)]) = Len(mem[Slot(q, s)])
    BY <1>3, <1>7
  <2>6. used'[o] = used[o] /\ mem'[Clock(o)] = mem[Clock(o)]
    BY <1>3, <1>4
  <2>7. AccessAt(o)'
    BY <1>1, <1>6, <2>1, <2>5, <2>6, AccessFrame
  <2> QED BY <2>4, <2>7
<1> QED BY <1>8, <1>9 DEF FenceInv, HoldInv, AccessInv

\* The bags after a step of r.
LEMMA BagStep ==
  ASSUME BagInv, TypeInv, MemInv, MemInv', Later, NEW r \in Retirers,
         \A u \in Threads : u # r => pc'[u] = pc[u],
         \A t \in Retirers : t # r => bag'[t] = bag[t] /\ todo'[t] = todo[t],
         \A n \in bag'[r] :
           \/ n \in bag[r] /\ (Scanning(r)' => Scanning(r))
           \/ n >= 1 /\ view'[r][src] > n /\ (Scanning(r)' => sc'[src] > n),
         \A n \in freed' : n \in freed \/ (n \in Nat /\ sc[src] > n),
         pc'[r] = "slots" => todo'[r] # << >>
  PROVE  BagInv'
<1>1. src \in Locs /\ sc \in Views /\ sc' \in Views
      /\ \A t \in Retirers : t \in Threads /\ view[t] \in Views /\ view'[t] \in Views
  BY LocFacts DEF Threads, MemInv, Sound
<1>2. sc[src] <= sc'[src] /\ sc[src] \in Nat /\ sc'[src] \in Nat
      /\ \A t \in Retirers : /\ view[t][src] <= view'[t][src]
                             /\ view[t][src] \in Nat /\ view'[t][src] \in Nat
  BY <1>1 DEF Later, Below, Views
<1>3. \A t \in Retirers : \A n \in bag[t] : n \in Nat
  BY DEF TypeInv
<1>4. \A n \in freed : n \in Nat
  BY DEF TypeInv
<1>5. ASSUME NEW t \in Retirers
      PROVE  /\ \A n \in bag'[t] : /\ n >= 1 /\ view'[t][src] > n
                                   /\ Scanning(t)' => sc'[src] > n
             /\ pc'[t] = "slots" => todo'[t] # << >>
  <2>1. CASE t # r
    BY <1>1, <1>2, <1>3, <2>1 DEF BagInv, Scanning
  <2>2. CASE t = r
    <3>1. ASSUME NEW n \in bag'[r], n \in bag[r] /\ (Scanning(r)' => Scanning(r))
          PROVE  n >= 1 /\ view'[r][src] > n /\ (Scanning(r)' => sc'[src] > n)
      BY <1>2, <1>3, <3>1 DEF BagInv
    <3> QED BY <2>2, <3>1
  <2> QED BY <2>1, <2>2
<1>6. \A n \in freed' : sc'[src] > n
  BY <1>2, <1>4 DEF BagInv
<1> QED BY <1>5, <1>6 DEF BagInv

\* Where a retirer may go.
LEMMA RMovesType ==
  ASSUME TypeInv, NEW r \in Retirers, NEW x \in RLabels, Goto(r, x)
  PROVE  /\ pc' \in [Threads -> PLabels \cup RLabels]
         /\ \A o \in Protectors : pc'[o] \in PLabels
         /\ \A t \in Retirers : pc'[t] \in RLabels
         /\ r \in Threads /\ pc'[r] = x
         /\ \A u \in Threads : u # r => pc'[u] = pc[u]
<1>1. r \in Threads /\ \A o \in Protectors : r # o
  BY FenceAssumption DEF Threads
<1> QED BY <1>1 DEF TypeInv, Goto

\* ~tl_cache begins.
LEMMA RExitInv ==
  ASSUME FenceInv, NEW r \in Retirers, RExit(r), plan' = plan
  PROVE  FenceInv'
<1>1. MemInv /\ TypeInv /\ CellInv /\ BagInv
  BY DEF FenceInv
<1>2. PICK x \in {"adopt", "done"} : Goto(r, x)
  BY DEF RExit
<1>3. x \in RLabels
  BY DEF RLabels
<1>4. UNCHANGED <<memVars, mem, protVars, bag, todo, hz, freed>>
  BY DEF RExit, memVars
<1>5. MemInv' /\ Later
  BY <1>1, <1>4, StillStep
<1>6. /\ pc'[r] = x /\ \A u \in Threads : u # r => pc'[u] = pc[u]
  BY <1>1, <1>2, <1>3, RMovesType
<1>7. TypeInv'
  BY <1>1, <1>2, <1>3, <1>4, RMovesType DEF TypeInv, protVars
<1>8. CellInv'
  BY <1>1, <1>4, CellFrame
<1>9. ~Scanning(r)' /\ pc'[r] # "slots" /\ Keeps(r)
  BY <1>6, IdleKeeps DEF Scanning
<1>10. BagInv'
  BY <1>1, <1>4, <1>5, <1>6, <1>9, BagStep
<1>11. \A o \in Protectors, s \in {0, 1}, n \in Nat :
         Holds(o, s, n) => n \notin freed'
  BY <1>4 DEF Holds
<1> QED BY <1>4, <1>5, <1>6, <1>7, <1>8, <1>9, <1>10, <1>11, RetirerStep

\* A dequeue's CAS of head_ unlinks a node, which goes into r's bag.
LEMMA RUnlinkInv ==
  ASSUME FenceInv, NEW r \in Retirers, RUnlink(r), plan' = plan
  PROVE  FenceInv'
<1>1. MemInv /\ TypeInv /\ CellInv /\ BagInv /\ r \in Threads
  BY DEF FenceInv, Threads
<1>2. PICK x \in {"ready", "adopt"} : Goto(r, x)
  BY DEF RUnlink
<1>3. x \in RLabels
  BY DEF RLabels
<1>4. PICK n \in Nat \ {0} : n = Len(mem[src]) /\ n = Newest(src).val
  <2>1. Len(mem[src]) \in Nat /\ Len(mem[src]) >= 1
    BY <1>1, LocFacts, MemTypes
  <2>2. Newest(src).val = Len(mem[src])
    BY <1>1, <2>1 DEF CellInv, Newest
  <2> QED BY <2>1, <2>2
<1>5. /\ Update(r, src, n + 1, "release")
      /\ bag' = [bag EXCEPT ![r] = @ \cup {n}]
      /\ UNCHANGED <<protVars, todo, hz, freed>>
  BY <1>4 DEF RUnlink
<1>6. src \in Locs \ (Slots \cup Clocks) /\ n + 1 \in Values
  BY LocFacts DEF Values
<1>7. /\ MemInv' /\ Later /\ Updated(r, src, n + 1, "release")
      /\ view'[r][src] = Len(mem[src]) + 1
  BY <1>1, <1>5, <1>6, UpdateStep
<1>8. PICK w \in Writes : Written(r, src, w) /\ w.val = n + 1
  BY <1>7 DEF Updated
<1>9. /\ Len(mem'[src]) = n + 1 /\ mem'[src][n + 1] = w
      /\ \A i \in 1 .. n : mem'[src][i] = mem[src][i]
      /\ \A l \in Locs : l # src => mem'[l] = mem[l]
  BY <1>4, <1>8 DEF Written
<1>10. CellInv'
  <2>1. mem'[head_] = mem[head_] /\ mem'[orphans_] = mem[orphans_]
    BY <1>9, LocFacts
  <2>2. \A i \in 1 .. Len(mem'[src]) : mem'[src][i].val = i
    BY <1>1, <1>4, <1>8, <1>9 DEF CellInv
  <2>3. Newest(orphans_)' = Newest(orphans_)
    BY <2>1 DEF Newest
  <2> QED BY <1>1, <2>1, <2>2, <2>3 DEF CellInv
<1>11. /\ pc'[r] = x /\ \A u \in Threads : u # r => pc'[u] = pc[u]
  BY <1>1, <1>2, <1>3, RMovesType
<1>12. /\ bag'[r] = bag[r] \cup {n} /\ bag' \in [Retirers -> SUBSET Nat]
       /\ \A t \in Retirers : t # r => bag'[t] = bag[t]
  BY <1>1, <1>5 DEF TypeInv
<1>13. TypeInv'
  BY <1>1, <1>2, <1>3, <1>5, <1>12, RMovesType DEF TypeInv, protVars
<1>14. ~Scanning(r)' /\ pc'[r] # "slots" /\ Keeps(r)
  BY <1>11, IdleKeeps DEF Scanning
<1>15. BagInv'
  <2>1. \A m \in bag'[r] : \/ m \in bag[r] /\ (Scanning(r)' => Scanning(r))
                           \/ /\ m >= 1 /\ view'[r][src] > m
                              /\ Scanning(r)' => sc'[src] > m
    <3>1. n \in Nat /\ n >= 1
      OBVIOUS
    <3>2. n = Len(mem[src])
      BY <1>4
    <3>3. view'[r][src] = n + 1
      BY <1>7, <3>2, Zenon
    <3>4. view'[r][src] > n
      BY <3>1, <3>3
    <3> QED BY <1>12, <1>14, <3>1, <3>4
  <2> QED BY <1>1, <1>5, <1>7, <1>11, <1>12, <1>14, <2>1, BagStep
<1>16. \A o \in Protectors, s \in {0, 1}, m \in Nat :
         Holds(o, s, m) => m \notin freed'
  BY <1>5 DEF Holds
<1> QED BY <1>5, <1>7, <1>9, <1>10, <1>11, <1>12, <1>13, <1>14, <1>15, <1>16,
           RetirerStep

\* What a write to orphans_ leaves alone.
LEMMA OrphanCells ==
  ASSUME MemInv, CellInv, NEW r \in Threads, NEW w \in Writes,
         Written(r, orphans_, w), w.val \in SUBSET (Nat \ {0}),
         \A n \in w.val : w.at[src] > n
  PROVE  CellInv' /\ \A l \in Locs : l # orphans_ => mem'[l] = mem[l]
<1>1. /\ Len(mem'[orphans_]) = Len(mem[orphans_]) + 1
      /\ mem'[orphans_][Len(mem[orphans_]) + 1] = w
      /\ \A i \in 1 .. Len(mem[orphans_]) : mem'[orphans_][i] = mem[orphans_][i]
      /\ \A l \in Locs : l # orphans_ => mem'[l] = mem[l]
      /\ Newest(orphans_)' = w
  BY DEF Written, Newest
<1>2. mem'[src] = mem[src] /\ mem'[head_] = mem[head_]
      /\ Len(mem[orphans_]) \in Nat
  BY <1>1, LocFacts, MemTypes
<1>3. \A i \in 1 .. Len(mem'[orphans_]) :
        mem'[orphans_][i].val \in SUBSET (Nat \ {0})
  <2>1. TAKE i \in 1 .. Len(mem'[orphans_])
  <2>2. CASE i = Len(mem[orphans_]) + 1
    BY <1>1, <2>2
  <2>3. CASE i # Len(mem[orphans_]) + 1
    <3>1. i \in 1 .. Len(mem[orphans_])
      BY <1>1, <1>2, <2>3
    <3> QED BY <1>1, <3>1 DEF CellInv
  <2> QED BY <2>2, <2>3
<1>4. \A n \in Newest(orphans_)'.val : Newest(orphans_)'.at[src] > n
  BY <1>1
<1>5. /\ \A i \in 1 .. Len(mem'[src]) : mem'[src][i].val = i
      /\ \A i \in 1 .. Len(mem'[head_]) : mem'[head_][i].val \in Seq(Protectors)
      /\ \A i, j \in 1 .. Len(mem'[head_]) :
           i <= j => Range(mem'[head_][i].val) \subseteq Range(mem'[head_][j].val)
  BY <1>2 DEF CellInv
<1> QED BY <1>1, <1>3, <1>4, <1>5 DEF CellInv

\* The orphans are adopted: whoever pushed one had it unlinked in view.
LEMMA SAdoptInv ==
  ASSUME FenceInv, NEW r \in Retirers, SAdopt(r), plan' = plan
  PROVE  FenceInv'
<1>1. MemInv /\ TypeInv /\ CellInv /\ BagInv /\ r \in Threads
  BY DEF FenceInv, Threads
<1>2. PICK x \in {"ready", "scanfence"} : Goto(r, x)
  BY DEF SAdopt
<1>3. x \in RLabels
  BY DEF RLabels
<1> DEFINE A == Newest(orphans_).val
<1>4. orphans_ \in Locs \ (Slots \cup Clocks) /\ {} \in Values /\ src \in Locs
  BY LocFacts DEF Values
<1>5. /\ Update(r, orphans_, {}, "acquire")
      /\ bag' = [bag EXCEPT ![r] = @ \cup A]
      /\ UNCHANGED <<protVars, todo, hz, freed>>
  BY DEF SAdopt
<1>6. /\ MemInv' /\ Later /\ Updated(r, orphans_, {}, "acquire")
      /\ Below(Newest(orphans_).at, view'[r])
  BY <1>1, <1>4, <1>5, UpdateStep
<1>7. PICK w \in Writes : Written(r, orphans_, w) /\ w.val = {}
  BY <1>6 DEF Updated
<1>8. CellInv' /\ \A l \in Locs : l # orphans_ => mem'[l] = mem[l]
  BY <1>1, <1>7, OrphanCells
<1>9. A \in SUBSET (Nat \ {0}) /\ Newest(orphans_).at \in Views
  <2>1. Len(mem[orphans_]) \in 1 .. Len(mem[orphans_])
    BY <1>1, <1>4, MemTypes
  <2> QED BY <1>1, <1>4, <2>1, MemTypes DEF CellInv, Newest
<1>10. \A n \in A : n >= 1 /\ view'[r][src] > n
  <2>1. /\ Newest(orphans_).at[src] <= view'[r][src]
        /\ Newest(orphans_).at[src] \in Nat /\ view'[r][src] \in Nat
    BY <1>1, <1>4, <1>6, <1>9 DEF Below, Views, MemInv
  <2>2. \A n \in A : n \in Nat \ {0} /\ Newest(orphans_).at[src] > n
    BY <1>1, <1>9 DEF CellInv
  <2> QED BY <2>1, <2>2
<1> HIDE DEF A
<1>11. /\ pc'[r] = x /\ \A u \in Threads : u # r => pc'[u] = pc[u]
  BY <1>1, <1>2, <1>3, RMovesType
<1>12. /\ bag'[r] = bag[r] \cup A /\ bag' \in [Retirers -> SUBSET Nat]
       /\ \A t \in Retirers : t # r => bag'[t] = bag[t]
  BY <1>1, <1>5, <1>9 DEF TypeInv
<1>13. TypeInv'
  BY <1>1, <1>2, <1>3, <1>5, <1>12, RMovesType DEF TypeInv, protVars
<1>14. ~Scanning(r)' /\ pc'[r] # "slots" /\ Keeps(r)
  BY <1>11, IdleKeeps DEF Scanning
<1>15. BagInv'
  BY <1>1, <1>5, <1>6, <1>10, <1>11, <1>12, <1>14, BagStep
<1>16. \A o \in Protectors, s \in {0, 1}, m \in Nat :
         Holds(o, s, m) => m \notin freed'
  BY <1>5 DEF Holds
<1> QED BY <1>5, <1>6, <1>8, <1>11, <1>12, <1>13, <1>14, <1>15, <1>16,
           RetirerStep

\* A node the exit scan had to keep becomes an orphan.
LEMMA ROrphanInv ==
  ASSUME FenceInv, NEW r \in Retirers, ROrphan(r), plan' = plan
  PROVE  FenceInv'
<1>1. MemInv /\ TypeInv /\ CellInv /\ BagInv /\ r \in Threads
  BY DEF FenceInv, Threads
<1>2. PICK x \in {"done", "orphan"} : Goto(r, x)
  BY DEF ROrphan
<1>3. x \in RLabels
  BY DEF RLabels
<1> DEFINE A == Newest(orphans_).val
<1>4. PICK n \in bag[r] :
        /\ Update(r, orphans_, A \cup {n}, "release")
        /\ bag' = [bag EXCEPT ![r] = @ \ {n}]
  BY DEF ROrphan
<1>5. UNCHANGED <<protVars, todo, hz, freed>>
  BY DEF ROrphan
<1>6. n \in Nat \ {0} /\ view[r][src] > n
  BY <1>1 DEF TypeInv, BagInv
<1>7. orphans_ \in Locs \ (Slots \cup Clocks) /\ src \in Locs
  BY LocFacts
<1>8. A \in SUBSET (Nat \ {0}) /\ Newest(orphans_).at \in Views
      /\ \A m \in A : Newest(orphans_).at[src] > m
  <2>1. Len(mem[orphans_]) \in 1 .. Len(mem[orphans_])
    BY <1>1, <1>7, MemTypes
  <2> QED BY <1>1, <1>7, <2>1, MemTypes DEF CellInv, Newest
<1> HIDE DEF A
<1>9. A \cup {n} \in Values /\ A \cup {n} \in SUBSET (Nat \ {0})
  BY <1>6, <1>8 DEF Values
<1>10. MemInv' /\ Later /\ Updated(r, orphans_, A \cup {n}, "release")
  BY <1>1, <1>4, <1>7, <1>9, UpdateStep
<1>11. PICK w \in Writes :
         /\ Written(r, orphans_, w) /\ w.val = A \cup {n}
         /\ Below(Newest(orphans_).at, w.at) /\ Below(view[r], w.at)
  BY <1>10 DEF Updated
<1>12. \A m \in w.val : w.at[src] > m
  <2>1. /\ Newest(orphans_).at[src] <= w.at[src] /\ view[r][src] <= w.at[src]
        /\ Newest(orphans_).at[src] \in Nat /\ view[r][src] \in Nat
        /\ w.at[src] \in Nat
    BY <1>1, <1>7, <1>8, <1>11 DEF Below, Views, MemInv, Writes
  <2>2. \A m \in A : m \in Nat /\ Newest(orphans_).at[src] > m
    BY <1>8
  <2> QED BY <1>6, <1>11, <2>1, <2>2
<1>13. CellInv' /\ \A l \in Locs : l # orphans_ => mem'[l] = mem[l]
  BY <1>1, <1>9, <1>11, <1>12, OrphanCells
<1>14. /\ pc'[r] = x /\ \A u \in Threads : u # r => pc'[u] = pc[u]
  BY <1>1, <1>2, <1>3, RMovesType
<1>15. /\ bag'[r] = bag[r] \ {n} /\ bag' \in [Retirers -> SUBSET Nat]
       /\ \A t \in Retirers : t # r => bag'[t] = bag[t]
  BY <1>1, <1>4 DEF TypeInv
<1>16. TypeInv'
  BY <1>1, <1>2, <1>3, <1>5, <1>15, RMovesType DEF TypeInv, protVars
<1>17. ~Scanning(r)' /\ pc'[r] # "slots" /\ Keeps(r)
  BY <1>14, IdleKeeps DEF Scanning
<1>18. BagInv'
  BY <1>1, <1>5, <1>10, <1>14, <1>15, <1>17, BagStep
<1>19. \A o \in Protectors, s \in {0, 1}, m \in Nat :
         Holds(o, s, m) => m \notin freed'
  BY <1>5 DEF Holds
<1> QED BY <1>5, <1>10, <1>13, <1>14, <1>15, <1>16, <1>17, <1>18, <1>19,
           RetirerStep

\* The deleters run: what is freed, nobody holds.
LEMMA SFreeInv ==
  ASSUME FenceInv, NEW r \in Retirers, SFree(r), plan' = plan
  PROVE  FenceInv'
<1>1. MemInv /\ TypeInv /\ CellInv /\ RecInv /\ BagInv /\ r \in Threads
  BY DEF FenceInv, Threads
<1>2. PICK x \in {"ready", "done", "orphan"} : Goto(r, x)
  BY DEF SFree
<1>3. x \in RLabels
  BY DEF RLabels
<1>4. /\ pc[r] = "free" /\ freed' = freed \cup (bag[r] \ hz[r])
      /\ bag' = [bag EXCEPT ![r] = @ \cap hz[r]]
      /\ hz' = [hz EXCEPT ![r] = {}]
      /\ UNCHANGED <<memVars, mem, protVars, todo>>
  BY DEF SFree, At, memVars
<1>5. MemInv' /\ Later
  BY <1>1, <1>4, StillStep
<1>6. /\ pc'[r] = x /\ \A u \in Threads : u # r => pc'[u] = pc[u]
  BY <1>1, <1>2, <1>3, RMovesType
<1>7. /\ bag'[r] = bag[r] \cap hz[r] /\ bag' \in [Retirers -> SUBSET Nat]
      /\ \A t \in Retirers : t # r => bag'[t] = bag[t] /\ hz'[t] = hz[t]
      /\ hz' \in [Retirers -> SUBSET Values]
  BY <1>1, <1>4 DEF TypeInv
<1>8. \A n \in bag[r] : n \in Nat /\ sc[src] > n
  BY <1>1, <1>4 DEF TypeInv, BagInv, Scanning
<1>9. freed' \in SUBSET Nat
  BY <1>1, <1>4, <1>8 DEF TypeInv
<1>10. TypeInv'
  BY <1>1, <1>2, <1>3, <1>4, <1>7, <1>9, RMovesType DEF TypeInv, protVars
<1>11. CellInv'
  BY <1>1, <1>4, CellFrame
<1>12. ~Scanning(r)' /\ pc'[r] # "slots" /\ Keeps(r)
  BY <1>6, IdleKeeps DEF Scanning
<1>13. BagInv'
  BY <1>1, <1>4, <1>5, <1>6, <1>7, <1>8, <1>12, BagStep
<1>14. ASSUME NEW o \in Protectors, NEW s \in {0, 1}, NEW n \in Nat,
              Holds(o, s, n)
       PROVE  n \notin freed'
  <2> SUFFICES ASSUME n \in bag[r], n \notin hz[r] PROVE FALSE
    BY <1>4, <1>14 DEF Holds
  <2> DEFINE l == Slot(rec[o], s)
  <2>1. view[r][l] > Len(mem[l]) /\ Len(mem[l]) \in 1 .. Len(mem[l])
    BY <1>4, <1>14 DEF Holds, Fenced
  <2>2. l \in Locs
    <3>1. rec[o] \in Range(mem[head_][sc[head_]].val)
      BY <1>14 DEF Holds, Fenced, Linked
    <3>2. sc[head_] \in 1 .. Len(mem[head_])
      <4>1. head_ \in Locs /\ head_ \notin Clocks
        BY LocFacts
      <4>2. Sound(mem, sc) /\ Len(mem[head_]) \in Nat
        BY <1>1, <4>1, MemTypes DEF MemInv
      <4> QED BY <4>1, <4>2 DEF Sound, Views
    <3>3. mem[head_][sc[head_]].val \in Seq(Protectors)
      BY <1>1, <3>2 DEF CellInv
    <3>4. rec[o] \in Protectors
      BY <3>1, <3>3 DEF Range
    <3> QED BY <3>4, SlotFacts
  <2>3. Sound(mem, view[r]) /\ view[r] \in Views /\ Len(mem[l]) \in Nat
    BY <1>1, <2>2, MemTypes DEF MemInv
  <2>4. view[r][l] <= Len(mem[l]) /\ view[r][l] \in Nat
    BY <2>2, <2>3 DEF Sound, Views
  <2> QED BY <2>1, <2>3, <2>4
<1> QED BY <1>4, <1>5, <1>6, <1>7, <1>10, <1>11, <1>12, <1>13, <1>14,
           RetirerStep

\* The fence of a scan: r gets what all fenced hazards are seen with.
LEMMA SFenceInv ==
  ASSUME FenceInv, NEW r \in Retirers, SFence(r), plan' = plan
  PROVE  FenceInv'
<1>1. MemInv /\ TypeInv /\ CellInv /\ BagInv /\ r \in Threads
  BY DEF FenceInv, Threads
<1>2. /\ Goto(r, "snap") /\ "snap" \in RLabels /\ Fence(r)
      /\ UNCHANGED <<protVars, bag, todo, hz, freed>>
  BY DEF SFence, RLabels, scan_fence, retVars
<1>3. /\ MemInv' /\ Later /\ mem' = mem /\ view'[r] = sc'
  BY <1>1, <1>2, FenceStep
<1>4. /\ pc'[r] = "snap" /\ \A u \in Threads : u # r => pc'[u] = pc[u]
  BY <1>1, <1>2, RMovesType
<1>5. TypeInv'
  BY <1>1, <1>2, RMovesType DEF TypeInv, protVars
<1>6. CellInv'
  BY <1>1, <1>3, CellFrame
<1>7. Sound(mem, sc) /\ Sound(mem', sc') /\ sc \in Views /\ sc' \in Views
      /\ Below(sc, sc')
  BY <1>1, <1>3 DEF MemInv, Sound, Later
<1>8. Keeps(r)
  <2> SUFFICES ASSUME NEW q \in Protectors, NEW s \in {0, 1}, NEW n, NEW k,
                      Fenced(n, q, s, k)
               PROVE  Met(r, n, q, s, k)'
    BY DEF Keeps
  <2>1. Slot(q, s) \in Locs /\ head_ \in Locs
    BY SlotFacts, LocFacts
  <2>2. Linked(q, sc) /\ sc[Slot(q, s)] >= k /\ k \in 1 .. Len(mem[Slot(q, s)])
    BY FencedMet
  <2>3. Linked(q, sc)'
    <3>1. sc[head_] <= sc'[head_]
      BY <1>7, <2>1 DEF Below
    <3> QED BY <1>1, <1>3, <1>6, <1>7, <2>2, <3>1, LinkedStep DEF Linked
  <2>4. sc'[Slot(q, s)] >= k
    <3>1. Len(mem[Slot(q, s)]) \in Nat
      BY <1>1, <2>1, MemTypes
    <3>2. sc[Slot(q, s)] <= sc'[Slot(q, s)] /\ sc[Slot(q, s)] \in Nat
          /\ sc'[Slot(q, s)] \in Nat
      BY <1>7, <2>1 DEF Below, Views
    <3> QED BY <2>2, <3>1, <3>2
  <2>5. Linked(q, view[r])'
    BY <1>3, <2>3 DEF Linked
  <2> QED BY <1>3, <1>4, <2>4, <2>5 DEF Met
<1>9. BagInv'
  <2>1. ASSUME NEW n \in bag[r] PROVE n >= 1 /\ sc'[src] > n
    <3>1. view[r][src] <= view'[r][src] /\ view[r][src] \in Nat
          /\ view'[r][src] \in Nat
      BY <1>1, <1>3, LocFacts DEF Later, Below, MemInv, Views
    <3>2. n \in Nat
      BY <1>1 DEF TypeInv
    <3> QED BY <1>1, <1>3, <3>1, <3>2 DEF BagInv
  <2> QED BY <1>1, <1>2, <1>3, <1>4, <2>1, BagStep
<1>10. \A o \in Protectors, s \in {0, 1}, m \in Nat :
         Holds(o, s, m) => m \notin freed'
  BY <1>2 DEF Holds
<1> QED BY <1>2, <1>3, <1>4, <1>5, <1>6, <1>8, <1>9, <1>10, RetirerStep

\* The slots of a list of records, as a scan goes through them.
LEMMA SlotsOf ==
  ASSUME NEW recs \in Seq(Protectors), NEW T,
         T = [j \in 1 .. 2 * Len(recs) |->
                Slot(recs[(j + 1) \div 2], (j + 1) % 2)]
  PROVE  /\ T \in Seq(Slots) /\ (T = << >> <=> recs = << >>)
         /\ \A q \in Range(recs), s \in {0, 1} : Slot(q, s) \in Range(T)
<1>1. Len(recs) \in Nat /\ 2 * Len(recs) \in Nat
      /\ \A i \in 1 .. Len(recs) : recs[i] \in Protectors
  OBVIOUS
<1>2. ASSUME NEW j \in 1 .. 2 * Len(recs)
      PROVE  (j + 1) \div 2 \in 1 .. Len(recs) /\ (j + 1) % 2 \in {0, 1}
  BY <1>1
<1>3. \A j \in 1 .. 2 * Len(recs) : T[j] \in Slots
  BY <1>1, <1>2 DEF Slots
<1>4. T \in Seq(Slots) /\ Len(T) = 2 * Len(recs) /\ DOMAIN T = 1 .. 2 * Len(recs)
  BY <1>1, <1>3
<1>5. T = << >> <=> recs = << >>
  BY <1>1, <1>4
<1>6. ASSUME NEW q \in Range(recs), NEW s \in {0, 1}
      PROVE  Slot(q, s) \in Range(T)
  <2>1. PICK i \in 1 .. Len(recs) : recs[i] = q
    BY DEF Range
  <2>2. PICK j \in Nat : j = 2 * i - 1 + s
    BY <1>1
  <2>3. j \in 1 .. 2 * Len(recs)
    BY <1>1, <2>2
  <2>4. (j + 1) \div 2 = i /\ (j + 1) % 2 = s
    <3>1. \A m \in Nat : /\ (2 * m) \div 2 = m /\ (2 * m) % 2 = 0
                         /\ (2 * m + 1) \div 2 = m /\ (2 * m + 1) % 2 = 1
      OBVIOUS
    <3>2. CASE s = 0
      <4>1. j + 1 = 2 * i
        BY <2>2, <3>2
      <4> QED BY <3>1, <3>2, <4>1
    <3>3. CASE s = 1
      <4>1. j + 1 = 2 * i + 1
        BY <2>2, <3>3
      <4> QED BY <3>1, <3>3, <4>1
    <3> QED BY <3>2, <3>3
  <2>5. T[j] = Slot(q, s)
    BY <2>1, <2>3, <2>4
  <2> QED BY <1>4, <2>3, <2>5 DEF Range
<1> QED BY <1>4, <1>5, <1>6

\* The list a scan reads has the records whose hazards were fenced before.
LEMMA SWalkInv ==
  ASSUME FenceInv, NEW r \in Retirers, SWalk(r), plan' = plan
  PROVE  FenceInv'
<1>1. MemInv /\ TypeInv /\ CellInv /\ BagInv /\ r \in Threads /\ pc[r] = "snap"
  BY DEF FenceInv, Threads, SWalk, At
<1>2. head_ \in Locs \ Clocks /\ head_ \notin Slots
  BY LocFacts
<1>3. PICK i \in Readable(r, head_) :
        /\ Load(r, head_, i, "acquire")
        /\ Goto(r, IF mem[head_][i].val = << >> THEN "free" ELSE "slots")
        /\ LET recs == mem[head_][i].val
           IN  todo' = [todo EXCEPT ![r] =
                 [j \in 1 .. 2 * Len(recs) |->
                    Slot(recs[(j + 1) \div 2], (j + 1) % 2)]]
  BY DEF SWalk
<1> DEFINE recs == mem[head_][i].val
           T == [j \in 1 .. 2 * Len(recs) |->
                   Slot(recs[(j + 1) \div 2], (j + 1) % 2)]
<1>4. UNCHANGED <<protVars, bag, hz, freed>>
  BY DEF SWalk
<1>5. /\ MemInv' /\ Later /\ mem' = mem /\ view[r][head_] <= i
      /\ i \in 1 .. Len(mem[head_])
  BY <1>1, <1>2, <1>3, LoadStep
<1>6. recs \in Seq(Protectors)
  BY <1>1, <1>5 DEF CellInv
<1>7. PICK x \in {"free", "slots"} :
        Goto(r, x) /\ (x = "free" => recs = << >>) /\ (x = "slots" => recs # << >>)
  <2>1. CASE recs = << >>
    BY <1>3, <2>1
  <2>2. CASE recs # << >>
    BY <1>3, <2>2
  <2> QED BY <2>1, <2>2
<1>8. todo' = [todo EXCEPT ![r] = T]
  BY <1>3
<1> HIDE DEF recs
<1>9. /\ T \in Seq(Slots) /\ (T = << >> <=> recs = << >>)
      /\ \A q \in Range(recs), s \in {0, 1} : Slot(q, s) \in Range(T)
  BY <1>6, SlotsOf
<1> HIDE DEF T
<1>10. x \in RLabels
  BY DEF RLabels
<1>11. /\ pc'[r] = x /\ \A u \in Threads : u # r => pc'[u] = pc[u]
  BY <1>1, <1>7, <1>10, RMovesType
<1>12. /\ todo'[r] = T /\ todo' \in [Retirers -> Seq(Slots)]
       /\ \A t \in Retirers : t # r => todo'[t] = todo[t]
  BY <1>1, <1>8, <1>9 DEF TypeInv
<1>13. TypeInv'
  BY <1>1, <1>4, <1>7, <1>10, <1>12, RMovesType DEF TypeInv, protVars
<1>14. CellInv'
  BY <1>1, <1>5, CellFrame
<1>15. Keeps(r)
  <2> SUFFICES ASSUME NEW q \in Protectors, NEW s \in {0, 1}, NEW n, NEW k,
                      Fenced(n, q, s, k), n \in bag[r]
               PROVE  /\ view'[r][Slot(q, s)] >= k /\ pc'[r] = "slots"
                      /\ Slot(q, s) \in Range(todo'[r])
    BY <1>4 DEF Keeps, Met
  <2>1. /\ Linked(q, view[r]) /\ view[r][Slot(q, s)] >= k
        /\ k \in 1 .. Len(mem[Slot(q, s)])
    BY <1>1 DEF Fenced, Scanning
  <2>2. Slot(q, s) \in Locs
    BY SlotFacts
  <2>3. view'[r][Slot(q, s)] >= k
    <3>1. view[r][Slot(q, s)] <= view'[r][Slot(q, s)]
          /\ view[r][Slot(q, s)] \in Nat /\ view'[r][Slot(q, s)] \in Nat
          /\ Len(mem[Slot(q, s)]) \in Nat
      BY <1>1, <1>5, <2>2, MemTypes DEF Later, Below, MemInv, Views
    <3> QED BY <2>1, <3>1
  <2>4. q \in Range(recs)
    <3>1. view[r][head_] \in 1 .. Len(mem[head_])
      <4>1. Sound(mem, view[r]) /\ Len(mem[head_]) \in Nat
        BY <1>1, <1>2, MemTypes DEF MemInv
      <4> QED BY <1>2, <4>1 DEF Sound, Views
    <3> QED BY <1>1, <1>5, <2>1, <3>1 DEF CellInv, Linked, recs
  <2>5. recs # << >>
    <3>1. Range(<< >>) = {}
      BY DEF Range
    <3> QED BY <2>4, <3>1
  <2> QED BY <1>7, <1>9, <1>11, <1>12, <2>3, <2>4, <2>5
<1>16. BagInv'
  <2>1. Scanning(r)
    BY <1>1 DEF Scanning
  <2>2. pc'[r] = "slots" => todo'[r] # << >>
    BY <1>7, <1>9, <1>11, <1>12
  <2> QED BY <1>1, <1>4, <1>5, <1>11, <1>12, <2>1, <2>2, BagStep
<1>17. \A o \in Protectors, s \in {0, 1}, m \in Nat :
         Holds(o, s, m) => m \notin freed'
  BY <1>4 DEF Holds
<1> QED BY <1>4, <1>5, <1>11, <1>12, <1>13, <1>14, <1>15, <1>16, <1>17,
           RetirerStep

\* What is left of a sequence.
LEMMA TailRange ==
  ASSUME NEW S, NEW t \in Seq(S), t # << >>
  PROVE  /\ \A y \in Range(t) : y = Head(t) \/ y \in Range(Tail(t))
         /\ Len(t) = 1 <=> Tail(t) = << >>
<1>1. Len(t) \in Nat /\ Len(t) >= 1 /\ Tail(t) \in Seq(S)
      /\ Len(Tail(t)) = Len(t) - 1 /\ Head(t) = t[1]
      /\ \A j \in 1 .. Len(t) - 1 : Tail(t)[j] = t[j + 1]
  OBVIOUS
<1>2. PICK u \in Seq(S) : u = Tail(t)
  BY <1>1
<1>3. ASSUME NEW y \in Range(t), y # Head(t) PROVE y \in Range(u)
  <2>1. PICK j \in 1 .. Len(t) : y = t[j]
    BY DEF Range
  <2>2. j # 1
    BY <1>1, <1>3, <2>1
  <2>3. PICK i \in 1 .. Len(t) - 1 : i + 1 = j
    BY <1>1, <2>2
  <2>4. u[i] = y /\ i \in 1 .. Len(u)
    BY <1>1, <1>2, <2>1, <2>3
  <2> QED BY <2>4 DEF Range
<1>4. Len(t) = 1 <=> Len(u) = 0
  BY <1>1, <1>2
<1>5. Len(u) = 0 <=> u = << >>
  OBVIOUS
<1> QED BY <1>2, <1>3, <1>4, <1>5

\* A slot is read: the scan finds the hazard, or a later write.
LEMMA SSlotInv ==
  ASSUME FenceInv, NEW r \in Retirers, SSlot(r), plan' = plan
  PROVE  FenceInv'
<1>1. /\ MemInv /\ TypeInv /\ CellInv /\ BagInv /\ r \in Threads
      /\ pc[r] = "slots"
  BY DEF FenceInv, Threads, SSlot, At
<1>2. todo[r] \in Seq(Slots) /\ todo[r] # << >>
  BY <1>1 DEF TypeInv, BagInv
<1>3. PICK l \in Slots : l = Head(todo[r])
  BY <1>2
<1>4. PICK i \in Readable(r, l) :
        /\ Load(r, l, i, "acquire")
        /\ hz' = [hz EXCEPT ![r] = @ \cup ({mem[l][i].val} \ {nullptr})]
  BY <1>3 DEF SSlot
<1>5. l \in Locs /\ l \in Locs \ Clocks
  BY LocFacts
<1>6. /\ MemInv' /\ Later /\ mem' = mem /\ view[r][l] <= i /\ view'[r][l] = i
      /\ i \in 1 .. Len(mem[l])
  BY <1>1, <1>4, <1>5, LoadStep
<1>7. PICK x \in {"free", "slots"} :
        /\ Goto(r, x) /\ (x = "free" => Len(todo[r]) = 1)
        /\ x = "slots" => Len(todo[r]) # 1
  <2>1. CASE Len(todo[r]) = 1
    BY <2>1 DEF SSlot
  <2>2. CASE Len(todo[r]) # 1
    BY <2>2 DEF SSlot
  <2> QED BY <2>1, <2>2
<1>8. todo' = [todo EXCEPT ![r] = Tail(@)] /\ UNCHANGED <<protVars, bag, freed>>
  BY DEF SSlot
<1>9. x \in RLabels
  BY DEF RLabels
<1>10. /\ pc'[r] = x /\ \A u \in Threads : u # r => pc'[u] = pc[u]
  BY <1>1, <1>7, <1>9, RMovesType
<1>11. /\ todo'[r] = Tail(todo[r]) /\ todo' \in [Retirers -> Seq(Slots)]
       /\ \A t \in Retirers : t # r => todo'[t] = todo[t]
  BY <1>1, <1>2, <1>8 DEF TypeInv
<1>12. mem[l][i].val \in Values
  BY <1>1, <1>5, <1>6, MemTypes DEF Writes
<1>13. /\ hz'[r] = hz[r] \cup ({mem[l][i].val} \ {nullptr})
       /\ hz' \in [Retirers -> SUBSET Values]
       /\ \A t \in Retirers : t # r => hz'[t] = hz[t]
  BY <1>1, <1>4, <1>12 DEF TypeInv
<1>14. TypeInv'
  BY <1>1, <1>7, <1>8, <1>9, <1>11, <1>13, RMovesType DEF TypeInv, protVars
<1>15. CellInv'
  BY <1>1, <1>6, CellFrame
<1>16. /\ \A y \in Range(todo[r]) : y = l \/ y \in Range(Tail(todo[r]))
       /\ Len(todo[r]) = 1 <=> Tail(todo[r]) = << >>
  BY <1>2, <1>3, TailRange
<1>17. x = "slots" <=> Tail(todo[r]) # << >>
  BY <1>7, <1>16
<1>18. Keeps(r)
  <2> SUFFICES ASSUME NEW q \in Protectors, NEW s \in {0, 1}, NEW n, NEW k,
                      Fenced(n, q, s, k), n \in bag[r]
               PROVE  /\ view'[r][Slot(q, s)] >= k
                      /\ \/ n \in hz'[r] \/ view'[r][Slot(q, s)] > k
                         \/ Slot(q, s) \in Range(todo'[r]) /\ pc'[r] = "slots"
    BY <1>7, <1>8, <1>10 DEF Keeps, Met
  <2>1. /\ view[r][Slot(q, s)] >= k /\ k \in 1 .. Len(mem[Slot(q, s)])
        /\ n \in Nat \ {0} /\ mem[Slot(q, s)][k].val = n
        /\ \/ n \in hz[r] \/ view[r][Slot(q, s)] > k
           \/ Slot(q, s) \in Range(todo[r])
    BY <1>1 DEF Fenced, Scanning
  <2>2. Slot(q, s) \in Locs
    BY SlotFacts
  <2>3. view[r][Slot(q, s)] <= view'[r][Slot(q, s)]
        /\ view[r][Slot(q, s)] \in Nat /\ view'[r][Slot(q, s)] \in Nat
        /\ Len(mem[Slot(q, s)]) \in Nat
    BY <1>1, <1>6, <2>2, MemTypes DEF Later, Below, MemInv, Views
  <2>4. view'[r][Slot(q, s)] >= k
    BY <2>1, <2>3
  <2>5. CASE n \in hz[r] \/ view[r][Slot(q, s)] > k
    BY <1>13, <2>1, <2>3, <2>4, <2>5
  <2>6. CASE Slot(q, s) = l
    <3>1. CASE i = k
      BY <1>13, <2>1, <2>4, <2>6, <3>1 DEF nullptr
    <3>2. CASE i # k
      BY <1>6, <2>1, <2>3, <2>4, <2>6, <3>2
    <3> QED BY <3>1, <3>2
  <2>7. CASE Slot(q, s) \in Range(Tail(todo[r]))
    <3>1. Tail(todo[r]) # << >>
      <4>1. Range(<< >>) = {}
        BY DEF Range
      <4> QED BY <2>7, <4>1
    <3> QED BY <1>10, <1>11, <1>17, <2>4, <2>7, <3>1
  <2> QED BY <1>16, <2>1, <2>5, <2>6, <2>7
<1>19. BagInv'
  <2>1. Scanning(r)
    BY <1>1 DEF Scanning
  <2>2. pc'[r] = "slots" => todo'[r] # << >>
    BY <1>10, <1>11, <1>17
  <2> QED BY <1>1, <1>6, <1>8, <1>10, <1>11, <2>1, <2>2, BagStep
<1>20. \A o \in Protectors, s \in {0, 1}, m \in Nat :
         Holds(o, s, m) => m \notin freed'
  BY <1>8 DEF Holds
<1> QED BY <1>6, <1>8, <1>10, <1>11, <1>13, <1>14, <1>15, <1>18, <1>19, <1>20,
           RetirerStep

-----------------------------------------------------------------------------
(* The invariant                                                           *)

\* No access, no hazard and no bag to begin with.
LEMMA FenceInit ==
  ASSUME Init PROVE FenceInv
<1> DEFINE I == [l \in Locs \ {Clock(p) : p \in Protectors} |->
                   CASE l = src      -> 1
                     [] l = head_    -> << >>
                     [] l = orphans_ -> {}
                     [] l \in {Active(q) : q \in Protectors} -> 1
                     [] OTHER        -> nullptr]
           start == [l \in Locs |-> IF l \in DOMAIN I THEN 1 ELSE 0]
<1>1. MemInit(Threads, Locs, I)
  BY DEF Init
<1>2. /\ mem = [l \in Locs |-> IF l \in DOMAIN I
                               THEN << [val |-> I[l], at |-> start] >>
                               ELSE << >>]
      /\ view = [t \in Threads |-> start] /\ seen = [t \in Threads |-> start]
      /\ rel = [t \in Threads |-> start] /\ sc = start
  BY <1>1 DEF MemInit
<1>3. DOMAIN I = Locs \ Clocks
  BY DEF Clocks
<1>4. \A l \in DOMAIN I : I[l] \in Values
  BY DEF Values, nullptr
<1>5. /\ I[src] = 1 /\ I[head_] = << >> /\ I[orphans_] = {}
  <2>1. \A l \in {src, head_, orphans_} : /\ l \in Locs \ Clocks
                                          /\ l \in DOMAIN I
    BY <1>3, LocFacts
  <2>2. {src, head_, orphans_} \cap {Active(q) : q \in Protectors} = {}
    BY ActiveFacts
  <2>3. I[src] = 1
    BY <2>1, <2>2, LocFacts
  <2>4. I[head_] = << >>
    BY <2>1, <2>2, LocFacts
  <2>5. I[orphans_] = {}
    BY <2>1, <2>2, LocFacts
  <2> QED BY <2>3, <2>4, <2>5
<1>6. ASSUME NEW q \in Protectors PROVE I[Active(q)] = 1
  BY <1>3, ActiveFacts
<1>7. ASSUME NEW q \in Protectors, NEW s \in {0, 1} PROVE I[Slot(q, s)] = nullptr
  BY <1>3, SlotFacts
<1> HIDE DEF I
<1>8. /\ start \in Views
      /\ \A l \in Locs : start[l] = IF l \in Clocks THEN 0 ELSE 1
  BY <1>3 DEF Views
<1>9. ASSUME NEW l \in Locs, l \notin Clocks
      PROVE  /\ mem[l] \in Seq(Writes) /\ Len(mem[l]) = 1
             /\ mem[l][1].val = I[l] /\ mem[l][1].at = start
  <2>1. mem[l] = << [val |-> I[l], at |-> start] >>
    BY <1>2, <1>3, <1>9
  <2> HIDE DEF start
  <2>2. [val |-> I[l], at |-> start] \in Writes
    BY <1>3, <1>4, <1>8, <1>9 DEF Writes
  <2> QED BY <2>1, <2>2
<1>10. ASSUME NEW l \in Clocks
       PROVE  mem[l] \in Seq(Writes) /\ Len(mem[l]) = 0
  <2>1. mem[l] = << >>
    BY <1>2, <1>3, LocFacts
  <2> QED BY <2>1
<1>11. DOMAIN mem = Locs /\ mem \in [Locs -> Seq(Writes)]
  <2>1. mem = [l \in Locs |-> mem[l]]
    BY <1>2
  <2> QED BY <1>9, <1>10, <2>1
<1> HIDE DEF start
<1>12. Below(start, start)
  BY <1>8 DEF Below, Views
<1>13. Sound(mem, start)
  <2>1. ASSUME NEW l \in Locs
        PROVE  start[l] <= Len(mem[l]) /\ (l \notin Clocks => start[l] >= 1)
    BY <1>8, <1>9, <1>10
  <2>2. ASSUME NEW l \in Slots, NEW i \in 1 .. start[l]
        PROVE  Below(mem[l][i].at, start)
    <3>1. l \in Locs /\ l \notin Clocks
      BY LocFacts
    <3>2. i = 1
      BY <1>8, <3>1
    <3> QED BY <1>9, <1>12, <3>1, <3>2
  <2> QED BY <1>8, <2>1, <2>2 DEF Sound
<1>14. MemInv
  <2>1. ASSUME NEW l \in Locs, NEW i \in 1 .. Len(mem[l])
        PROVE  Sound(mem, mem[l][i].at) /\ mem[l][i].at[l] = i
    <3>1. l \notin Clocks
      BY <1>10
    <3>2. Len(mem[l]) = 1
      BY <1>9, <3>1
    <3>3. i = 1
      BY <3>2
    <3> QED BY <1>8, <1>9, <1>13, <3>1, <3>3
  <2> QED BY <1>2, <1>8, <1>11, <1>12, <1>13, <2>1 DEF MemInv
<1>15. TypeInv
  <2>1. \A r \in Retirers : r \notin Protectors
    BY FenceAssumption
  <2>2. /\ pc \in [Threads -> PLabels \cup RLabels]
        /\ \A p \in Protectors : pc[p] \in {"start", "done"}
        /\ \A r \in Retirers : pc[r] \in RLabels
    BY <2>1 DEF Init, Threads, PLabels, RLabels
  <2>3. rec \in [Protectors -> 0 .. NProtectors]
    BY LocFacts DEF Init
  <2> QED BY <2>2, <2>3 DEF Init, TypeInv, PLabels, nullptr
<1>16. /\ src \in Locs \ Clocks /\ head_ \in Locs \ Clocks
       /\ orphans_ \in Locs \ Clocks
  BY LocFacts
<1>17. Newest(head_).val = << >> /\ Newest(orphans_).val = {}
  BY <1>5, <1>9, <1>16 DEF Newest
<1>18. Range(<< >>) = {}
  BY DEF Range
<1>19. CellInv
  <2>1. \A l \in {src, head_, orphans_} :
          Len(mem[l]) = 1 /\ mem[l][1].val = I[l]
    BY <1>9, <1>16
  <2>2. \A i \in 1 .. 1 : i = 1
    OBVIOUS
  <2>3. \A i \in 1 .. Len(mem[src]) : mem[src][i].val = i
    BY <1>5, <2>1, <2>2
  <2>4. \A i \in 1 .. Len(mem[head_]) : mem[head_][i].val = << >>
    BY <1>5, <2>1, <2>2
  <2>5. \A i \in 1 .. Len(mem[orphans_]) : mem[orphans_][i].val = {}
    BY <1>5, <2>1, <2>2
  <2>6. << >> \in Seq(Protectors) /\ {} \in SUBSET (Nat \ {0})
    OBVIOUS
  <2>7. \A i, j \in 1 .. Len(mem[head_]) : i <= j =>
          Range(mem[head_][i].val) \subseteq Range(mem[head_][j].val)
    BY <2>4
  <2> QED BY <1>17, <2>3, <2>4, <2>5, <2>6, <2>7 DEF CellInv
<1>20. ASSUME NEW p \in Protectors
       PROVE  /\ p \in Threads /\ pc[p] \in {"start", "done"} /\ rec[p] = 0
              /\ walk[p] = << >> /\ DOMAIN used[p] = {}
              /\ Newest(Active(p)).val = 1
              /\ \A s \in {0, 1} : Len(mem[Slot(p, s)]) = 1
  <2>1. p \in Threads /\ pc[p] \in {"start", "done"}
    BY DEF Init, Threads
  <2>2. rec[p] = 0 /\ walk[p] = << >> /\ DOMAIN used[p] = {}
    BY DEF Init
  <2>3. Newest(Active(p)).val = 1
    BY <1>6, <1>9, ActiveFacts DEF Newest
  <2>4. \A s \in {0, 1} : Len(mem[Slot(p, s)]) = 1
    BY <1>9, SlotFacts
  <2> QED BY <2>1, <2>2, <2>3, <2>4
<1>21. RecInv
  <2>1. \A p, q \in Protectors : ~Owns(p, q)
    BY <1>20, LocFacts DEF Owns
  <2>2. \A p \in Protectors : WalkAt(p)
    BY <1>17, <1>18, <1>20 DEF WalkAt
  <2>3. \A p \in Protectors : SpareAt(p)
    BY <1>20 DEF SpareAt
  <2> QED BY <2>1, <2>2, <2>3 DEF RecInv
<1>22. BagInv
  <2>1. /\ \A r \in Retirers : bag[r] = {} /\ r \in Threads /\ r \notin Protectors
        /\ freed = {}
    BY FenceAssumption DEF Init, Threads
  <2>2. \A r \in Retirers : pc[r] # "slots"
    BY <2>1 DEF Init
  <2> QED BY <2>1, <2>2 DEF BagInv
<1>23. HoldInv
  BY <1>20 DEF HoldInv, HoldAt
<1>24. ASSUME NEW p \in Protectors PROVE AccessAt(p)
  <2>1. view[p][Clock(p)] = 0 /\ Len(mem[Clock(p)]) = 0
    BY <1>2, <1>8, <1>10, <1>20, ClockFacts
  <2> QED BY <1>20, <2>1 DEF AccessAt
<1> QED BY <1>14, <1>15, <1>19, <1>21, <1>22, <1>23, <1>24 DEF FenceInv, AccessInv

\* Every step of a protector and every step of a retirer preserves it.
LEMMA FenceNext ==
  ASSUME FenceInv, [Next]_vars PROVE FenceInv'
<1>1. CASE UNCHANGED vars
  <2>1. UNCHANGED <<mem, view, seen, rel, sc, plan, pc, rec, walk, ptr, used,
                    bag, todo, hz, freed>>
    BY <1>1 DEF vars, memVars, protVars, retVars
  <2>2. MemInv'
    BY <2>1, StillStep DEF memVars, FenceInv
  <2>3. TypeInv' /\ CellInv' /\ BagInv'
    BY <2>1 DEF FenceInv, TypeInv, CellInv, BagInv, Newest, Scanning
  <2>4. RecInv'
    BY <2>1 DEF FenceInv, RecInv, WalkAt, SpareAt, OwnAt, Owns, Linked, Newest
  <2>5. \A n, q, s, k : Fenced(n, q, s, k)' <=> Fenced(n, q, s, k)
    BY <2>1 DEF Fenced, Linked, Scanning
  <2>6. HoldInv'
    BY <2>1, <2>5 DEF FenceInv, HoldInv, HoldAt, Holds, Names, Newest, Successor
  <2>7. AccessInv'
    BY <2>1, <2>5 DEF FenceInv, AccessInv, AccessAt, Covered, Owns
  <2> QED BY <2>2, <2>3, <2>4, <2>6, <2>7 DEF FenceInv
<1>2. ASSUME NEW p \in Protectors, Protector(p), plan' = plan
      PROVE  FenceInv'
  BY <1>2, PWalkInv, PRecycleInv, PLinkInv, PLoadInv, PPublishInv, PFenceInv,
     PVerifyInv, PDerefInv, PSetInv, PSetFenceInv, PValidateInv, PUseInv,
     PClearInv, PLeaveInv DEF Protector
<1>3. ASSUME NEW r \in Retirers, Retirer(r), plan' = plan
      PROVE  FenceInv'
  BY <1>3, RUnlinkInv, RExitInv, SAdoptInv, SFenceInv, SWalkInv, SSlotInv,
     SFreeInv, ROrphanInv DEF Retirer
<1> QED BY <1>1, <1>2, <1>3 DEF Next

(* The invariant holds in every state the protocol reaches, under every    *)
(* order in which the memory model lets its loads and stores take effect.  *)
THEOREM FenceInvariance == Spec => []FenceInv
<1>1. Init => FenceInv
  BY FenceInit
<1>2. FenceInv /\ [Next]_vars => FenceInv'
  BY FenceNext
<1> QED BY <1>1, <1>2, PTL DEF Spec

(* protect and set keep their promise for any number of threads: a node    *)
(* that src was seen to name after the fence, and the successor published  *)
(* before src was seen unchanged, are not deleted when they are read.      *)
THEOREM UseSafeCorrect == Spec => []UseSafe
<1>1. FenceInv => UseSafe
  <2> SUFFICES ASSUME FenceInv, NEW p \in Protectors
               PROVE  /\ At(p, "deref") => ptr[p] \notin freed
                      /\ At(p, "use") => {ptr[p], Successor(p)} \cap freed = {}
    BY DEF UseSafe
  <2>1. HoldAt(p)
    BY DEF FenceInv, HoldInv
  <2> QED BY <2>1 DEF HoldAt, Holds, At
<1> QED BY <1>1, FenceInvariance, PTL

(* A thread stores to its record's slots after everything that earlier     *)
(* owners stored there: active's release and acquire hand the slots over.  *)
THEOREM StoresInOrderCorrect == Spec => []StoresInOrder
<1>1. FenceInv => StoresInOrder
  <2> SUFFICES ASSUME FenceInv, NEW p \in Protectors, Target(p) # 0
               PROVE  view[p][Target(p)] = Len(mem[Target(p)])
    BY DEF StoresInOrder
  <2>1. \A s \in {0, 1} : pc[p] \notin {"start", "walk", "done"} =>
          view[p][Slot(rec[p], s)] = Len(mem[Slot(rec[p], s)])
    BY Owner DEF OwnAt
  <2>2. CASE pc[p] \in {"publish", "clear0", "wipe0"}
    <3>1. Target(p) = Slot(rec[p], 0)
      BY <2>2 DEF Target
    <3> QED BY <2>1, <2>2, <3>1
  <2>3. CASE pc[p] \in {"set", "clear1", "wipe1"}
    <3>1. Target(p) = Slot(rec[p], 1)
      BY <2>3 DEF Target
    <3> QED BY <2>1, <2>3, <3>1
  <2> QED BY <2>2, <2>3 DEF Target
<1> QED BY <1>1, FenceInvariance, PTL

(* The deleter of a node runs after every access that was made to it under *)
(* a hazard: there is no data race between a free and a use.               *)
THEOREM FreeHappensAfterCorrect == Spec => []FreeHappensAfter
<1>1. FenceInv => FreeHappensAfter
  <2> SUFFICES ASSUME FenceInv, NEW r \in Retirers, At(r, "free"),
                      NEW p \in Protectors,
                      NEW n \in (bag[r] \ hz[r]) \cap DOMAIN used[p]
               PROVE  used[p][n] <= view[r][Clock(p)]
    BY DEF FreeHappensAfter
  <2>1. MemInv /\ AccessAt(p) /\ r \in Threads /\ pc[r] = "free"
    BY DEF FenceInv, AccessInv, Threads, At
  <2>2. PICK q \in Protectors, s \in {0, 1} :
          \E k \in 1 .. Len(mem[Slot(q, s)]) : Covered(p, n, q, s, k)
    BY <2>1 DEF AccessAt
  <2> DEFINE l == Slot(q, s)
  <2>3. PICK k \in 1 .. Len(mem[l]) : Covered(p, n, q, s, k)
    BY <2>2
  <2>4. l \in Locs /\ l \in Slots /\ Len(mem[l]) \in Nat /\ Clock(p) \in Locs
    BY <2>1, SlotFacts, ClockFacts, MemTypes
  <2>5. view[r][l] > k
    BY <2>1, <2>3 DEF Covered, Fenced
  <2>6. Sound(mem, view[r]) /\ view[r] \in Views
    BY <2>1 DEF MemInv
  <2>7. view[r][l] <= Len(mem[l]) /\ view[r][l] \in Nat
    BY <2>4, <2>6 DEF Sound, Views
  <2>8. k + 1 \in 1 .. view[r][l] /\ k + 1 \in 1 .. Len(mem[l]) /\ k # Len(mem[l])
    BY <2>4, <2>5, <2>7
  <2>9. mem[l][k + 1].at[Clock(p)] >= used[p][n]
    BY <2>3, <2>8 DEF Covered
  <2>10. Below(mem[l][k + 1].at, view[r])
    BY <2>4, <2>6, <2>8 DEF Sound
  <2>11. /\ mem[l][k + 1].at[Clock(p)] <= view[r][Clock(p)]
         /\ mem[l][k + 1].at[Clock(p)] \in Nat /\ view[r][Clock(p)] \in Nat
    <3>1. mem[l][k + 1].at \in Views
      BY <2>1, <2>4, <2>8, MemTypes
    <3> QED BY <2>4, <2>6, <2>10, <3>1 DEF Below, Views
  <2>12. used[p][n] \in 0 .. view[p][Clock(p)] /\ view[p][Clock(p)] \in Nat
    <3>1. p \in Threads
      BY <2>1 DEF Threads
    <3>2. view[p] \in Views
      BY <2>1, <3>1, MemTypes
    <3>3. used[p][n] \in 0 .. view[p][Clock(p)]
      BY <2>1 DEF AccessAt
    <3> QED BY <2>4, <3>2, <3>3 DEF Views
  <2> QED BY <2>9, <2>11, <2>12
<1> QED BY <1>1, FenceInvariance, PTL
=============================================================================

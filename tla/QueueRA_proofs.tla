--------------------------- MODULE QueueRA_proofs ---------------------------
(***************************************************************************)
(* Machine-checked proofs that the memory orderings of ms_queue, alone and *)
(* over hp_reclaimer, suffice.  QueueRAInv has the inductive invariant.    *)
(***************************************************************************)
EXTENDS QueueRAInv, TLAPS

-----------------------------------------------------------------------------
(* Locations                                                               *)

\* A node is a pair of its producer and a number.
LEMMA NodeFacts ==
  ASSUME NEW n \in Nodes
  PROVE  /\ n = <<n[1], n[2]>> /\ n[1] \in Producers \cup {Dummy}
         /\ n[2] \in Nat /\ n \in Locs /\ n # Null /\ n \in Words
         /\ n[1] = Dummy => n = DummyNode
<1>1. n \in Locs /\ n # Null /\ n \in Words
  BY NullAssumption DEF Locs, Words
<1>2. CASE n = DummyNode
  BY <1>1, <1>2 DEF DummyNode
<1>3. CASE n # DummyNode
  <2>1. PICK u \in Setups : n \in Sent(u.K)
    <3>1. n \in UNION {Sent(u.K) : u \in Setups}
      BY <1>3 DEF Nodes
    <3> QED BY <3>1, Zenon
  <2>2. PICK p \in Producers : n \in {p} \X (1 .. u.K[p])
    BY <2>1 DEF Sent
  <2>3. n = <<p, n[2]>> /\ n[2] \in 1 .. u.K[p] /\ n[1] = p
    BY <2>2
  <2>4. n[2] \in Nat
    BY <2>3
  <2>5. p # Dummy
    BY QueueRAAssumption
  <2> QED BY <1>1, <2>3, <2>4, <2>5
<1> QED BY <1>2, <1>3

\* The locations that are no nodes.
LEMMA LocFacts ==
  /\ head_ \in Locs /\ tail_ \in Locs /\ consumed \in Locs
  /\ head_ # tail_ /\ head_ # consumed /\ tail_ # consumed
  /\ DummyNode \in Nodes /\ DummyNode \in Locs
  /\ \A n \in Nodes : n # head_ /\ n # tail_ /\ n # consumed /\ n \in Locs
  /\ \A n \in Nodes : n \notin Slots
  /\ head_ \notin Slots /\ tail_ \notin Slots /\ consumed \notin Slots
  /\ Slots \subseteq Locs /\ Null \notin Nodes /\ Started \subseteq Locs
<1>1. /\ head_ \in Locs /\ tail_ \in Locs /\ consumed \in Locs
      /\ head_ # tail_ /\ head_ # consumed /\ tail_ # consumed
      /\ DummyNode \in Nodes /\ DummyNode \in Locs
      /\ Slots \subseteq Locs /\ Null \notin Nodes /\ Started \subseteq Locs
  <2>1. head_ # tail_ /\ head_ # consumed /\ tail_ # consumed
    BY DEF head_, tail_, consumed
  <2>2. DummyNode \in Nodes
    BY DEF Nodes
  <2> QED BY <2>1, <2>2, NullAssumption DEF Locs, Started
<1>2. ASSUME NEW n \in Nodes
      PROVE  n # head_ /\ n # tail_ /\ n # consumed /\ n \in Locs
  <2>1. n[1] # Null /\ n \in Locs
    BY NodeFacts, NullAssumption
  <2> QED BY <2>1 DEF head_, tail_, consumed
<1>3. ASSUME NEW l \in Slots PROVE Len(l) = 3
  BY DEF Slots, Slot
<1>4. ASSUME NEW n \in Nodes PROVE n \notin Slots
  <2>1. n = <<n[1], n[2]>>
    BY NodeFacts
  <2>2. Len(n) = 2
    BY <2>1
  <2> QED BY <1>3, <2>2
<1>5. Len(head_) = 2 /\ Len(tail_) = 2 /\ Len(consumed) = 2
  BY DEF head_, tail_, consumed
<1>6. head_ \notin Slots /\ tail_ \notin Slots /\ consumed \notin Slots
  BY <1>3, <1>5
<1> QED BY <1>1, <1>2, <1>4, <1>6

\* Slots are not shared.
LEMMA SlotFacts ==
  ASSUME NEW t \in Threads, NEW s \in {0, 1}, Slot(t, s) \in Slots,
         NEW u \in Threads, NEW r \in {0, 1}
  PROVE  /\ Slot(t, s) \in Locs /\ Slot(t, s) \notin Nodes
         /\ Slot(t, s) # head_ /\ Slot(t, s) # tail_ /\ Slot(t, s) # consumed
         /\ Slot(t, s) = Slot(u, r) => t = u /\ s = r
<1>1. Slot(t, s) = Slot(u, r) => t = u /\ s = r
  BY DEF Slot
<1> QED BY <1>1, LocFacts

\* The slots there are.
LEMMA SlotsHas ==
  /\ \A t \in Threads : Slot(t, 0) \in Slots
  /\ \A c \in Consumers : Slot(c, 1) \in Slots
  /\ \A l \in Slots : \E t \in Threads, s \in {0, 1} : l = Slot(t, s)
BY DEF Slots, Threads

-----------------------------------------------------------------------------
(* Memory                                                                  *)

Memories == [Locs -> Seq(Writes)]

\* What Append does to a sequence.
LEMMA Appended ==
  ASSUME NEW S, NEW w \in Seq(S), NEW e \in S
  PROVE  /\ Append(w, e) \in Seq(S) /\ Len(Append(w, e)) = Len(w) + 1
         /\ Append(w, e)[Len(w) + 1] = e
         /\ \A i \in 1 .. Len(w) : Append(w, e)[i] = w[i]
OBVIOUS

\* The join of two views is their least upper bound.
LEMMA JoinFacts ==
  ASSUME NEW v \in Views, NEW w \in Views
  PROVE  /\ Join(v, w) \in Views /\ Below(v, Join(v, w)) /\ Below(w, Join(v, w))
         /\ \A l \in Locs : Join(v, w)[l] \in {v[l], w[l]}
BY DEF Join, Views, Below

\* The order on views is transitive.
LEMMA BelowTrans ==
  ASSUME NEW v \in Views, NEW w \in Views, NEW x \in Views,
         Below(v, w), Below(w, x)
  PROVE  Below(v, x)
BY DEF Below, Views

\* So no view goes further than one that memory has.
LEMMA WithinBelow ==
  ASSUME NEW m \in Memories, NEW v \in Views, NEW w, Within(m, w), Below(v, w)
  PROVE  Within(m, v)
BY DEF Within, Below, Views, Memories

\* The join of two views goes no further than they do.
LEMMA WithinJoin ==
  ASSUME NEW m, NEW v, NEW w, Within(m, v), Within(m, w)
  PROVE  Within(m, Join(v, w))
BY JoinFacts DEF Within

\* What MemInv says of the types.
LEMMA MemTypes ==
  ASSUME MemInv
  PROVE  /\ mem \in Memories /\ sc \in Views
         /\ \A t \in Threads : /\ view[t] \in Views /\ seen[t] \in Views
                               /\ rel[t] \in Views
         /\ \A l \in Locs : mem[l] \in Seq(Writes) /\ Len(mem[l]) \in Nat
         /\ \A l \in Locs : \A i \in 1 .. Len(mem[l]) :
              /\ mem[l][i] \in Writes /\ mem[l][i].at \in Views
              /\ mem[l][i].val \in Values
<1>1. mem \in Memories /\ sc \in Views
  BY DEF MemInv, Memories, Within
<1>2. \A l \in Locs : mem[l] \in Seq(Writes) /\ Len(mem[l]) \in Nat
  BY <1>1 DEF Memories
<1>3. ASSUME NEW l \in Locs, NEW i \in 1 .. Len(mem[l])
      PROVE  mem[l][i] \in Writes /\ mem[l][i].at \in Views
             /\ mem[l][i].val \in Values
  <2>1. mem[l][i] \in Writes
    BY <1>2
  <2> QED BY <2>1 DEF Writes
<1>4. \A t \in Threads : view[t] \in Views /\ seen[t] \in Views /\ rel[t] \in Views
  BY DEF MemInv
<1> QED BY <1>1, <1>2, <1>3, <1>4

\* How far the views go.
LEMMA ViewBounds ==
  ASSUME MemInv, NEW t \in Threads, NEW l \in Locs
  PROVE  /\ view[t][l] \in Nat /\ seen[t][l] \in Nat /\ sc[l] \in Nat
         /\ Len(mem[l]) \in Nat
         /\ view[t][l] <= seen[t][l] /\ seen[t][l] <= Len(mem[l])
         /\ view[t][l] <= Len(mem[l]) /\ sc[l] <= Len(mem[l])
         /\ l \in Started => view[t][l] >= 1 /\ Len(mem[l]) >= 1
<1>1. view[t] \in Views /\ seen[t] \in Views /\ sc \in Views /\ Len(mem[l]) \in Nat
  BY MemTypes
<1>2. /\ view[t][l] <= seen[t][l] /\ seen[t][l] <= Len(mem[l])
      /\ sc[l] <= Len(mem[l]) /\ (l \in Started => view[t][l] >= 1)
  BY DEF MemInv, Below, Within
<1>3. view[t][l] \in Nat /\ seen[t][l] \in Nat /\ sc[l] \in Nat
  BY <1>1 DEF Views
<1> QED BY <1>1, <1>2, <1>3

\* Memory m is the beginning of memory n.
Extends(m, n) ==
  \A l \in Locs : /\ Len(m[l]) <= Len(n[l])
                  /\ \A i \in 1 .. Len(m[l]) : n[l][i] = m[l][i]

\* No view ever loses a write.
Later ==
  /\ Extends(mem, mem') /\ Below(sc, sc')
  /\ \A t \in Threads : Below(view[t], view'[t])

\* Views that were in memory stay there when it grows.
LEMMA WithinGrows ==
  ASSUME NEW m \in Memories, NEW n \in Memories, Extends(m, n), NEW v,
         Within(m, v)
  PROVE  Within(n, v)
BY DEF Within, Extends, Memories, Views

\* A step that leaves memory alone and only moves views ahead.
LEMMA ViewStep ==
  ASSUME MemInv, mem' = mem, Within(mem, sc'), Below(sc, sc'),
         view' \in [Threads -> Views], seen' \in [Threads -> Views],
         rel' \in [Threads -> Views],
         \A t \in Threads : /\ Within(mem, seen'[t]) /\ Below(rel'[t], view'[t])
                            /\ Below(view'[t], seen'[t])
                            /\ Below(view[t], view'[t])
  PROVE  MemInv' /\ Later
<1>1. Extends(mem, mem')
  BY MemTypes DEF Extends
<1>2. ASSUME NEW t \in Threads, NEW l \in Started PROVE view'[t][l] >= 1
  <2>1. l \in Locs /\ view[t][l] >= 1 /\ view[t][l] \in Nat
    BY LocFacts, ViewBounds
  <2>2. view[t][l] <= view'[t][l] /\ view'[t][l] \in Nat
    BY <2>1 DEF Below, Views
  <2> QED BY <2>1, <2>2
<1> QED BY <1>1, <1>2 DEF MemInv, Later

\* What a load of l's i-th write does.
LEMMA LoadStep ==
  ASSUME MemInv, NEW t \in Threads, NEW l \in Locs, NEW i, NEW mo,
         view[t][l] >= 1, Load(t, l, i, mo)
  PROVE  /\ MemInv' /\ Later /\ mem' = mem /\ sc' = sc
         /\ i \in 1 .. Len(mem[l]) /\ view[t][l] <= i /\ view'[t][l] >= i
         /\ mo = "acquire" => Below(mem[l][i].at, view'[t])
         /\ \A u \in Threads : u # t => view'[u] = view[u]
<1> DEFINE a == mem[l][i].at
           v == IF mo = "acquire" THEN Join(view[t], a)
                                  ELSE [view[t] EXCEPT ![l] = i]
<1>1. i \in 1 .. Len(mem[l]) /\ view[t][l] <= i
  <2>1. view[t][l] \in Nat /\ Len(mem[l]) \in Nat
    BY ViewBounds
  <2> QED BY <2>1 DEF Load, Readable
<1>2. /\ view[t] \in Views /\ seen[t] \in Views /\ rel[t] \in Views /\ a \in Views
      /\ Within(mem, a) /\ a[l] = i /\ Within(mem, seen[t]) /\ mem \in Memories
      /\ Below(rel[t], view[t]) /\ Below(view[t], seen[t]) /\ i \in Nat
  BY <1>1, MemTypes DEF MemInv
<1>3. /\ mem' = mem /\ rel' = rel /\ sc' = sc
      /\ view' = [view EXCEPT ![t] = v]
      /\ seen' = [seen EXCEPT ![t] = Join(seen[t], a)]
  BY DEF Load, MemInv
<1> HIDE DEF a
<1>4. /\ Join(view[t], a) \in Views /\ Below(view[t], Join(view[t], a))
      /\ Below(a, Join(view[t], a))
      /\ \A k \in Locs : Join(view[t], a)[k] \in {view[t][k], a[k]}
  BY <1>2, JoinFacts
<1>5. /\ Join(seen[t], a) \in Views /\ Below(seen[t], Join(seen[t], a))
      /\ Below(a, Join(seen[t], a)) /\ Within(mem, Join(seen[t], a))
  BY <1>2, JoinFacts, WithinJoin
<1>6. Below(view[t], Join(seen[t], a))
  BY <1>2, <1>5, BelowTrans
<1>7. /\ v \in Views /\ Below(view[t], v) /\ Below(v, Join(seen[t], a)) /\ v[l] >= i
      /\ mo = "acquire" => Below(a, v)
  <2>1. CASE mo = "acquire"
    <3>1. v = Join(view[t], a)
      BY <2>1
    <3>2. Below(v, Join(seen[t], a))
      BY <1>4, <1>5, <1>6, <3>1 DEF Below
    <3>3. a[l] <= v[l]
      BY <1>4, <3>1 DEF Below
    <3> QED BY <1>2, <1>4, <3>1, <3>2, <3>3
  <2>2. CASE mo # "acquire"
    <3>1. v = [view[t] EXCEPT ![l] = i]
      BY <2>2
    <3>2. /\ v \in Views /\ v[l] = i
          /\ \A k \in Locs : k # l => v[k] = view[t][k]
      BY <1>2, <3>1 DEF Views
    <3>3. a[l] <= Join(seen[t], a)[l]
      BY <1>5 DEF Below
    <3>4. Below(view[t], v)
      BY <1>1, <1>2, <3>2 DEF Below, Views
    <3>5. Below(v, Join(seen[t], a))
      BY <1>2, <1>6, <3>2, <3>3 DEF Below
    <3> QED BY <1>2, <2>2, <3>2, <3>4, <3>5
  <2> QED BY <2>1, <2>2
<1> HIDE DEF v
<1>8. /\ view' \in [Threads -> Views] /\ seen' \in [Threads -> Views]
      /\ rel' \in [Threads -> Views] /\ view'[t] = v
      /\ seen'[t] = Join(seen[t], a)
      /\ \A u \in Threads : u # t => view'[u] = view[u] /\ seen'[u] = seen[u]
  BY <1>3, <1>5, <1>7 DEF MemInv
<1>9. ASSUME NEW u \in Threads
      PROVE  /\ Within(mem, seen'[u]) /\ Below(rel'[u], view'[u])
             /\ Below(view'[u], seen'[u]) /\ Below(view[u], view'[u])
  <2>1. CASE u = t
    BY <1>2, <1>3, <1>5, <1>7, <1>8, <2>1, BelowTrans
  <2>2. CASE u # t
    <3>1. Below(view[u], view[u])
      BY MemTypes DEF Below, Views
    <3> QED BY <1>3, <1>8, <2>2, <3>1 DEF MemInv
  <2> QED BY <2>1, <2>2
<1>10. Within(mem, sc') /\ Below(sc, sc')
  BY <1>3, MemTypes DEF MemInv, Below, Views
<1>11. MemInv' /\ Later
  BY <1>3, <1>8, <1>9, <1>10, ViewStep
<1> QED BY <1>1, <1>3, <1>7, <1>8, <1>11 DEF a

\* What a fence does.
LEMMA FenceStep ==
  ASSUME MemInv, NEW t \in Threads, Fence(t)
  PROVE  /\ MemInv' /\ Later /\ mem' = mem
         /\ Below(view[t], sc') /\ view'[t] = sc'
         /\ \A u \in Threads : u # t => view'[u] = view[u]
<1> DEFINE v == Join(seen[t], sc)
<1>1. /\ view[t] \in Views /\ seen[t] \in Views /\ sc \in Views
      /\ Within(mem, seen[t]) /\ Within(mem, sc) /\ Below(view[t], seen[t])
  BY MemTypes DEF MemInv
<1>2. v \in Views /\ Below(seen[t], v) /\ Below(sc, v) /\ Within(mem, v)
  BY <1>1, JoinFacts, WithinJoin
<1>3. Below(view[t], v) /\ Below(v, v)
  <2>1. Below(v, v)
    BY <1>2 DEF Below, Views
  <2> QED BY <1>1, <1>2, <2>1, BelowTrans
<1>4. /\ mem' = mem /\ sc' = v /\ view' = [view EXCEPT ![t] = v]
      /\ seen' = [seen EXCEPT ![t] = v] /\ rel' = [rel EXCEPT ![t] = v]
  BY DEF Fence
<1> HIDE DEF v
<1>5. /\ view' \in [Threads -> Views] /\ seen' \in [Threads -> Views]
      /\ rel' \in [Threads -> Views]
      /\ view'[t] = v /\ seen'[t] = v /\ rel'[t] = v
      /\ \A u \in Threads : u # t => /\ view'[u] = view[u] /\ seen'[u] = seen[u]
                                     /\ rel'[u] = rel[u]
  BY <1>2, <1>4 DEF MemInv
<1>6. ASSUME NEW u \in Threads
      PROVE  /\ Within(mem, seen'[u]) /\ Below(rel'[u], view'[u])
             /\ Below(view'[u], seen'[u]) /\ Below(view[u], view'[u])
  <2>1. CASE u = t
    BY <1>2, <1>3, <1>5, <2>1
  <2>2. CASE u # t
    <3>1. Below(view[u], view[u])
      BY MemTypes DEF Below, Views
    <3> QED BY <1>5, <2>2, <3>1 DEF MemInv
  <2> QED BY <2>1, <2>2
<1>7. MemInv' /\ Later
  BY <1>2, <1>4, <1>5, <1>6, ViewStep
<1> QED BY <1>3, <1>4, <1>5, <1>7

\* A step that leaves memory alone.
LEMMA IdleStep ==
  ASSUME MemInv, UNCHANGED memVars
  PROVE  MemInv' /\ Later /\ mem' = mem /\ sc' = sc /\ view' = view
<1>1. mem' = mem /\ view' = view /\ seen' = seen /\ rel' = rel /\ sc' = sc
  BY DEF memVars
<1>2. ASSUME NEW u \in Threads PROVE Below(view[u], view'[u])
  BY <1>1, MemTypes DEF Below, Views
<1>3. Within(mem, sc') /\ Below(sc, sc')
  BY <1>1, MemTypes DEF MemInv, Below, Views
<1>4. /\ view' \in [Threads -> Views] /\ seen' \in [Threads -> Views]
      /\ rel' \in [Threads -> Views]
      /\ \A u \in Threads : /\ Within(mem, seen'[u]) /\ Below(rel'[u], view'[u])
                            /\ Below(view'[u], seen'[u])
  BY <1>1 DEF MemInv
<1>5. MemInv' /\ Later
  BY <1>1, <1>2, <1>3, <1>4, ViewStep
<1> QED BY <1>1, <1>5

\* t has written w to l.
Wrote(t, l, w) ==
  /\ mem' \in Memories /\ Len(mem'[l]) = Len(mem[l]) + 1
  /\ mem'[l][Len(mem[l]) + 1] = w
  /\ \A i \in 1 .. Len(mem[l]) : mem'[l][i] = mem[l][i]
  /\ \A k \in Locs : k # l => mem'[k] = mem[k]
  /\ view'[t][l] = Len(mem[l]) + 1
  /\ \A k \in Locs : k # l => view'[t][k] = view[t][k]
  /\ \A u \in Threads : u # t => view'[u] = view[u]
  /\ sc' = sc

\* What a write does, given what it carries and what the views become.
LEMMA WriteStep ==
  ASSUME MemInv, NEW t \in Threads, NEW l \in Locs, NEW w \in Writes,
         NEW v \in Views, NEW s \in Views,
         mem' = [mem EXCEPT ![l] = Append(@, w)],
         view' = [view EXCEPT ![t] = v], seen' = [seen EXCEPT ![t] = s],
         rel' = rel, sc' = sc,
         w.at[l] = Len(mem[l]) + 1, v[l] = Len(mem[l]) + 1,
         s[l] = Len(mem[l]) + 1,
         \A k \in Locs : k # l => /\ w.at[k] <= Len(mem[k]) /\ v[k] = view[t][k]
                                  /\ s[k] <= Len(mem[k]) /\ s[k] >= v[k]
  PROVE  MemInv' /\ Later /\ Wrote(t, l, w)
<1>1. /\ mem \in Memories /\ mem[l] \in Seq(Writes) /\ Len(mem[l]) \in Nat
      /\ w.at \in Views /\ \A k \in Locs : Len(mem[k]) \in Nat
  BY MemTypes DEF Writes
<1>2. /\ Append(mem[l], w) \in Seq(Writes)
      /\ Len(Append(mem[l], w)) = Len(mem[l]) + 1
      /\ Append(mem[l], w)[Len(mem[l]) + 1] = w
      /\ \A i \in 1 .. Len(mem[l]) : Append(mem[l], w)[i] = mem[l][i]
  BY <1>1, Appended
<1>3. /\ mem'[l] = Append(mem[l], w) /\ mem' \in Memories
      /\ \A k \in Locs : k # l => mem'[k] = mem[k]
  BY <1>1, <1>2 DEF Memories
<1>4. Extends(mem, mem')
  <2>1. ASSUME NEW k \in Locs
        PROVE  /\ Len(mem[k]) <= Len(mem'[k])
               /\ \A i \in 1 .. Len(mem[k]) : mem'[k][i] = mem[k][i]
    BY <1>1, <1>2, <1>3
  <2> QED BY <2>1 DEF Extends
<1>5. /\ view' \in [Threads -> Views] /\ seen' \in [Threads -> Views]
      /\ rel' \in [Threads -> Views] /\ view'[t] = v /\ seen'[t] = s
      /\ \A u \in Threads : u # t => view'[u] = view[u] /\ seen'[u] = seen[u]
  BY DEF MemInv
<1>6. Wrote(t, l, w)
  BY <1>2, <1>3, <1>5 DEF Wrote
<1>7. Within(mem', w.at) /\ Within(mem', s)
  <2>1. ASSUME NEW k \in Locs PROVE w.at[k] <= Len(mem'[k]) /\ s[k] <= Len(mem'[k])
    BY <1>1, <1>2, <1>3
  <2> QED BY <1>1, <2>1 DEF Within
<1>8. Below(view[t], v) /\ Below(v, s)
  <2>1. ASSUME NEW k \in Locs PROVE view[t][k] <= v[k] /\ v[k] <= s[k]
    <3>1. v[k] \in Nat /\ s[k] \in Nat /\ view[t][k] \in Nat /\ view[t][k] <= Len(mem[k])
      BY ViewBounds DEF Views
    <3> QED BY <1>1, <3>1
  <2> QED BY <2>1 DEF Below
<1>9. ASSUME NEW k \in Locs, NEW i \in 1 .. Len(mem'[k])
      PROVE  Within(mem', mem'[k][i].at) /\ mem'[k][i].at[k] = i
  <2>1. CASE k = l /\ i = Len(mem[l]) + 1
    BY <1>2, <1>3, <1>7, <2>1
  <2>2. CASE ~(k = l /\ i = Len(mem[l]) + 1)
    <3>1. i \in 1 .. Len(mem[k]) /\ mem'[k][i] = mem[k][i]
      BY <1>1, <1>2, <1>3, <2>2
    <3>2. Within(mem, mem[k][i].at) /\ mem[k][i].at[k] = i
      BY <3>1 DEF MemInv
    <3> QED BY <1>1, <1>3, <1>4, <3>1, <3>2, WithinGrows
  <2> QED BY <2>1, <2>2
<1>10. ASSUME NEW u \in Threads
       PROVE  /\ Within(mem', seen'[u]) /\ Below(rel'[u], view'[u])
              /\ Below(view'[u], seen'[u]) /\ Below(view[u], view'[u])
  <2>1. /\ Within(mem, seen[u]) /\ Below(rel[u], view[u]) /\ Below(view[u], seen[u])
        /\ rel[u] \in Views /\ view[u] \in Views
    BY MemTypes DEF MemInv
  <2>2. CASE u = t
    BY <1>5, <1>7, <1>8, <2>1, <2>2, BelowTrans
  <2>3. CASE u # t
    <3>1. Below(view[u], view[u])
      BY MemTypes DEF Below, Views
    <3>2. Within(mem', seen[u])
      BY <1>1, <1>3, <1>4, <2>1, WithinGrows
    <3> QED BY <1>5, <2>1, <2>3, <3>1, <3>2
  <2> QED BY <2>2, <2>3
<1>11. ASSUME NEW u \in Threads, NEW k \in Started PROVE view'[u][k] >= 1
  <2>1. k \in Locs /\ view[u][k] >= 1 /\ view[u][k] \in Nat
    BY LocFacts, ViewBounds
  <2>2. view[u][k] <= view'[u][k] /\ view'[u][k] \in Nat
    BY <1>5, <1>10, <2>1 DEF Below, Views
  <2> QED BY <2>1, <2>2
<1>12. Within(mem', sc') /\ Below(sc, sc')
  <2>1. Below(sc, sc')
    BY MemTypes DEF Below, Views
  <2>2. Within(mem, sc)
    BY DEF MemInv
  <2> QED BY <1>1, <1>3, <1>4, <2>1, <2>2, WithinGrows
<1>13. MemInv'
  BY <1>3, <1>5, <1>9, <1>10, <1>11, <1>12 DEF MemInv, Memories
<1> QED BY <1>4, <1>6, <1>10, <1>12, <1>13 DEF Later

\* t has written x to l with ordering mo, and what it wrote carries old.
Stored(t, l, x, mo, old) ==
  \E w \in Writes : /\ Wrote(t, l, w) /\ w.val = x /\ Below(old, w.at)
                    /\ mo = "release" => Below(view[t], w.at)

\* What a store does.
LEMMA StoreStep ==
  ASSUME MemInv, NEW t \in Threads, NEW l \in Locs, NEW x \in Values, NEW mo,
         Store(t, l, x, mo)
  PROVE  MemInv' /\ Later /\ Stored(t, l, x, mo, rel[t])
<1> DEFINE N == Len(mem[l]) + 1
           b == IF mo = "release" THEN view[t] ELSE rel[t]
           c == [b EXCEPT ![l] = N]
           w == [val |-> x, at |-> c]
           v == [view[t] EXCEPT ![l] = N]
           s == [seen[t] EXCEPT ![l] = N]
<1>1. /\ view[t] \in Views /\ seen[t] \in Views /\ rel[t] \in Views /\ N \in Nat
      /\ Below(rel[t], view[t]) /\ Below(view[t], seen[t])
  BY MemTypes DEF MemInv
<1>2. b \in Views /\ Below(rel[t], b) /\ Below(b, view[t])
      /\ (mo = "release" => b = view[t])
  BY <1>1 DEF Below, Views
<1>3. /\ mem' = [mem EXCEPT ![l] = Append(@, w)]
      /\ view' = [view EXCEPT ![t] = v] /\ seen' = [seen EXCEPT ![t] = s]
      /\ rel' = rel /\ sc' = sc
  <2>1. view \in [Threads -> Views] /\ seen \in [Threads -> Views]
    BY DEF MemInv
  <2> QED BY <2>1 DEF Store, Carried
<1> HIDE DEF b
<1>4. /\ c \in Views /\ c[l] = N /\ \A k \in Locs : k # l => c[k] = b[k]
      /\ v \in Views /\ v[l] = N /\ \A k \in Locs : k # l => v[k] = view[t][k]
      /\ s \in Views /\ s[l] = N /\ \A k \in Locs : k # l => s[k] = seen[t][k]
  BY <1>1, <1>2 DEF Views
<1>5. w \in Writes /\ w.val = x /\ w.at = c
  BY <1>4 DEF Writes
<1> HIDE DEF c, w, v, s
<1>6. ASSUME NEW k \in Locs, k # l
      PROVE  /\ c[k] <= Len(mem[k]) /\ s[k] <= Len(mem[k]) /\ s[k] >= v[k]
  <2>1. /\ b[k] \in Nat /\ b[k] <= view[t][k]
        /\ view[t][k] \in Nat /\ seen[t][k] \in Nat /\ Len(mem[k]) \in Nat
        /\ view[t][k] <= seen[t][k] /\ seen[t][k] <= Len(mem[k])
    BY <1>2, ViewBounds DEF Below, Views
  <2> QED BY <1>4, <1>6, <2>1
<1>7. MemInv' /\ Later /\ Wrote(t, l, w)
  BY <1>3, <1>4, <1>5, <1>6, WriteStep
<1>8. Below(b, c)
  <2>1. ASSUME NEW k \in Locs PROVE b[k] <= c[k]
    <3>1. b[k] \in Nat /\ b[k] <= view[t][k] /\ view[t][k] \in Nat
          /\ view[t][k] <= Len(mem[k]) /\ Len(mem[k]) \in Nat
      BY <1>2, ViewBounds DEF Below, Views
    <3> QED BY <1>4, <3>1
  <2> QED BY <2>1 DEF Below
<1>9. Below(rel[t], c)
  BY <1>1, <1>2, <1>4, <1>8, BelowTrans
<1> QED BY <1>2, <1>5, <1>7, <1>8, <1>9 DEF Stored

\* What an exchange, a fetch_add or a CAS that succeeds does.
LEMMA UpdateStep ==
  ASSUME MemInv, NEW t \in Threads, NEW l \in Locs, Len(mem[l]) >= 1,
         NEW x \in Values, NEW mo \in {"release", "relaxed"}, Update(t, l, x, mo)
  PROVE  MemInv' /\ Later /\ Stored(t, l, x, mo, Newest(l).at)
<1> DEFINE N == Len(mem[l]) + 1
           old == Newest(l).at
           b == IF mo = "release" THEN view[t] ELSE rel[t]
           c == [b EXCEPT ![l] = N]
           a == Join(old, c)
           w == [val |-> x, at |-> a]
           v == [view[t] EXCEPT ![l] = N]
           z == Join(seen[t], old)
           s == [z EXCEPT ![l] = N]
<1>1. /\ view[t] \in Views /\ seen[t] \in Views /\ rel[t] \in Views /\ N \in Nat
      /\ Below(rel[t], view[t]) /\ Below(view[t], seen[t])
  BY MemTypes DEF MemInv
<1>2. b \in Views /\ Below(rel[t], b) /\ Below(b, view[t])
      /\ (mo = "release" => b = view[t])
  BY <1>1 DEF Below, Views
<1>3. old \in Views /\ Within(mem, old) /\ old[l] = Len(mem[l])
  <2>1. Len(mem[l]) \in 1 .. Len(mem[l])
    BY MemTypes
  <2> QED BY <2>1, MemTypes DEF Newest, MemInv
<1>4. /\ mem' = [mem EXCEPT ![l] = Append(@, w)]
      /\ view' = [view EXCEPT ![t] = v] /\ seen' = [seen EXCEPT ![t] = s]
      /\ rel' = rel /\ sc' = sc
  <2>1. view \in [Threads -> Views] /\ seen \in [Threads -> Views]
    BY DEF MemInv
  <2> QED BY <2>1 DEF Update, Carried
<1> HIDE DEF b, old
<1>5. /\ c \in Views /\ c[l] = N /\ \A k \in Locs : k # l => c[k] = b[k]
      /\ v \in Views /\ v[l] = N /\ \A k \in Locs : k # l => v[k] = view[t][k]
  BY <1>1, <1>2 DEF Views
<1> HIDE DEF c, v
<1>6. /\ a \in Views /\ Below(old, a) /\ Below(c, a)
      /\ \A k \in Locs : a[k] \in {old[k], c[k]}
  BY <1>3, <1>5, JoinFacts
<1>7. /\ z \in Views /\ Below(seen[t], z) /\ \A k \in Locs : z[k] \in {seen[t][k], old[k]}
  BY <1>1, <1>3, JoinFacts
<1>8. w \in Writes /\ w.val = x /\ w.at = a
  BY <1>6 DEF Writes
<1> HIDE DEF a, w, z
<1>9. s \in Views /\ s[l] = N /\ \A k \in Locs : k # l => s[k] = z[k]
  BY <1>1, <1>7 DEF Views
<1> HIDE DEF s
<1>10. a[l] = N
  <2>1. c[l] <= a[l] /\ a[l] \in {old[l], c[l]}
    BY <1>6 DEF Below
  <2> QED BY <1>1, <1>3, <1>5, <2>1
<1>11. ASSUME NEW k \in Locs, k # l
       PROVE  /\ a[k] <= Len(mem[k]) /\ s[k] <= Len(mem[k]) /\ s[k] >= v[k]
  <2>1. /\ b[k] \in Nat /\ b[k] <= view[t][k] /\ old[k] \in Nat
        /\ view[t][k] \in Nat /\ seen[t][k] \in Nat /\ Len(mem[k]) \in Nat
        /\ view[t][k] <= seen[t][k] /\ seen[t][k] <= Len(mem[k])
    BY <1>2, <1>3, ViewBounds DEF Below, Views
  <2>2. old[k] <= Len(mem[k])
    BY <1>3 DEF Within
  <2>3. a[k] \in {old[k], b[k]} /\ s[k] \in {seen[t][k], old[k]} /\ s[k] = z[k]
    BY <1>5, <1>6, <1>7, <1>9, <1>11
  <2>4. seen[t][k] <= z[k] /\ v[k] = view[t][k]
    BY <1>5, <1>7, <1>11 DEF Below
  <2> QED BY <2>1, <2>2, <2>3, <2>4
<1>12. MemInv' /\ Later /\ Wrote(t, l, w)
  BY <1>4, <1>5, <1>8, <1>9, <1>10, <1>11, WriteStep
<1>13. mo = "release" => Below(view[t], a)
  <2>1. ASSUME mo = "release", NEW k \in Locs PROVE view[t][k] <= a[k]
    <3>1. /\ view[t][k] \in Nat /\ view[t][k] <= Len(mem[k]) /\ Len(mem[k]) \in Nat
      BY ViewBounds
    <3>2. c[k] <= a[k] /\ c[k] \in Nat /\ a[k] \in Nat
      BY <1>5, <1>6 DEF Below, Views
    <3>3. view[t][k] <= c[k]
      <4>1. CASE k = l
        BY <1>5, <3>1, <4>1
      <4>2. CASE k # l
        BY <1>2, <1>5, <2>1, <3>1, <4>2
      <4> QED BY <4>1, <4>2
    <3> QED BY <3>1, <3>2, <3>3
  <2> QED BY <2>1 DEF Below
<1> QED BY <1>6, <1>8, <1>12, <1>13 DEF Stored, old

-----------------------------------------------------------------------------
(* What the steps of others leave alone                                    *)

\* M is L, or L with nodes added.
Longer(L, M) ==
  /\ M \in Seq(Nodes) /\ Len(L) <= Len(M)
  /\ \A j \in 1 .. Len(L) : M[j] = L[j]

\* What Later says of one thread and one location.
LEMMA LaterFacts ==
  ASSUME MemInv, MemInv', Later, NEW t \in Threads, NEW l \in Locs
  PROVE  /\ view[t][l] <= view'[t][l] /\ view[t][l] \in Nat /\ view'[t][l] \in Nat
         /\ sc[l] <= sc'[l] /\ sc[l] \in Nat /\ sc'[l] \in Nat
         /\ Len(mem[l]) <= Len(mem'[l]) /\ Len(mem[l]) \in Nat
         /\ Len(mem'[l]) \in Nat
         /\ \A i \in 1 .. Len(mem[l]) : mem'[l][i] = mem[l][i]
<1>1. view[t][l] \in Nat /\ sc[l] \in Nat /\ Len(mem[l]) \in Nat
  BY ViewBounds
<1>2. view'[t] \in Views /\ sc' \in Views /\ mem' \in Memories
  BY DEF MemInv, Within, Memories
<1>3. view'[t][l] \in Nat /\ sc'[l] \in Nat /\ Len(mem'[l]) \in Nat
  BY <1>2 DEF Views, Memories
<1> QED BY <1>1, <1>3 DEF Later, Below, Extends

\* What ListInv says of the lengths, and that no node comes twice.
LEMMA ListFacts ==
  ASSUME MemInv, NEW L, ListInv(L)
  PROVE  /\ L \in Seq(Nodes) /\ Len(L) \in Nat \ {0}
         /\ \A j \in 1 .. Len(L) : /\ L[j] \in Nodes /\ L[j] \in Locs
                                   /\ L[j] # Null
         /\ \A i, j \in 1 .. Len(L) : L[i] = L[j] => i = j
         /\ Len(mem[tail_]) \in 1 .. Len(L) /\ Len(mem[tail_]) >= Len(L) - 1
         /\ Len(mem[head_]) \in 1 .. Len(mem[tail_])
         /\ Newest(tail_).val = L[Len(mem[tail_])]
         /\ Newest(head_).val = L[Len(mem[head_])]
<1>1. L \in Seq(Nodes) /\ Len(L) \in Nat \ {0}
  BY DEF ListInv
<1>2. ASSUME NEW j \in 1 .. Len(L) PROVE L[j] \in Nodes /\ L[j] \in Locs /\ L[j] # Null
  <2>1. L[j] \in Nodes
    BY <1>1
  <2> QED BY <2>1, NodeFacts
<1>3. ASSUME NEW i \in 1 .. Len(L), NEW j \in 1 .. Len(L), L[i] = L[j] PROVE i = j
  <2>1. ~(i < j) /\ ~(j < i)
    BY <1>3 DEF ListInv, Before
  <2> QED BY <1>1, <2>1
<1>4. Len(mem[tail_]) \in Nat /\ Len(mem[head_]) \in Nat
  BY LocFacts, MemTypes
<1>5. /\ Len(mem[tail_]) \in 1 .. Len(L) /\ Len(mem[tail_]) >= Len(L) - 1
      /\ Len(mem[head_]) \in 1 .. Len(mem[tail_])
  BY <1>1, <1>4 DEF ListInv
<1>6. Newest(tail_).val = L[Len(mem[tail_])] /\ Newest(head_).val = L[Len(mem[head_])]
  BY <1>5 DEF ListInv, Newest
<1> QED BY <1>1, <1>2, <1>3, <1>5, <1>6

\* What head_ or tail_ has met, it has met.
LEMMA MetGrows ==
  ASSUME MemInv, MemInv', Later, NEW L, NEW M, ListInv(L), Longer(L, M),
         NEW l \in {head_, tail_}, NEW n, Met(l, n, L)
  PROVE  Met(l, n, M)'
<1>1. PICK i \in 1 .. Len(mem[l]) : n = L[i]
  BY DEF Met
<1>2. Len(mem[l]) <= Len(mem'[l]) /\ Len(mem[l]) \in Nat /\ Len(mem'[l]) \in Nat
  BY LocFacts, MemTypes, SMTT(30) DEF Later, Extends, MemInv
<1>3. i \in 1 .. Len(L)
  BY <1>1, ListFacts
<1>4. i \in 1 .. Len(mem'[l]) /\ n = M[i]
  BY <1>1, <1>2, <1>3 DEF Longer
<1> QED BY <1>4 DEF Met

\* And what follows a node still does.
LEMMA FollowsGrows ==
  ASSUME MemInv, MemInv', Later, NEW L, NEW M, ListInv(L), Longer(L, M),
         NEW t \in Threads, NEW n, NEW m, Follows(t, n, m, L)
  PROVE  Follows(t, n, m, M)'
<1>1. PICK j \in 1 .. Len(L) - 1 : /\ n = L[j] /\ m = L[j + 1]
                                   /\ view[t][n] >= 2 /\ view[t][m] >= 1
  BY DEF Follows
<1>2. Len(L) \in Nat /\ Len(M) \in Nat /\ n \in Locs /\ m \in Locs
  BY <1>1, ListFacts, SMTT(30) DEF Longer
<1>3. j \in 1 .. Len(M) - 1 /\ n = M[j] /\ m = M[j + 1]
  BY <1>1, <1>2 DEF Longer
<1>4. view'[t][n] >= 2 /\ view'[t][m] >= 1
  BY <1>1, <1>2, LaterFacts
<1> QED BY <1>3, <1>4 DEF Follows

\* A producer keeps what it knows of the locals that it keeps.
LEMMA ProducerGrows ==
  ASSUME MemInv, MemInv', Later, NEW L, NEW M, ListInv(L), Longer(L, M),
         NEW p \in Producers, loc'[p].tail = loc[p].tail
  PROVE  /\ Met(tail_, loc[p].tail, L) => Met(tail_, loc[p].tail, M)'
         /\ Met(tail_, loc[p].tail, L) /\ view[p][loc[p].tail] >= 1 =>
              view'[p][loc'[p].tail] >= 1
         /\ loc'[p].next = loc[p].next =>
              (Follows(p, loc[p].tail, loc[p].next, L) =>
                Follows(p, loc[p].tail, loc[p].next, M)')
         /\ loc'[p].n = loc[p].n =>
              (Follows(p, loc[p].tail, loc[p].n, L) =>
                Follows(p, loc[p].tail, loc[p].n, M)')
<1>1. p \in Threads
  BY DEF Threads
<1>2. PICK n, m, k : n = loc[p].tail /\ m = loc[p].next /\ k = loc[p].n
  OBVIOUS
<1>3. Met(tail_, n, L) => Met(tail_, n, M)'
  BY MetGrows
<1>4. /\ Follows(p, n, m, L) => Follows(p, n, m, M)'
      /\ Follows(p, n, k, L) => Follows(p, n, k, M)'
  BY <1>1, FollowsGrows
<1>5. Met(tail_, loc[p].tail, L) => Met(tail_, loc[p].tail, M)'
  BY <1>2, <1>3 DEF Met
<1>6. loc'[p].next = loc[p].next => (Follows(p, loc[p].tail, loc[p].next, L) =>
        Follows(p, loc[p].tail, loc[p].next, M)')
  BY <1>2, <1>4 DEF Follows
<1>7. loc'[p].n = loc[p].n => (Follows(p, loc[p].tail, loc[p].n, L) =>
        Follows(p, loc[p].tail, loc[p].n, M)')
  BY <1>2, <1>4 DEF Follows
<1>8. ASSUME Met(tail_, loc[p].tail, L), view[p][loc[p].tail] >= 1
      PROVE  view'[p][loc'[p].tail] >= 1
  <2>1. loc[p].tail \in Locs
    BY <1>8, ListFacts DEF Met
  <2> QED BY <1>1, <1>8, <2>1, LaterFacts
<1> QED BY <1>5, <1>6, <1>7, <1>8

\* A producer keeps what it knows, as long as nobody links its node.
LEMMA ProducerFrame ==
  ASSUME MemInv, MemInv', Later, TypeInv, NEW L, NEW M, ListInv(L), Longer(L, M),
         NEW p \in Producers, ProducerAt(p, L),
         pc'[p] = pc[p], loc'[p] = loc[p], sent'[p] = sent[p],
         Fresh(p, L) => /\ Len(mem'[loc[p].n]) = 1
                        /\ \A j \in 1 .. Len(M) : M[j] # loc[p].n
  PROVE  ProducerAt(p, M)'
<1>1. loc'[p].tail = loc[p].tail /\ loc'[p].next = loc[p].next /\ loc'[p].n = loc[p].n
  OBVIOUS
<1>2. Fresh(p, L) => Fresh(p, M)'
  <2>1. ASSUME Fresh(p, L) PROVE Fresh(p, M)'
    <3>1. loc[p].n \in Locs /\ p \in Threads
      BY <2>1, NodeFacts DEF Fresh, Threads
    <3>2. view'[p][loc[p].n] >= 1
      BY <2>1, <3>1, LaterFacts DEF Fresh
    <3> QED BY <2>1, <3>2 DEF Fresh
  <2> QED BY <2>1
<1> QED BY <1>1, <1>2, ProducerGrows DEF ProducerAt

\* The head a consumer has stays where it is.
LEMMA HeadGrows ==
  ASSUME MemInv, MemInv', Later, NEW L, NEW M, ListInv(L), Longer(L, M),
         NEW c \in Consumers, NEW n, NEW d \in {0, 1}, HeadAt(c, n, d, L)
  PROVE  HeadAt(c, n, d, M)'
<1>1. PICK i \in 1 .. Len(mem[head_]) : n = L[i] /\ view[c][tail_] >= i + d
  BY DEF HeadAt
<1>2. /\ Len(mem[head_]) <= Len(mem'[head_]) /\ Len(mem[head_]) \in Nat
      /\ Len(mem'[head_]) \in Nat /\ view[c][tail_] <= view'[c][tail_]
      /\ view[c][tail_] \in Nat /\ view'[c][tail_] \in Nat
  BY LocFacts, LaterFacts DEF Threads
<1>3. i \in 1 .. Len(L)
  BY <1>1, ListFacts
<1>4. i \in 1 .. Len(mem'[head_]) /\ n = M[i] /\ view'[c][tail_] >= i + d
  BY <1>1, <1>2, <1>3 DEF Longer
<1> QED BY <1>4 DEF HeadAt

\* A consumer keeps what it knows of the locals that it keeps.
LEMMA ConsumerGrows ==
  ASSUME MemInv, MemInv', Later, NEW L, NEW M, ListInv(L), Longer(L, M),
         NEW c \in Consumers
  PROVE  /\ loc'[c].head = loc[c].head =>
              /\ Met(head_, loc[c].head, L) => Met(head_, loc[c].head, M)'
              /\ HeadAt(c, loc[c].head, 0, L) => HeadAt(c, loc[c].head, 0, M)'
              /\ HeadAt(c, loc[c].head, 1, L) => HeadAt(c, loc[c].head, 1, M)'
              /\ HeadAt(c, loc[c].head, 0, L) => \A b \in {1, 2} :
                   view[c][loc[c].head] >= b => view'[c][loc'[c].head] >= b
         /\ loc'[c].head = loc[c].head /\ loc'[c].next = loc[c].next =>
              (Follows(c, loc[c].head, loc[c].next, L) =>
                Follows(c, loc[c].head, loc[c].next, M)')
         /\ loc'[c].tail = loc[c].tail /\ loc'[c].next = loc[c].next =>
              (Follows(c, loc[c].tail, loc[c].next, L) =>
                Follows(c, loc[c].tail, loc[c].next, M)')
<1>1. c \in Threads
  BY DEF Threads
<1>2. PICK h, n, k : h = loc[c].head /\ n = loc[c].next /\ k = loc[c].tail
  OBVIOUS
<1>4. Met(head_, h, L) => Met(head_, h, M)'
  BY MetGrows
<1>5. /\ HeadAt(c, h, 0, L) => HeadAt(c, h, 0, M)'
      /\ HeadAt(c, h, 1, L) => HeadAt(c, h, 1, M)'
  BY HeadGrows
<1>6. /\ Follows(c, h, n, L) => Follows(c, h, n, M)'
      /\ Follows(c, k, n, L) => Follows(c, k, n, M)'
  BY <1>1, FollowsGrows
<1>7. loc'[c].head = loc[c].head =>
      /\ Met(head_, loc[c].head, L) => Met(head_, loc[c].head, M)'
      /\ HeadAt(c, loc[c].head, 0, L) => HeadAt(c, loc[c].head, 0, M)'
      /\ HeadAt(c, loc[c].head, 1, L) => HeadAt(c, loc[c].head, 1, M)'
  BY <1>2, <1>4, <1>5 DEF Met, HeadAt
<1>8. loc'[c].head = loc[c].head /\ loc'[c].next = loc[c].next =>
        (Follows(c, loc[c].head, loc[c].next, L) =>
           Follows(c, loc[c].head, loc[c].next, M)')
  BY <1>2, <1>6 DEF Follows
<1>9. loc'[c].tail = loc[c].tail /\ loc'[c].next = loc[c].next =>
        (Follows(c, loc[c].tail, loc[c].next, L) =>
           Follows(c, loc[c].tail, loc[c].next, M)')
  BY <1>2, <1>6 DEF Follows
<1>10. ASSUME HeadAt(c, loc[c].head, 0, L), NEW b \in {1, 2}, view[c][loc[c].head] >= b
      PROVE  view'[c][loc[c].head] >= b
  <2>1. loc[c].head \in Locs
    BY <1>10, ListFacts DEF HeadAt
  <2> QED BY <1>1, <1>10, <2>1, LaterFacts
<1> QED BY <1>7, <1>8, <1>9, <1>10

\* A consumer keeps what it knows.
LEMMA ConsumerFrame ==
  ASSUME MemInv, MemInv', Later, TypeInv, NEW L, NEW M, ListInv(L), Longer(L, M),
         NEW c \in Consumers, ConsumerAt(c, L), pc'[c] = pc[c], loc'[c] = loc[c]
  PROVE  ConsumerAt(c, M)'
<1>1. loc'[c].head = loc[c].head /\ loc'[c].next = loc[c].next
      /\ loc'[c].tail = loc[c].tail
  OBVIOUS
<1> QED BY <1>1, ConsumerGrows DEF ConsumerAt

\* What was dequeued stays so.
LEMMA GotFrame ==
  ASSUME MemInv, MemInv', Later, NEW L, NEW M, ListInv(L), Longer(L, M),
         GotInv(L), got' = got
  PROVE  GotInv(M)'
<1>1. ASSUME NEW c \in Consumers, NEW k \in 1 .. Len(got[c])
      PROVE  Met(head_, got[c][k], M)'
  <2>1. PICK n : n = got[c][k]
    OBVIOUS
  <2>2. Met(head_, n, M)'
    BY <2>1, MetGrows DEF GotInv
  <2> QED BY <2>1, <2>2 DEF Met
<1>2. ExactlyOnceInOrder'
  BY DEF GotInv, ExactlyOnceInOrder
<1> QED BY <1>1, <1>2 DEF GotInv

\* The list and what the writes to it carry, when nobody writes to it.
LEMMA ListFrame ==
  ASSUME NEW L, ListInv(L), CarryInv(L), MemInv, sent' = sent,
         \A l \in Nodes \cup {head_, tail_} : mem'[l] = mem[l]
  PROVE  ListInv(L)' /\ CarryInv(L)'
<1>1. \A j \in 1 .. Len(L) : L[j] \in Nodes
  BY ListFacts
<1>2. \A j \in 1 .. Len(L) - 1 : j \in 1 .. Len(L)
  BY ListFacts
<1>3. Len(L) \in 1 .. Len(L)
  BY ListFacts
<1>4. \A n : Made(n)' <=> Made(n)
  BY DEF Made
<1>5. ListInv(L)'
  BY <1>1, <1>2, <1>3, <1>4 DEF ListInv
<1>6. CarryInv(L)'
  BY <1>1, <1>2 DEF CarryInv
<1> QED BY <1>5, <1>6

\* A list is as long as itself.
LEMMA LongerSelf ==
  ASSUME MemInv, NEW L, ListInv(L)
  PROVE  Longer(L, L)
BY ListFacts DEF Longer

\* What is gone stays gone.
LEMMA GoneGrows ==
  ASSUME MemInv, NEW L, NEW M, ListInv(L), Longer(L, M), NEW n,
         NEW v \in Views, NEW w \in Views, Below(v, w), Gone(n, v, L)
  PROVE  Gone(n, w, M)
<1>1. PICK i \in 1 .. Len(L) : n = L[i] /\ v[head_] >= i + 1 /\ v[tail_] >= i + 1
  BY DEF Gone
<1>2. Len(L) \in Nat /\ Len(M) \in Nat
  BY ListFacts DEF Longer
<1>3. i \in 1 .. Len(M) /\ n = M[i]
  BY <1>1, <1>2 DEF Longer
<1>4. /\ v[head_] <= w[head_] /\ v[tail_] <= w[tail_] /\ v[head_] \in Nat
      /\ w[head_] \in Nat /\ v[tail_] \in Nat /\ w[tail_] \in Nat
  BY LocFacts DEF Below, Views
<1>5. w[head_] >= i + 1 /\ w[tail_] >= i + 1
  BY <1>1, <1>4
<1> QED BY <1>3, <1>5 DEF Gone

\* The bags, when nobody retires, scans or frees.
LEMMA RetiredFrame ==
  ASSUME MemInv, MemInv', Later, NEW L, NEW M, ListInv(L), Longer(L, M),
         RetiredInv(L), setup' = setup, freed' = freed, bag' = bag,
         \A c \in Consumers : Scanning(c)' => Scanning(c)
  PROVE  RetiredInv(M)'
<1>1. Below(sc, sc') /\ sc \in Views /\ sc' \in Views
  BY MemTypes DEF Later, MemInv, Within
<1>2. ASSUME NEW c \in Consumers
      PROVE  Below(view[c], view'[c]) /\ view[c] \in Views /\ view'[c] \in Views
  BY MemTypes DEF Later, MemInv, Threads
<1>3. ASSUME NEW n, Gone(n, sc, L) PROVE Gone(n, sc', M)
  BY <1>1, <1>3, GoneGrows
<1>4. ASSUME NEW c \in Consumers, NEW n, Gone(n, view[c], L) PROVE Gone(n, view'[c], M)
  BY <1>2, <1>4, GoneGrows
<1>5. \A n : Gone(n, sc, M)' <=> Gone(n, sc', M)
  BY DEF Gone
<1>6. \A n : \A c \in Consumers : Gone(n, view[c], M)' <=> Gone(n, view'[c], M)
  BY DEF Gone
<1>7. \A n \in freed' : Gone(n, sc, M)'
  BY <1>3, <1>5 DEF RetiredInv
<1>8. ASSUME NEW c \in Consumers, NEW n \in bag'[c]
      PROVE  Gone(n, view[c], M)' /\ (Scanning(c)' => Gone(n, sc, M)')
  BY <1>3, <1>4, <1>5, <1>6 DEF RetiredInv
<1> QED BY <1>7, <1>8 DEF RetiredInv

\* What a slot spares, when nobody retires, scans or frees.
LEMMA SparedFrame ==
  ASSUME MemInv, MemInv', Later, NEW u \in Threads, NEW s \in {0, 1},
         Slot(u, s) \in Slots, mem'[Slot(u, s)] = mem[Slot(u, s)],
         UNCHANGED hpVars, \A c \in Consumers : Scanning(c)' => Scanning(c),
         NEW n, Spared(u, s, n)
  PROVE  Spared(u, s, n)'
<1>1. freed' = freed /\ bag' = bag /\ todo' = todo /\ hz' = hz
  BY DEF hpVars
<1>2. ASSUME NEW c \in Consumers, Scanning(c)', n \in bag'[c]
      PROVE  /\ view'[c][Slot(u, s)] >= Len(mem'[Slot(u, s)])
             /\ Slot(u, s) \notin todo'[c] => n \in hz'[c]
  <2>1. /\ view[c][Slot(u, s)] >= Len(mem[Slot(u, s)])
        /\ Slot(u, s) \notin todo[c] => n \in hz[c]
    BY <1>1, <1>2 DEF Spared
  <2>2. Slot(u, s) \in Locs /\ c \in Threads
    BY LocFacts DEF Threads
  <2>3. /\ view[c][Slot(u, s)] <= view'[c][Slot(u, s)]
        /\ view[c][Slot(u, s)] \in Nat /\ view'[c][Slot(u, s)] \in Nat
        /\ Len(mem[Slot(u, s)]) \in Nat
    BY <2>2, LaterFacts
  <2> QED BY <1>1, <2>1, <2>3
<1>3. n \notin freed'
  BY <1>1 DEF Spared
<1> QED BY <1>2, <1>3 DEF Spared

\* A step of others keeps what u's slot s spares.
Keeps(u) == \A s \in {0, 1} : \A n : Slot(u, s) \in Slots /\ Guards(u, s, n) =>
              Spared(u, s, n)'

\* u's hazards, when others move.
LEMMA HazardFrame ==
  ASSUME MemInv, MemInv', Later, TypeInv, NEW L, NEW M, ListInv(L), Longer(L, M),
         NEW u \in Threads, HazardAt(u, L), pc'[u] = pc[u], loc'[u] = loc[u],
         \A s \in {0, 1} : Slot(u, s) \in Slots =>
           mem'[Slot(u, s)] = mem[Slot(u, s)],
         Keeps(u)
  PROVE  HazardAt(u, M)'
<1>1. Slot(u, 0) \in Slots /\ (u \in Consumers => Slot(u, 1) \in Slots)
  BY SlotsHas
<1>2. pc[u] \in {"setfence", "dverify", "value"} => u \in Consumers
  BY DEF TypeInv, Threads, PLabels
<1>3. ASSUME NEW s \in {0, 1}, Slot(u, s) \in Slots
      PROVE  /\ view'[u][Slot(u, s)] >= view[u][Slot(u, s)]
             /\ view[u][Slot(u, s)] \in Nat /\ view'[u][Slot(u, s)] \in Nat
             /\ sc'[Slot(u, s)] >= sc[Slot(u, s)]
             /\ sc[Slot(u, s)] \in Nat /\ sc'[Slot(u, s)] \in Nat
             /\ Len(mem[Slot(u, s)]) \in Nat
             /\ mem'[Slot(u, s)] = mem[Slot(u, s)]
  BY <1>3, LaterFacts, LocFacts
<1>4. ASSUME NEW s \in {0, 1}, Slot(u, s) \in Slots
      PROVE  /\ view[u][Slot(u, s)] >= Len(mem[Slot(u, s)]) =>
                  view'[u][Slot(u, s)] >= Len(mem'[Slot(u, s)])
             /\ Shown(u, s) => Shown(u, s)'
             /\ \A n : Named(u, s, n) => Named(u, s, n)'
  BY <1>3, <1>4 DEF Shown, Named, Newest
<1>5. ASSUME NEW n, Gone(n, view[u], L) PROVE Gone(n, view'[u], M)
  <2>1. Below(view[u], view'[u]) /\ view[u] \in Views /\ view'[u] \in Views
    BY MemTypes DEF Later, MemInv
  <2> QED BY <1>5, <2>1, GoneGrows
<1>6. PICK h, m : h = loc[u][Held(u)] /\ m = loc[u].next
  OBVIOUS
<1>7. h = loc'[u][Held(u)] /\ m = loc'[u].next
  BY <1>6
<1>8. \A n : Gone(n, view[u], M)' <=> Gone(n, view'[u], M)
  BY DEF Gone
<1>9. \A s \in {0, 1} : Slot(u, s) \in Slots =>
        view'[u][Slot(u, s)] >= Len(mem'[Slot(u, s)])
  BY <1>4 DEF HazardAt
<1>10. /\ pc[u] = "fence" => Named(u, 0, h)'
       /\ pc[u] = "setfence" => Named(u, 1, m)'
  BY <1>1, <1>2, <1>4, <1>6 DEF HazardAt
<1>11. pc[u] = "reload" =>
         Named(u, 0, h)' /\ Shown(u, 0)' /\ (Gone(h, view'[u], M) \/ Spared(u, 0, h)')
  BY <1>1, <1>4, <1>5, <1>6 DEF HazardAt, Keeps, Guards
<1>12. pc[u] \in {"next", "verify", "link", "dtail", "dnext", "set", "setfence",
                  "dverify"} =>
         Guards(u, 0, h)'
  BY <1>1, <1>4, <1>6 DEF HazardAt, Keeps, Guards
<1>13. pc[u] = "dverify" /\ m # Null =>
         Named(u, 1, m)' /\ Shown(u, 1)' /\ (Gone(m, view'[u], M) \/ Spared(u, 1, m)')
  BY <1>1, <1>2, <1>4, <1>5, <1>6 DEF HazardAt, Keeps, Guards
<1>14. pc[u] = "value" => Guards(u, 1, m)'
  BY <1>1, <1>2, <1>4, <1>6 DEF HazardAt, Keeps, Guards
<1>15. /\ Named(u, 0, h)' <=> Named(u, 0, loc[u][Held(u)])'
       /\ Named(u, 1, m)' <=> Named(u, 1, loc[u].next)'
  BY <1>7 DEF Named
<1>16. /\ Spared(u, 0, h)' <=> Spared(u, 0, loc[u][Held(u)])'
       /\ Spared(u, 1, m)' <=> Spared(u, 1, loc[u].next)'
  BY <1>7 DEF Spared
<1>17. /\ Gone(h, view'[u], M) <=> Gone(loc[u][Held(u)], view[u], M)'
       /\ Gone(m, view'[u], M) <=> Gone(loc[u].next, view[u], M)'
  BY <1>7 DEF Gone
<1> QED BY <1>7, <1>9, <1>10, <1>11, <1>12, <1>13, <1>14, <1>15, <1>16, <1>17
        DEF HazardAt, Guards

\* Threads other than t, and their slots, are as they were.
OthersStay(t) ==
  \A u \in Threads : u # t =>
    /\ pc'[u] = pc[u] /\ loc'[u] = loc[u]
    /\ \A s \in {0, 1} : Slot(u, s) \in Slots =>
         mem'[Slot(u, s)] = mem[Slot(u, s)]

\* The invariant after a step of t, from what the step does to t and to the
\* state that is shared.
LEMMA Assemble ==
  ASSUME NEW L, NEW M, QueueInv(L), Longer(L, M), NEW t \in Threads,
         MemInv', Later, TypeInv', setup' = setup, OthersStay(t),
         ListInv(M)', CarryInv(M)', GotInv(M)', RetiredInv(M)',
         t \in Producers => ProducerAt(t, M)',
         t \in Consumers => ConsumerAt(t, M)',
         setup.hp => HazardAt(t, M)' /\ \A u \in Threads : u # t => Keeps(u),
         \A p \in Producers : p # t =>
           /\ sent'[p] = sent[p]
           /\ Fresh(p, L) => /\ Len(mem'[loc[p].n]) = 1
                             /\ \A j \in 1 .. Len(M) : M[j] # loc[p].n
  PROVE  QueueInv(M)'
<1>1. /\ MemInv /\ TypeInv /\ ListInv(L) /\ CarryInv(L) /\ HazardInv(L)
      /\ \A p \in Producers : ProducerAt(p, L)
      /\ \A c \in Consumers : ConsumerAt(c, L)
  BY DEF QueueInv
<1>2. ASSUME NEW p \in Producers PROVE ProducerAt(p, M)'
  <2>1. CASE p = t
    BY <2>1
  <2>2. CASE p # t
    <3>1. pc'[p] = pc[p] /\ loc'[p] = loc[p]
      BY <2>2 DEF OthersStay, Threads
    <3> QED BY <1>1, <2>2, <3>1, ProducerFrame
  <2> QED BY <2>1, <2>2
<1>3. ASSUME NEW c \in Consumers PROVE ConsumerAt(c, M)'
  <2>1. CASE c = t
    BY <2>1
  <2>2. CASE c # t
    <3>1. pc'[c] = pc[c] /\ loc'[c] = loc[c]
      BY <2>2 DEF OthersStay, Threads
    <3> QED BY <1>1, <2>2, <3>1, ConsumerFrame
  <2> QED BY <2>1, <2>2
<1>4. ASSUME setup.hp, NEW u \in Threads PROVE HazardAt(u, M)'
  <2>1. CASE u = t
    BY <1>4, <2>1
  <2>2. CASE u # t
    <3>1. HazardAt(u, L) /\ Keeps(u)
      BY <1>1, <1>4, <2>2 DEF HazardInv
    <3>2. /\ pc'[u] = pc[u] /\ loc'[u] = loc[u]
          /\ \A s \in {0, 1} : Slot(u, s) \in Slots =>
               mem'[Slot(u, s)] = mem[Slot(u, s)]
      BY <2>2 DEF OthersStay
    <3> QED BY <1>1, <3>1, <3>2, HazardFrame
  <2> QED BY <2>1, <2>2
<1> QED BY <1>2, <1>3, <1>4 DEF QueueInv, HazardInv

\* A step that leaves the domain alone keeps what slots spare.
LEMMA KeepsFrame ==
  ASSUME MemInv, MemInv', Later, UNCHANGED hpVars,
         \A c \in Consumers : Scanning(c)' => Scanning(c),
         NEW u \in Threads,
         \A s \in {0, 1} : Slot(u, s) \in Slots =>
           mem'[Slot(u, s)] = mem[Slot(u, s)]
  PROVE  Keeps(u)
BY SparedFrame DEF Keeps, Guards

\* The invariant after a step of t that does not write to the list.
LEMMA LocalStep ==
  ASSUME NEW L, QueueInv(L), NEW t \in Threads,
         MemInv', Later, TypeInv', setup' = setup, OthersStay(t),
         sent' = sent, got' = got,
         \A l \in Nodes \cup {head_, tail_} : mem'[l] = mem[l],
         RetiredInv(L)',
         t \in Producers => ProducerAt(t, L)',
         t \in Consumers => ConsumerAt(t, L)',
         setup.hp => HazardAt(t, L)' /\ \A u \in Threads : u # t => Keeps(u)
  PROVE  QueueInv(L)'
<1>1. MemInv /\ ListInv(L) /\ CarryInv(L) /\ GotInv(L)
  BY DEF QueueInv
<1>2. Longer(L, L)
  BY <1>1, LongerSelf
<1>3. ListInv(L)' /\ CarryInv(L)'
  BY <1>1, ListFrame
<1>4. GotInv(L)'
  BY <1>1, <1>2, GotFrame
<1>5. \A p \in Producers : p # t =>
        /\ sent'[p] = sent[p]
        /\ Fresh(p, L) => /\ Len(mem'[loc[p].n]) = 1
                          /\ \A j \in 1 .. Len(L) : L[j] # loc[p].n
  BY DEF Fresh
<1> QED BY <1>2, <1>3, <1>4, <1>5, Assemble

\* The invariant after a step of t that writes neither to the list nor to
\* the domain: what is left to show is what it does to t.
LEMMA PlainStep ==
  ASSUME NEW L, QueueInv(L), NEW t \in Threads,
         MemInv', Later, TypeInv', setup' = setup, OthersStay(t),
         sent' = sent, got' = got, UNCHANGED hpVars,
         Scanning(t)' => Scanning(t),
         \A l \in Nodes \cup {head_, tail_} : mem'[l] = mem[l],
         t \in Producers => ProducerAt(t, L)',
         t \in Consumers => ConsumerAt(t, L)',
         setup.hp => HazardAt(t, L)'
  PROVE  QueueInv(L)'
<1>1. MemInv /\ ListInv(L) /\ RetiredInv(L)
  BY DEF QueueInv
<1>2. ASSUME NEW c \in Consumers, Scanning(c)' PROVE Scanning(c)
  BY <1>2 DEF Scanning, OthersStay, Threads
<1>3. RetiredInv(L)'
  BY <1>1, <1>2, LongerSelf, RetiredFrame DEF hpVars
<1>4. ASSUME NEW u \in Threads, u # t PROVE Keeps(u)
  <2>1. \A s \in {0, 1} : Slot(u, s) \in Slots =>
          mem'[Slot(u, s)] = mem[Slot(u, s)]
    BY <1>4 DEF OthersStay
  <2> QED BY <1>1, <1>2, <2>1, KeepsFrame
<1> QED BY <1>3, <1>4, LocalStep

-----------------------------------------------------------------------------
(* What a thread's own step keeps                                          *)

Locals == [n : Words, head : Words, tail : Words, next : Words]

\* The types, after a step of t that leaves the domain alone.
LEMMA TypeStep ==
  ASSUME TypeInv, NEW t \in Threads, NEW to, pc' = [pc EXCEPT ![t] = to],
         t \in Producers => to \in PLabels,
         t \in Consumers => to \in CLabels \ {"slots", "free"},
         NEW x \in Locals, loc' = [loc EXCEPT ![t] = x],
         setup' = setup, sent' = sent, got' = got, UNCHANGED hpVars,
         \A i \in 1 .. Len(mem'[consumed]) : mem'[consumed][i].val \in Nat
  PROVE  /\ TypeInv' /\ pc'[t] = to /\ loc'[t] = x
         /\ \A u \in Threads : u # t => pc'[u] = pc[u] /\ loc'[u] = loc[u]
<1>1. to \in PLabels \cup CLabels
  BY DEF Threads
<1>2. /\ pc' \in [Threads -> PLabels \cup CLabels] /\ pc'[t] = to
      /\ loc' \in [Threads -> Locals] /\ loc'[t] = x
      /\ \A u \in Threads : u # t => pc'[u] = pc[u] /\ loc'[u] = loc[u]
  BY <1>1 DEF TypeInv, Locals
<1>3. ASSUME NEW p \in Producers PROVE pc'[p] \in PLabels
  BY <1>2 DEF TypeInv, Threads
<1>4. ASSUME NEW c \in Consumers
      PROVE  /\ pc'[c] \in CLabels /\ (pc'[c] = "slots" => todo[c] # {})
             /\ (pc'[c] = "free" => todo[c] = {})
  BY <1>2 DEF TypeInv, Threads
<1>5. freed' = freed /\ bag' = bag /\ todo' = todo /\ hz' = hz
  BY DEF hpVars
<1> QED BY <1>2, <1>3, <1>4, <1>5 DEF TypeInv, Locals

\* A thread has some locals.
LEMMA LocalTypes ==
  ASSUME TypeInv, NEW t \in Threads
  PROVE  /\ loc[t] \in Locals /\ loc[t].n \in Words /\ loc[t].head \in Words
         /\ loc[t].tail \in Words /\ loc[t].next \in Words
<1>1. loc[t] \in Locals
  BY DEF TypeInv, Locals
<1> QED BY <1>1 DEF Locals

\* A producer's node stays fresh until it is linked.
LEMMA FreshKept ==
  ASSUME MemInv, MemInv', Later, NEW L, NEW M, NEW p \in Producers, Fresh(p, L),
         loc'[p].n = loc[p].n, sent'[p] = sent[p], Len(mem'[loc[p].n]) = 1,
         \A j \in 1 .. Len(M) : M[j] # loc[p].n
  PROVE  Fresh(p, M)'
<1>1. loc[p].n \in Locs /\ p \in Threads
  BY NodeFacts DEF Fresh, Threads
<1>2. view'[p][loc[p].n] >= 1
  BY <1>1, LaterFacts DEF Fresh
<1> QED BY <1>2 DEF Fresh

\* t's own slots stay in its view.
OwnSlots(t) == \A s \in {0, 1} : Slot(t, s) \in Slots =>
                 view[t][Slot(t, s)] >= Len(mem[Slot(t, s)])

LEMMA OwnSlotsKept ==
  ASSUME MemInv, MemInv', Later, NEW t \in Threads, OwnSlots(t),
         \A s \in {0, 1} : Slot(t, s) \in Slots =>
           mem'[Slot(t, s)] = mem[Slot(t, s)]
  PROVE  OwnSlots(t)'
<1>1. ASSUME NEW s \in {0, 1}, Slot(t, s) \in Slots
      PROVE  view'[t][Slot(t, s)] >= Len(mem'[Slot(t, s)])
  <2>1. /\ view'[t][Slot(t, s)] >= view[t][Slot(t, s)]
        /\ view[t][Slot(t, s)] \in Nat /\ view'[t][Slot(t, s)] \in Nat
        /\ Len(mem[Slot(t, s)]) \in Nat
        /\ view[t][Slot(t, s)] >= Len(mem[Slot(t, s)])
    BY <1>1, LaterFacts, LocFacts DEF OwnSlots
  <2> QED BY <1>1, <2>1
<1> QED BY <1>1 DEF OwnSlots

\* So does what a slot guards, when nobody retires, scans or frees.
LEMMA GuardsKept ==
  ASSUME MemInv, MemInv', Later, NEW t \in Threads, NEW s \in {0, 1},
         Slot(t, s) \in Slots, mem'[Slot(t, s)] = mem[Slot(t, s)],
         UNCHANGED hpVars, \A c \in Consumers : Scanning(c)' => Scanning(c),
         NEW n
  PROVE  /\ Guards(t, s, n) => Guards(t, s, n)'
         /\ Named(t, s, n) => Named(t, s, n)'
         /\ Shown(t, s) => Shown(t, s)'
         /\ Spared(t, s, n) => Spared(t, s, n)'
<1>1. Named(t, s, n) => Named(t, s, n)'
  BY DEF Named, Newest
<1>2. Shown(t, s) => Shown(t, s)'
  <2>1. /\ sc'[Slot(t, s)] >= sc[Slot(t, s)] /\ sc[Slot(t, s)] \in Nat
        /\ sc'[Slot(t, s)] \in Nat /\ Len(mem[Slot(t, s)]) \in Nat
    BY LaterFacts, LocFacts
  <2> QED BY <2>1 DEF Shown
<1>3. Spared(t, s, n) => Spared(t, s, n)'
  BY SparedFrame
<1> QED BY <1>1, <1>2, <1>3 DEF Guards

\* The next of a node of the list is null, or the node after it.
LEMMA NodeRead ==
  ASSUME MemInv, NEW L, ListInv(L), NEW j \in 1 .. Len(L),
         NEW i \in 1 .. Len(mem[L[j]])
  PROVE  \/ i = 1 /\ mem[L[j]][i].val = Null
         \/ /\ i = 2 /\ j \in 1 .. Len(L) - 1
            /\ mem[L[j]][i].val = L[j + 1] /\ mem[L[j]][i].val # Null
<1>1. Len(L) \in Nat /\ L[j] \in Nodes
  BY ListFacts
<1>2. CASE i = 1
  BY <1>1, <1>2 DEF ListInv
<1>3. CASE i # 1
  <2>1. ASSUME j = Len(L) PROVE FALSE
    <3>1. Len(mem[L[j]]) = 1
      BY <2>1 DEF ListInv
    <3> QED BY <1>3, <3>1
  <2>2. j \in 1 .. Len(L) - 1
    BY <1>1, <2>1
  <2>3. Len(mem[L[j]]) = 2 /\ mem[L[j]][2].val = L[j + 1]
    BY <2>2 DEF ListInv
  <2>4. i = 2 /\ L[j + 1] # Null
    <3>1. j + 1 \in 1 .. Len(L)
      BY <1>1, <2>2
    <3>2. L[j + 1] # Null
      BY <3>1, ListFacts
    <3> QED BY <1>3, <2>3, <3>2
  <2> QED BY <2>2, <2>3, <2>4
<1> QED BY <1>2, <1>3

\* A step of t to label to that leaves memory and the domain alone, and what
\* then remains to be shown.
LEMMA QuietStep ==
  ASSUME NEW L, QueueInv(L), NEW t \in Threads, MemInv', Later, mem' = mem,
         NEW to, pc' = [pc EXCEPT ![t] = to],
         t \in Producers => to \in PLabels,
         t \in Consumers => to \in CLabels \ {"slots", "free"},
         NEW x \in Locals, loc' = [loc EXCEPT ![t] = x],
         setup' = setup, UNCHANGED <<suiteVars, hpVars>>
  PROVE  /\ TypeInv' /\ pc'[t] = to /\ loc'[t] = x
         /\ (t \in Producers => ProducerAt(t, L)') /\
              (t \in Consumers => ConsumerAt(t, L)') /\
              (setup.hp => HazardAt(t, L)') => QueueInv(L)'
         /\ setup.hp => OwnSlots(t)'
         /\ \A s \in {0, 1} : Slot(t, s) \in Slots => \A n :
              /\ Guards(t, s, n) => Guards(t, s, n)'
              /\ Named(t, s, n) => Named(t, s, n)'
              /\ Shown(t, s) => Shown(t, s)'
              /\ Spared(t, s, n) => Spared(t, s, n)'
         /\ t \in Producers /\ Fresh(t, L) /\ x.n = loc[t].n => Fresh(t, L)'
<1>1. MemInv /\ TypeInv /\ HazardInv(L) /\ ListInv(L)
  BY DEF QueueInv
<1>2. sent' = sent /\ got' = got /\ UNCHANGED hpVars
  BY DEF suiteVars
<1>3. /\ TypeInv' /\ pc'[t] = to /\ loc'[t] = x
      /\ \A u \in Threads : u # t => pc'[u] = pc[u] /\ loc'[u] = loc[u]
  <2>1. \A i \in 1 .. Len(mem'[consumed]) : mem'[consumed][i].val \in Nat
    BY <1>1 DEF TypeInv
  <2> QED BY <1>1, <1>2, <2>1, TypeStep
<1>4. OthersStay(t)
  BY <1>3 DEF OthersStay
<1>5. \A c \in Consumers : Scanning(c)' => Scanning(c)
  <2>1. t \in Consumers => to \notin {"slots", "free"}
    OBVIOUS
  <2> QED BY <1>3, <2>1 DEF Scanning, Threads
<1>6. Scanning(t)' => Scanning(t)
  <2>1. t \in Producers => to \notin {"slots", "free"}
    BY DEF PLabels
  <2> QED BY <1>3, <1>5, <2>1 DEF Scanning, Threads
<1>7. (t \in Producers => ProducerAt(t, L)') /\
        (t \in Consumers => ConsumerAt(t, L)') /\
        (setup.hp => HazardAt(t, L)') => QueueInv(L)'
  BY <1>2, <1>3, <1>4, <1>6, PlainStep
<1>8. setup.hp => OwnSlots(t)'
  <2>1. setup.hp => OwnSlots(t)
    BY <1>1 DEF HazardInv, HazardAt, OwnSlots
  <2> QED BY <1>1, <2>1, OwnSlotsKept
<1>9. ASSUME NEW s \in {0, 1}, Slot(t, s) \in Slots, NEW n
      PROVE  /\ Guards(t, s, n) => Guards(t, s, n)'
             /\ Named(t, s, n) => Named(t, s, n)'
             /\ Shown(t, s) => Shown(t, s)'
             /\ Spared(t, s, n) => Spared(t, s, n)'
  BY <1>1, <1>2, <1>5, <1>9, GuardsKept
<1>10. t \in Producers /\ Fresh(t, L) /\ x.n = loc[t].n => Fresh(t, L)'
  <2>1. ASSUME t \in Producers, Fresh(t, L), x.n = loc[t].n PROVE Fresh(t, L)'
    <3>1. /\ loc'[t].n = loc[t].n /\ sent'[t] = sent[t] /\ Len(mem'[loc[t].n]) = 1
          /\ \A j \in 1 .. Len(L) : L[j] # loc[t].n
      BY <1>2, <1>3, <2>1 DEF Fresh
    <3> QED BY <1>1, <2>1, <3>1, FreshKept
  <2> QED BY <2>1
<1> QED BY <1>3, <1>7, <1>8, <1>9, <1>10

\* HazardAt where nothing is protected.
LEMMA HazardNone ==
  ASSUME NEW L, NEW t, OwnSlots(t)', pc'[t] \notin {"fence", "reload", "next",
           "verify", "link", "dtail", "dnext", "set", "setfence", "dverify",
           "value"}
  PROVE  HazardAt(t, L)'
BY DEF HazardAt, OwnSlots

\* What t is a thread of.
LEMMA Roles ==
  ASSUME NEW t \in Threads
  PROVE  /\ t \in Producers \/ t \in Consumers
         /\ ~(t \in Producers /\ t \in Consumers)
         /\ t \in Producers => Src(t) = tail_ /\ Held(t) = "tail"
         /\ t \in Consumers => Src(t) = head_ /\ Held(t) = "head"
         /\ Src(t) \in {head_, tail_} /\ Src(t) \in Locs
         /\ Src(t) \in Started
BY QueueRAAssumption, LocFacts DEF Threads, Src, Held, Started

\* What t reads in head_ or tail_ is a node of the list.
LEMMA SrcRead ==
  ASSUME MemInv, NEW L, ListInv(L), CarryInv(L), NEW l \in {head_, tail_},
         NEW i \in 1 .. Len(mem[l])
  PROVE  /\ mem[l][i].val = L[i] /\ L[i] \in Nodes /\ L[i] \in Words
         /\ i \in 1 .. Len(L) /\ i \in 1 .. Len(mem[tail_])
         /\ mem[l][i].at \in Views /\ mem[l][i].at[L[i]] >= 1
         /\ l = head_ => mem[l][i].at[tail_] >= i
         /\ l = tail_ => \A k \in 1 .. i - 1 : mem[l][i].at[L[k]] >= 2
<1>1. l \in Locs /\ i \in 1 .. Len(L) /\ i \in 1 .. Len(mem[tail_])
  BY LocFacts, ListFacts
<1>2. mem[l][i].val = L[i]
  BY DEF ListInv
<1>3. L[i] \in Nodes /\ L[i] \in Words
  BY <1>1, ListFacts DEF Words
<1>4. mem[l][i].at \in Views
  BY <1>1, MemTypes
<1>5. /\ mem[l][i].at[L[i]] >= 1 /\ (l = head_ => mem[l][i].at[tail_] >= i)
      /\ l = tail_ => \A k \in 1 .. i - 1 : mem[l][i].at[L[k]] >= 2
  BY LocFacts DEF CarryInv
<1> QED BY <1>1, <1>2, <1>3, <1>4, <1>5

\* To acquire a write is to have what it carries in view.
LEMMA Acquired ==
  ASSUME MemInv', NEW t \in Threads, NEW a \in Views, Below(a, view'[t]),
         NEW l \in Locs, NEW k \in Nat, a[l] >= k
  PROVE  view'[t][l] >= k
<1>1. view'[t] \in Views
  BY DEF MemInv
<1>2. a[l] <= view'[t][l] /\ a[l] \in Nat /\ view'[t][l] \in Nat
  BY <1>1 DEF Below, Views
<1> QED BY <1>2

-----------------------------------------------------------------------------
(* protect, set and the destructor of the guard                            *)

\* What Set does to the locals.
LEMMA SetStep ==
  ASSUME TypeInv, NEW t \in Threads, NEW f \in {"n", "head", "tail", "next"},
         NEW v \in Words, Set(t, f, v)
  PROVE  \E y \in Locals :
           /\ loc' = [loc EXCEPT ![t] = y]
           /\ y.n = (IF f = "n" THEN v ELSE loc[t].n)
           /\ y.head = (IF f = "head" THEN v ELSE loc[t].head)
           /\ y.tail = (IF f = "tail" THEN v ELSE loc[t].tail)
           /\ y.next = (IF f = "next" THEN v ELSE loc[t].next)
<1> DEFINE y == [loc[t] EXCEPT ![f] = v]
<1>1. loc[t] \in Locals
  BY LocalTypes
<1>2. /\ y \in Locals
      /\ y.n = (IF f = "n" THEN v ELSE loc[t].n)
      /\ y.head = (IF f = "head" THEN v ELSE loc[t].head)
      /\ y.tail = (IF f = "tail" THEN v ELSE loc[t].tail)
      /\ y.next = (IF f = "next" THEN v ELSE loc[t].next)
  BY <1>1 DEF Locals
<1>3. loc' = [loc EXCEPT ![t] = y]
  BY DEF Set, TypeInv
<1> QED BY <1>2, <1>3

\* What t has loaded from head_ or tail_ is one of its values, and when it
\* has acquired it, a node in its view.
LEMMA SrcLoaded ==
  ASSUME NEW L, QueueInv(L), NEW t \in Threads, NEW l \in {head_, tail_}, NEW i,
         NEW mo, Load(t, l, i, mo)
  PROVE  /\ MemInv' /\ Later /\ mem' = mem /\ sc' = sc
         /\ i \in 1 .. Len(mem[l]) /\ view[t][l] <= i
         /\ mem[l][i].val = L[i] /\ L[i] \in Nodes /\ L[i] \in Words
         /\ i \in 1 .. Len(L) /\ Met(l, L[i], L)'
         /\ mo = "acquire" =>
              /\ view'[t][L[i]] >= 1 /\ view'[t][tail_] >= i
              /\ l = tail_ => \A k \in 1 .. i - 1 : view'[t][L[k]] >= 2
<1>1. MemInv /\ ListInv(L) /\ CarryInv(L) /\ l \in Locs /\ l \in Started
  BY LocFacts DEF QueueInv, Started
<1>2. view[t][l] >= 1
  BY <1>1, ViewBounds
<1>3. /\ MemInv' /\ Later /\ mem' = mem /\ sc' = sc
      /\ i \in 1 .. Len(mem[l]) /\ view[t][l] <= i /\ view'[t][l] >= i
      /\ mo = "acquire" => Below(mem[l][i].at, view'[t])
  BY <1>1, <1>2, LoadStep
<1>4. /\ mem[l][i].val = L[i] /\ L[i] \in Nodes /\ L[i] \in Words
      /\ i \in 1 .. Len(L)
      /\ mem[l][i].at \in Views /\ mem[l][i].at[L[i]] >= 1
      /\ l = head_ => mem[l][i].at[tail_] >= i
      /\ l = tail_ => \A k \in 1 .. i - 1 : mem[l][i].at[L[k]] >= 2
  BY <1>1, <1>3, SrcRead
<1>5. Met(l, L[i], L)'
  BY <1>3 DEF Met
<1>6. ASSUME mo = "acquire"
      PROVE  /\ view'[t][L[i]] >= 1 /\ view'[t][tail_] >= i
             /\ l = tail_ => \A k \in 1 .. i - 1 : view'[t][L[k]] >= 2
  <2>1. Below(mem[l][i].at, view'[t]) /\ i \in Nat
    BY <1>3, <1>6
  <2>2. view'[t][L[i]] >= 1
    BY <1>3, <1>4, <2>1, Acquired, LocFacts
  <2>3. view'[t][tail_] >= i
    <3>1. CASE l = head_
      BY <1>3, <1>4, <2>1, <3>1, Acquired, LocFacts
    <3>2. CASE l = tail_
      BY <1>3, <3>2
    <3> QED BY <3>1, <3>2
  <2>4. ASSUME l = tail_, NEW k \in 1 .. i - 1 PROVE view'[t][L[k]] >= 2
    <3>1. k \in 1 .. Len(L)
      BY <1>1, <1>4, ListFacts
    <3>2. L[k] \in Locs
      BY <1>1, <3>1, ListFacts
    <3>3. mem[l][i].at[L[k]] >= 2
      BY <1>4, <2>4
    <3> QED BY <1>3, <1>4, <2>1, <3>2, <3>3, Acquired
  <2> QED BY <2>2, <2>3, <2>4
<1> QED BY <1>3, <1>4, <1>5, <1>6

\* protect: the load.
LEMMA ProtectInv ==
  ASSUME NEW L, QueueInv(L), NEW t \in Threads, Protect(t), setup' = setup
  PROVE  QueueInv(L)'
<1>1. /\ MemInv /\ TypeInv /\ ListInv(L) /\ pc[t] = "load"
      /\ UNCHANGED <<suiteVars, hpVars>>
  BY DEF QueueInv, Protect, At
<1> DEFINE mo == IF setup.hp THEN "relaxed" ELSE "acquire"
           to == IF setup.hp THEN "publish" ELSE Protected(t)
<1>2. PICK i \in Readable(t, Src(t)) :
        /\ Load(t, Src(t), i, mo) /\ Set(t, Held(t), mem[Src(t)][i].val)
        /\ Goto(t, to)
  BY DEF Protect, LoadInto
<1>3. /\ MemInv' /\ Later /\ mem' = mem
      /\ mem[Src(t)][i].val = L[i] /\ L[i] \in Nodes /\ L[i] \in Words
      /\ i \in 1 .. Len(mem[Src(t)]) /\ i \in 1 .. Len(L)
      /\ Met(Src(t), L[i], L)'
      /\ mo = "acquire" => view'[t][L[i]] >= 1 /\ view'[t][tail_] >= i
  BY <1>2, Roles, SrcLoaded
<1>4. PICK y \in Locals :
        /\ loc' = [loc EXCEPT ![t] = y] /\ y.n = loc[t].n
        /\ t \in Producers => y.tail = L[i]
        /\ t \in Consumers => y.head = L[i]
  <2>1. Set(t, Held(t), L[i]) /\ Held(t) \in {"n", "head", "tail", "next"}
    BY <1>2, <1>3 DEF Held
  <2>2. PICK y \in Locals :
           /\ loc' = [loc EXCEPT ![t] = y]
           /\ y.n = (IF Held(t) = "n" THEN L[i] ELSE loc[t].n)
           /\ y.head = (IF Held(t) = "head" THEN L[i] ELSE loc[t].head)
           /\ y.tail = (IF Held(t) = "tail" THEN L[i] ELSE loc[t].tail)
    BY <1>1, <1>3, <2>1, SetStep
  <2> QED BY <2>2, Roles
<1>5. /\ pc' = [pc EXCEPT ![t] = to]
      /\ (t \in Producers => to \in {"publish", "next"})
      /\ (t \in Consumers => to \in {"publish", "dtail"})
      /\ (to = "publish" <=> setup.hp)
  BY <1>2, Roles DEF Goto, Protected
<1>6. mo = "acquire" <=> ~setup.hp
  OBVIOUS
<1> HIDE DEF to, mo
<1>7. /\ pc'[t] = to /\ loc'[t] = y
      /\ (t \in Producers => ProducerAt(t, L)') /\
           (t \in Consumers => ConsumerAt(t, L)') /\
           (setup.hp => HazardAt(t, L)') => QueueInv(L)'
      /\ setup.hp => OwnSlots(t)'
      /\ t \in Producers /\ Fresh(t, L) => Fresh(t, L)'
  <2>1. /\ t \in Producers => to \in PLabels
        /\ t \in Consumers => to \in CLabels \ {"slots", "free"}
    BY <1>5 DEF PLabels, CLabels
  <2> QED BY <1>1, <1>3, <1>4, <1>5, <2>1, QuietStep
<1>8. ASSUME t \in Producers PROVE ProducerAt(t, L)'
  <2>1. Fresh(t, L)'
    BY <1>1, <1>7, <1>8 DEF QueueInv, ProducerAt
  <2>2. loc'[t].tail = L[i] /\ Met(tail_, loc[t].tail, L)'
    BY <1>3, <1>4, <1>7, <1>8, Roles DEF Met
  <2>3. pc'[t] = "next" => view'[t][loc'[t].tail] >= 1
    BY <1>3, <1>5, <1>6, <1>7, <2>2
  <2> QED BY <1>5, <1>7, <1>8, <2>1, <2>2, <2>3 DEF ProducerAt
<1>9. ASSUME t \in Consumers PROVE ConsumerAt(t, L)'
  <2>1. loc'[t].head = L[i] /\ Met(head_, loc[t].head, L)'
    BY <1>3, <1>4, <1>7, <1>9, Roles DEF Met
  <2>2. i \in 1 .. Len(mem'[head_]) /\ i + 0 = i
    BY <1>3, <1>9, Roles
  <2>3. pc'[t] = "dtail" => view'[t][loc'[t].head] >= 1 /\ HeadAt(t, loc[t].head, 0, L)'
    BY <1>3, <1>5, <1>6, <1>7, <2>1, <2>2 DEF HeadAt
  <2> QED BY <1>5, <1>7, <1>9, <2>1, <2>3 DEF ConsumerAt
<1>10. setup.hp => HazardAt(t, L)'
  BY <1>5, <1>7, HazardNone
<1> QED BY <1>7, <1>8, <1>9, <1>10

\* A step of t to label to that stores y in its slot s, and what then remains
\* to be shown.
LEMMA SlotStep ==
  ASSUME NEW L, QueueInv(L), NEW t \in Threads, NEW s \in {0, 1},
         Slot(t, s) \in Slots, NEW y \in Words, StoreSlot(t, s, y),
         NEW to, pc' = [pc EXCEPT ![t] = to],
         t \in Producers => to \in PLabels,
         t \in Consumers => to \in CLabels \ {"slots", "free"},
         NEW x \in Locals, loc' = [loc EXCEPT ![t] = x],
         setup' = setup, UNCHANGED <<suiteVars, hpVars>>
  PROVE  /\ TypeInv' /\ pc'[t] = to /\ loc'[t] = x /\ MemInv' /\ Later
         /\ (t \in Producers => ProducerAt(t, L)') /\
              (t \in Consumers => ConsumerAt(t, L)') /\
              (setup.hp => HazardAt(t, L)') => QueueInv(L)'
         /\ setup.hp => OwnSlots(t)'
         /\ Named(t, s, y)'
         /\ \A r \in {0, 1} : Slot(t, r) \in Slots /\ r # s => \A n :
              Guards(t, r, n) => Guards(t, r, n)'
         /\ t \in Producers /\ Fresh(t, L) /\ x.n = loc[t].n => Fresh(t, L)'
         /\ \A l \in Locs \ Slots : mem'[l] = mem[l] /\ view'[t][l] = view[t][l]
<1>1. MemInv /\ TypeInv /\ HazardInv(L) /\ ListInv(L)
  BY DEF QueueInv
<1>2. sent' = sent /\ got' = got /\ UNCHANGED hpVars
  BY DEF suiteVars
<1> DEFINE l == Slot(t, s)
<1>3. l \in Locs /\ y \in Values /\ Store(t, l, y, "release")
  BY LocFacts DEF StoreSlot, Values
<1>4. MemInv' /\ Later /\ Stored(t, l, y, "release", rel[t])
  BY <1>1, <1>3, StoreStep
<1>5. PICK w \in Writes : Wrote(t, l, w) /\ w.val = y
  BY <1>4 DEF Stored
<1>6. \A k \in Locs \ Slots : mem'[k] = mem[k] /\ view'[t][k] = view[t][k]
  BY <1>5 DEF Wrote
<1>7. /\ TypeInv' /\ pc'[t] = to /\ loc'[t] = x
      /\ \A u \in Threads : u # t => pc'[u] = pc[u] /\ loc'[u] = loc[u]
  <2>1. \A i \in 1 .. Len(mem'[consumed]) : mem'[consumed][i].val \in Nat
    BY <1>1, <1>6, LocFacts DEF TypeInv
  <2> QED BY <1>1, <1>2, <2>1, TypeStep
<1>8. ASSUME NEW u \in Threads, NEW r \in {0, 1}, Slot(u, r) \in Slots, u # t \/ r # s
      PROVE  mem'[Slot(u, r)] = mem[Slot(u, r)]
  <2>1. Slot(u, r) # l /\ Slot(u, r) \in Locs
    BY <1>8, SlotFacts
  <2> QED BY <1>5, <2>1 DEF Wrote
<1>9. OthersStay(t)
  BY <1>7, <1>8 DEF OthersStay
<1>10. \A c \in Consumers : Scanning(c)' => Scanning(c)
  <2>1. t \in Consumers => to \notin {"slots", "free"}
    OBVIOUS
  <2> QED BY <1>7, <2>1 DEF Scanning, Threads
<1>11. Scanning(t)' => Scanning(t)
  <2>1. t \in Producers => to \notin {"slots", "free"}
    BY DEF PLabels
  <2> QED BY <1>7, <1>10, <2>1 DEF Scanning, Threads
<1>12. \A k \in Nodes \cup {head_, tail_} : mem'[k] = mem[k]
  BY <1>6, LocFacts
<1>13. (t \in Producers => ProducerAt(t, L)') /\
         (t \in Consumers => ConsumerAt(t, L)') /\
         (setup.hp => HazardAt(t, L)') => QueueInv(L)'
  BY <1>2, <1>4, <1>7, <1>9, <1>11, <1>12, PlainStep
<1>14. Len(mem[l]) \in Nat /\ Len(mem'[l]) = Len(mem[l]) + 1
  BY <1>1, <1>3, <1>5, MemTypes DEF Wrote
<1>15. setup.hp => OwnSlots(t)'
  <2>1. ASSUME setup.hp, NEW r \in {0, 1}, Slot(t, r) \in Slots
        PROVE  view'[t][Slot(t, r)] >= Len(mem'[Slot(t, r)])
    <3>1. CASE r = s
      BY <1>5, <1>14, <3>1 DEF Wrote
    <3>2. CASE r # s
      <4>1. Slot(t, r) # l /\ Slot(t, r) \in Locs
        BY <2>1, <3>2, SlotFacts
      <4>2. mem'[Slot(t, r)] = mem[Slot(t, r)] /\ view'[t][Slot(t, r)] = view[t][Slot(t, r)]
        BY <1>5, <4>1 DEF Wrote
      <4> QED BY <1>1, <2>1, <4>2 DEF HazardInv, HazardAt
    <3> QED BY <3>1, <3>2
  <2> QED BY <2>1 DEF OwnSlots
<1>16. Named(t, s, y)'
  BY <1>5, <1>14 DEF Named, Newest, Wrote
<1>17. ASSUME NEW r \in {0, 1}, Slot(t, r) \in Slots, r # s, NEW n, Guards(t, r, n)
       PROVE  Guards(t, r, n)'
  BY <1>1, <1>2, <1>4, <1>8, <1>10, <1>17, GuardsKept
<1>18. t \in Producers /\ Fresh(t, L) /\ x.n = loc[t].n => Fresh(t, L)'
  <2>1. ASSUME t \in Producers, Fresh(t, L), x.n = loc[t].n PROVE Fresh(t, L)'
    <3>1. loc[t].n \in Nodes
      BY <2>1 DEF Fresh
    <3>2. /\ loc'[t].n = loc[t].n /\ sent'[t] = sent[t] /\ Len(mem'[loc[t].n]) = 1
          /\ \A j \in 1 .. Len(L) : L[j] # loc[t].n
      BY <1>2, <1>7, <1>12, <2>1, <3>1 DEF Fresh
    <3> QED BY <1>1, <1>4, <2>1, <3>2, FreshKept
  <2> QED BY <2>1
<1> QED BY <1>4, <1>6, <1>7, <1>13, <1>15, <1>16, <1>17, <1>18

\* protect: the store of the hazard.
LEMMA PublishProtectInv ==
  ASSUME NEW L, QueueInv(L), NEW t \in Threads, PublishProtect(t), setup' = setup
  PROVE  QueueInv(L)'
<1>1. /\ MemInv /\ TypeInv /\ ListInv(L) /\ pc[t] = "publish" /\ Longer(L, L)
      /\ pc' = [pc EXCEPT ![t] = "fence"] /\ StoreSlot(t, 0, loc[t][Held(t)])
      /\ loc' = [loc EXCEPT ![t] = loc[t]] /\ UNCHANGED <<suiteVars, hpVars>>
  BY LongerSelf DEF QueueInv, PublishProtect, Publish, At, Goto, TypeInv
<1>2. Slot(t, 0) \in Slots /\ loc[t][Held(t)] \in Words /\ loc[t] \in Locals
  BY <1>1, Roles, SlotsHas, LocalTypes
<1>3. PICK h : h = loc[t][Held(t)]
  OBVIOUS
<1>4. /\ pc'[t] = "fence" /\ loc'[t] = loc[t] /\ MemInv' /\ Later
      /\ (t \in Producers => ProducerAt(t, L)') /\
           (t \in Consumers => ConsumerAt(t, L)') /\
           (setup.hp => HazardAt(t, L)') => QueueInv(L)'
      /\ setup.hp => OwnSlots(t)'
      /\ Named(t, 0, h)'
      /\ t \in Producers /\ Fresh(t, L) => Fresh(t, L)'
  <2>1. "fence" \in PLabels /\ "fence" \in CLabels \ {"slots", "free"}
    BY DEF PLabels, CLabels
  <2> QED BY <1>1, <1>2, <1>3, <2>1, SlotStep, ZenonT(40)
<1>5. ASSUME t \in Producers PROVE ProducerAt(t, L)'
  <2>1. Fresh(t, L) /\ Met(tail_, loc[t].tail, L)
    BY <1>1, <1>5 DEF QueueInv, ProducerAt
  <2>2. Met(tail_, loc[t].tail, L)'
    BY <1>1, <1>4, <1>5, <2>1, ProducerGrows
  <2> QED BY <1>4, <1>5, <2>1, <2>2 DEF ProducerAt
<1>6. ASSUME t \in Consumers PROVE ConsumerAt(t, L)'
  <2>1. Met(head_, loc[t].head, L)
    BY <1>1, <1>6 DEF QueueInv, ConsumerAt
  <2>2. Met(head_, loc[t].head, L)'
    BY <1>1, <1>4, <1>6, <2>1, ConsumerGrows
  <2> QED BY <1>4, <2>2 DEF ConsumerAt
<1>7. ASSUME setup.hp PROVE HazardAt(t, L)'
  <2>1. Named(t, 0, loc[t][Held(t)])'
    BY <1>3, <1>4 DEF Named
  <2> QED BY <1>4, <1>7, <2>1 DEF HazardAt, OwnSlots
<1> QED BY <1>4, <1>5, <1>6, <1>7

\* Only consumers get to these labels.
LEMMA ConsumerLabels ==
  ASSUME TypeInv, NEW t \in Threads,
         pc[t] \in {"dtail", "dnext", "set", "setfence", "dverify", "value",
                    "clear1", "count", "slots", "free"}
  PROVE  t \in Consumers
BY DEF TypeInv, Threads, PLabels

\* set: the store of the hazard.
LEMMA PublishSetInv ==
  ASSUME NEW L, QueueInv(L), NEW t \in Threads, PublishSet(t), setup' = setup
  PROVE  QueueInv(L)'
<1>1. /\ MemInv /\ TypeInv /\ ListInv(L) /\ pc[t] = "set" /\ Longer(L, L)
      /\ pc' = [pc EXCEPT ![t] = "setfence"] /\ StoreSlot(t, 1, loc[t].next)
      /\ loc' = [loc EXCEPT ![t] = loc[t]] /\ UNCHANGED <<suiteVars, hpVars>>
  BY LongerSelf DEF QueueInv, PublishSet, Publish, At, Goto, TypeInv
<1>2. t \in Consumers
  BY <1>1, ConsumerLabels
<1>3. /\ Slot(t, 1) \in Slots /\ Slot(t, 0) \in Slots /\ loc[t].next \in Words
      /\ loc[t] \in Locals /\ t \notin Producers
  BY <1>1, <1>2, Roles, SlotsHas, LocalTypes
<1>4. PICK h, n : h = loc[t][Held(t)] /\ n = loc[t].next
  OBVIOUS
<1>5. /\ pc'[t] = "setfence" /\ loc'[t] = loc[t] /\ MemInv' /\ Later
      /\ ConsumerAt(t, L)' /\ (setup.hp => HazardAt(t, L)') => QueueInv(L)'
      /\ setup.hp => OwnSlots(t)'
      /\ Named(t, 1, n)' /\ (Guards(t, 0, h) => Guards(t, 0, h)')
  <2>1. "setfence" \in CLabels \ {"slots", "free"}
    BY DEF CLabels
  <2>2. /\ pc'[t] = "setfence" /\ loc'[t] = loc[t] /\ MemInv' /\ Later
        /\ (t \in Producers => ProducerAt(t, L)') /\
             (t \in Consumers => ConsumerAt(t, L)') /\
             (setup.hp => HazardAt(t, L)') => QueueInv(L)'
        /\ setup.hp => OwnSlots(t)'
        /\ Named(t, 1, n)'
        /\ \A r \in {0, 1} : Slot(t, r) \in Slots /\ r # 1 => \A x :
             Guards(t, r, x) => Guards(t, r, x)'
    BY <1>1, <1>3, <1>4, <2>1, SlotStep, ZenonT(40)
  <2>3. Guards(t, 0, h) => Guards(t, 0, h)'
    BY <1>3, <2>2
  <2> QED BY <1>3, <2>2, <2>3
<1>6. ConsumerAt(t, L)'
  <2>1. ConsumerAt(t, L)
    BY <1>2 DEF QueueInv
  <2>2. loc'[t].head = loc[t].head /\ loc'[t].next = loc[t].next
        /\ loc'[t].tail = loc[t].tail
    BY <1>5
  <2> QED BY <1>1, <1>2, <1>5, <2>1, <2>2, ConsumerGrows DEF ConsumerAt
<1>7. ASSUME setup.hp PROVE HazardAt(t, L)'
  <2>1. Guards(t, 0, h)
    BY <1>1, <1>4, <1>7 DEF QueueInv, HazardInv, HazardAt
  <2>2. Named(t, 1, loc[t].next)' /\ Guards(t, 0, loc[t][Held(t)])'
    BY <1>4, <1>5, <2>1 DEF Named, Guards, Spared
  <2> QED BY <1>5, <1>7, <2>2 DEF HazardAt, OwnSlots
<1> QED BY <1>5, <1>6, <1>7

\* After t's fence a node is out of t's sight, or no scan that came before
\* will free it.
LEMMA FenceSpares ==
  ASSUME NEW L, QueueInv(L), NEW t \in Threads, Fence(t), UNCHANGED hpVars,
         \A c \in Consumers : Scanning(c)' => Scanning(c), NEW s \in {0, 1}, NEW n
  PROVE  Gone(n, view'[t], L) \/ Spared(t, s, n)'
<1>1. MemInv /\ ListInv(L) /\ RetiredInv(L)
  BY DEF QueueInv
<1>2. MemInv' /\ Later /\ view'[t] = sc'
  BY <1>1, FenceStep
<1>3. Below(sc, sc') /\ sc \in Views /\ sc' \in Views
  BY <1>1, <1>2, MemTypes DEF Later, MemInv, Within
<1>4. CASE Gone(n, sc, L)
  BY <1>1, <1>2, <1>3, <1>4, GoneGrows, LongerSelf
<1>5. CASE ~Gone(n, sc, L)
  <2>1. n \notin freed /\ \A c \in Consumers : ~(Scanning(c) /\ n \in bag[c])
    BY <1>1, <1>5 DEF RetiredInv
  <2>2. freed' = freed /\ bag' = bag
    BY DEF hpVars
  <2> QED BY <2>1, <2>2 DEF Spared
<1> QED BY <1>4, <1>5

\* And its own slots are known to all fences that come later.
LEMMA FenceShows ==
  ASSUME NEW L, QueueInv(L), setup.hp, NEW t \in Threads, Fence(t),
         NEW s \in {0, 1}, Slot(t, s) \in Slots
  PROVE  Shown(t, s)'
<1>1. MemInv /\ HazardAt(t, L) /\ Slot(t, s) \in Locs
  BY LocFacts DEF QueueInv, HazardInv
<1>2. MemInv' /\ Later /\ mem' = mem /\ Below(view[t], sc')
  BY <1>1, FenceStep
<1>3. view[t][Slot(t, s)] >= Len(mem[Slot(t, s)])
  BY <1>1 DEF HazardAt
<1>4. /\ view[t][Slot(t, s)] <= sc'[Slot(t, s)] /\ view[t][Slot(t, s)] \in Nat
      /\ sc'[Slot(t, s)] \in Nat /\ Len(mem[Slot(t, s)]) \in Nat
  BY <1>1, <1>2, LaterFacts DEF Below
<1> QED BY <1>2, <1>3, <1>4 DEF Shown

\* The fences of protect and set.
LEMMA FencedInv ==
  ASSUME NEW L, QueueInv(L), NEW t \in Threads, Fenced(t), setup' = setup
  PROVE  QueueInv(L)'
<1>1. /\ MemInv /\ TypeInv /\ ListInv(L) /\ Longer(L, L) /\ Fence(t)
      /\ loc' = [loc EXCEPT ![t] = loc[t]] /\ UNCHANGED <<suiteVars, hpVars>>
      /\ loc[t] \in Locals
  BY LongerSelf, LocalTypes DEF QueueInv, Fenced, publish_fence, TypeInv
<1>2. PICK h, m, to : /\ h = loc[t][Held(t)] /\ m = loc[t].next
                      /\ to = IF pc[t] = "fence" THEN "reload" ELSE "dverify"
  OBVIOUS
<1>3. /\ pc' = [pc EXCEPT ![t] = to]
      /\ \/ pc[t] = "fence" /\ to = "reload"
         \/ pc[t] = "setfence" /\ to = "dverify" /\ t \in Consumers
  BY <1>1, <1>2, ConsumerLabels DEF Fenced, At, Goto
<1>4. MemInv' /\ Later /\ mem' = mem
  BY <1>1, FenceStep
<1>5. /\ t \in Producers => to \in PLabels
      /\ t \in Consumers => to \in CLabels \ {"slots", "free"}
  BY <1>3, Roles DEF PLabels, CLabels
<1>6. /\ pc'[t] = to /\ loc'[t] = loc[t] /\ TypeInv'
      /\ (t \in Producers => ProducerAt(t, L)') /\
           (t \in Consumers => ConsumerAt(t, L)') /\
           (setup.hp => HazardAt(t, L)') => QueueInv(L)'
      /\ setup.hp => OwnSlots(t)'
      /\ \A s \in {0, 1} : Slot(t, s) \in Slots => \A n :
           /\ Guards(t, s, n) => Guards(t, s, n)'
           /\ Named(t, s, n) => Named(t, s, n)'
      /\ t \in Producers /\ Fresh(t, L) => Fresh(t, L)'
  BY <1>1, <1>3, <1>4, <1>5, QuietStep, ZenonT(40)
<1>7. ASSUME t \in Producers PROVE ProducerAt(t, L)'
  <2>1. pc[t] = "fence" /\ to = "reload"
    BY <1>3, <1>7, Roles
  <2>2. Fresh(t, L) /\ Met(tail_, loc[t].tail, L)
    BY <1>7, <2>1 DEF QueueInv, ProducerAt
  <2>3. Met(tail_, loc[t].tail, L)'
    BY <1>1, <1>4, <1>6, <1>7, <2>2, ProducerGrows
  <2> QED BY <1>6, <1>7, <2>1, <2>2, <2>3 DEF ProducerAt
<1>8. ASSUME t \in Consumers PROVE ConsumerAt(t, L)'
  <2>1. ConsumerAt(t, L)
    BY <1>8 DEF QueueInv
  <2>2. loc'[t].head = loc[t].head /\ loc'[t].next = loc[t].next
        /\ loc'[t].tail = loc[t].tail
    BY <1>6
  <2> QED BY <1>1, <1>3, <1>4, <1>6, <1>8, <2>1, <2>2, ConsumerGrows
          DEF ConsumerAt
<1>9. ASSUME setup.hp PROVE HazardAt(t, L)'
  <2>1. HazardAt(t, L)
    BY <1>9 DEF QueueInv, HazardInv
  <2>2. \A c \in Consumers : Scanning(c)' => Scanning(c)
    <3>1. to \notin {"slots", "free"}
      BY <1>3
    <3> QED BY <1>1, <1>3, <1>6, <3>1 DEF Scanning, TypeInv, Threads
  <2>3. \A s \in {0, 1} : Gone(h, view'[t], L) \/ Spared(t, s, h)'
    BY <1>1, <2>2, FenceSpares
  <2>4. \A s \in {0, 1} : Gone(m, view'[t], L) \/ Spared(t, s, m)'
    BY <1>1, <2>2, FenceSpares
  <2>5. \A s \in {0, 1} : Slot(t, s) \in Slots => Shown(t, s)'
    BY <1>1, <1>9, FenceShows
  <2>6. h = loc'[t][Held(t)] /\ m = loc'[t].next
    BY <1>2, <1>6
  <2>7. CASE pc[t] = "fence" /\ to = "reload"
    <3>1. Slot(t, 0) \in Slots /\ Named(t, 0, h)
      BY <1>2, <2>1, <2>7, SlotsHas DEF HazardAt
    <3>2. /\ Named(t, 0, h)' /\ Shown(t, 0)'
          /\ Gone(h, view'[t], L) \/ Spared(t, 0, h)'
      BY <1>6, <2>3, <2>5, <3>1
    <3>3. /\ Named(t, 0, loc[t][Held(t)])' /\ Shown(t, 0)'
          /\ Gone(loc[t][Held(t)], view[t], L)' \/ Spared(t, 0, loc[t][Held(t)])'
      BY <2>6, <3>2 DEF Named, Gone, Spared
    <3> QED BY <1>6, <1>9, <2>7, <3>3 DEF HazardAt, OwnSlots
  <2>8. CASE pc[t] = "setfence" /\ to = "dverify" /\ t \in Consumers
    <3>1. /\ Slot(t, 0) \in Slots /\ Slot(t, 1) \in Slots
          /\ Named(t, 1, m) /\ Guards(t, 0, h)
      BY <1>2, <2>1, <2>8, SlotsHas DEF HazardAt
    <3>2. /\ Named(t, 1, m)' /\ Shown(t, 1)' /\ Guards(t, 0, h)'
          /\ Gone(m, view'[t], L) \/ Spared(t, 1, m)'
      BY <1>6, <2>4, <2>5, <3>1
    <3>3. /\ Named(t, 1, loc[t].next)' /\ Shown(t, 1)'
          /\ Gone(loc[t].next, view[t], L)' \/ Spared(t, 1, loc[t].next)'
      BY <2>6, <3>2 DEF Named, Gone, Spared
    <3>4. Guards(t, 0, loc[t][Held(t)])'
      BY <2>6, <3>2 DEF Guards, Named, Spared
    <3> QED BY <1>6, <1>9, <2>8, <3>3, <3>4 DEF HazardAt, OwnSlots
  <2> QED BY <1>3, <2>7, <2>8
<1> QED BY <1>6, <1>7, <1>8, <1>9

\* A node that t still finds in head_ or tail_ is not gone.
LEMMA FoundNotGone ==
  ASSUME MemInv, NEW L, ListInv(L), NEW t \in Threads, NEW l \in {head_, tail_},
         NEW i \in 1 .. Len(L), view[t][l] <= i
  PROVE  ~Gone(L[i], view[t], L)
<1>1. SUFFICES ASSUME Gone(L[i], view[t], L) PROVE FALSE
  OBVIOUS
<1>2. PICK k \in 1 .. Len(L) : L[i] = L[k] /\ view[t][head_] >= k + 1
                               /\ view[t][tail_] >= k + 1
  BY <1>1 DEF Gone
<1>3. i = k
  BY <1>2, ListFacts
<1>4. view[t][l] \in Nat /\ view[t][l] >= i + 1
  BY <1>2, <1>3, ViewBounds, LocFacts
<1> QED BY <1>4

\* protect: the second load.
LEMMA ReverifyInv ==
  ASSUME NEW L, QueueInv(L), NEW t \in Threads, Reverify(t), setup' = setup
  PROVE  QueueInv(L)'
<1>1. /\ MemInv /\ TypeInv /\ ListInv(L) /\ pc[t] = "reload"
      /\ UNCHANGED <<suiteVars, hpVars>>
  BY DEF QueueInv, Reverify, At
<1>2. PICK i \in Readable(t, Src(t)) :
        /\ Load(t, Src(t), i, "acquire") /\ Set(t, Held(t), mem[Src(t)][i].val)
        /\ pc' = [pc EXCEPT ![t] = IF mem[Src(t)][i].val = loc[t][Held(t)]
                                   THEN Protected(t) ELSE "publish"]
  BY DEF Reverify, Goto
<1>3. /\ MemInv' /\ Later /\ mem' = mem
      /\ mem[Src(t)][i].val = L[i] /\ L[i] \in Nodes /\ L[i] \in Words
      /\ i \in 1 .. Len(mem[Src(t)]) /\ i \in 1 .. Len(L) /\ view[t][Src(t)] <= i
      /\ Met(Src(t), L[i], L)'
      /\ view'[t][L[i]] >= 1 /\ view'[t][tail_] >= i
  BY <1>2, Roles, SrcLoaded
<1>4. PICK y \in Locals :
        /\ loc' = [loc EXCEPT ![t] = y] /\ y.n = loc[t].n
        /\ t \in Producers => y.tail = L[i]
        /\ t \in Consumers => y.head = L[i]
  <2>1. Set(t, Held(t), L[i]) /\ Held(t) \in {"n", "head", "tail", "next"}
    BY <1>2, <1>3 DEF Held
  <2>2. PICK y \in Locals :
           /\ loc' = [loc EXCEPT ![t] = y]
           /\ y.n = (IF Held(t) = "n" THEN L[i] ELSE loc[t].n)
           /\ y.head = (IF Held(t) = "head" THEN L[i] ELSE loc[t].head)
           /\ y.tail = (IF Held(t) = "tail" THEN L[i] ELSE loc[t].tail)
    BY <1>1, <1>3, <2>1, SetStep
  <2> QED BY <2>2, Roles
<1>5. PICK to : /\ pc' = [pc EXCEPT ![t] = to]
                /\ to = IF L[i] = loc[t][Held(t)] THEN Protected(t) ELSE "publish"
  BY <1>2, <1>3
<1>6. /\ t \in Producers => to \in {"publish", "next"}
      /\ t \in Consumers => to \in {"publish", "dtail"}
      /\ to # "publish" => L[i] = loc[t][Held(t)]
  BY <1>5, Roles DEF Protected
<1>7. /\ pc'[t] = to /\ loc'[t] = y
      /\ (t \in Producers => ProducerAt(t, L)') /\
           (t \in Consumers => ConsumerAt(t, L)') /\
           (setup.hp => HazardAt(t, L)') => QueueInv(L)'
      /\ setup.hp => OwnSlots(t)'
      /\ \A s \in {0, 1} : Slot(t, s) \in Slots => \A n :
           Guards(t, s, n) => Guards(t, s, n)'
      /\ t \in Producers /\ Fresh(t, L) => Fresh(t, L)'
  <2>1. /\ t \in Producers => to \in PLabels
        /\ t \in Consumers => to \in CLabels \ {"slots", "free"}
    BY <1>6 DEF PLabels, CLabels
  <2>2. /\ pc'[t] = to /\ loc'[t] = y
        /\ (t \in Producers => ProducerAt(t, L)') /\
             (t \in Consumers => ConsumerAt(t, L)') /\
             (setup.hp => HazardAt(t, L)') => QueueInv(L)'
        /\ setup.hp => OwnSlots(t)'
        /\ \A s \in {0, 1} : Slot(t, s) \in Slots => \A n :
             /\ Guards(t, s, n) => Guards(t, s, n)'
             /\ Named(t, s, n) => Named(t, s, n)'
             /\ Shown(t, s) => Shown(t, s)'
             /\ Spared(t, s, n) => Spared(t, s, n)'
        /\ t \in Producers /\ Fresh(t, L) /\ y.n = loc[t].n => Fresh(t, L)'
    BY <1>1, <1>3, <1>4, <1>5, <2>1, QuietStep, ZenonT(40)
  <2> QED BY <1>4, <2>2
<1>8. ASSUME t \in Producers PROVE ProducerAt(t, L)'
  <2>1. Fresh(t, L)'
    BY <1>1, <1>7, <1>8 DEF QueueInv, ProducerAt
  <2>2. loc'[t].tail = L[i] /\ Met(tail_, loc[t].tail, L)'
    BY <1>3, <1>4, <1>7, <1>8, Roles DEF Met
  <2>3. view'[t][loc'[t].tail] >= 1
    BY <1>3, <2>2
  <2> QED BY <1>6, <1>7, <1>8, <2>1, <2>2, <2>3 DEF ProducerAt
<1>9. ASSUME t \in Consumers PROVE ConsumerAt(t, L)'
  <2>1. loc'[t].head = L[i] /\ Met(head_, loc[t].head, L)'
    BY <1>3, <1>4, <1>7, <1>9, Roles DEF Met
  <2>2. i \in 1 .. Len(mem'[head_]) /\ i + 0 = i
    BY <1>3, <1>9, Roles
  <2>3. view'[t][loc'[t].head] >= 1 /\ HeadAt(t, loc[t].head, 0, L)'
    BY <1>3, <2>1, <2>2 DEF HeadAt
  <2> QED BY <1>6, <1>7, <1>9, <2>1, <2>3 DEF ConsumerAt
<1>10. ASSUME setup.hp PROVE HazardAt(t, L)'
  <2>1. CASE to = "publish"
    BY <1>7, <1>10, <2>1, HazardNone
  <2>2. CASE to # "publish"
    <3>1. L[i] = loc[t][Held(t)] /\ ~Gone(L[i], view[t], L)
      BY <1>1, <1>3, <1>6, <2>2, FoundNotGone, Roles
    <3>2. /\ Named(t, 0, L[i]) /\ Shown(t, 0)
          /\ Gone(L[i], view[t], L) \/ Spared(t, 0, L[i])
      BY <1>1, <1>10, <3>1 DEF QueueInv, HazardInv, HazardAt
    <3>3. Guards(t, 0, L[i]) /\ Slot(t, 0) \in Slots
      BY <3>1, <3>2, SlotsHas DEF Guards
    <3>4. Guards(t, 0, L[i])'
      BY <1>7, <3>3
    <3>5. L[i] = loc'[t][Held(t)]
      BY <1>4, <1>7, Roles
    <3>6. Named(t, 0, loc[t][Held(t)])' /\ Shown(t, 0)'
      BY <3>4, <3>5 DEF Guards, Named
    <3>7. Spared(t, 0, loc[t][Held(t)])'
      BY <3>4, <3>5 DEF Guards, Spared
    <3>8. Guards(t, 0, loc[t][Held(t)])'
      BY <3>6, <3>7 DEF Guards
    <3>9. pc'[t] \in {"next", "dtail"}
      BY <1>6, <1>7, <2>2, Roles
    <3> QED BY <1>7, <1>10, <3>8, <3>9 DEF HazardAt, OwnSlots
  <2> QED BY <2>1, <2>2
<1> QED BY <1>7, <1>8, <1>9, <1>10

\* Where an operation returns to.
LEMMA Returns ==
  ASSUME NEW t \in Threads
  PROVE  /\ t \in Producers => Returned(t) \in {"idle", "done"}
         /\ t \in Consumers => Returned(t) \in {"idle", "count"}
BY Roles DEF Returned

\* ~guard.
LEMMA ClearInv ==
  ASSUME NEW L, QueueInv(L), NEW t \in Threads, Clear(t), setup' = setup
  PROVE  QueueInv(L)'
<1>1. MemInv /\ TypeInv /\ UNCHANGED <<suiteVars, hpVars>>
  BY DEF QueueInv, Clear
<1>2. PICK s \in {0, 1} : StoreSlot(t, s, Null) /\ (s = 1 => pc[t] = "clear1")
  BY DEF Clear, At
<1>3. Slot(t, s) \in Slots /\ Null \in Words
  BY <1>1, <1>2, SlotsHas, ConsumerLabels DEF Words
<1>4. PICK to, x :
        /\ pc' = [pc EXCEPT ![t] = to] /\ loc' = [loc EXCEPT ![t] = x] /\ x \in Locals
        /\ t \in Producers => to \in {"idle", "done"}
        /\ t \in Consumers => to \in {"clear1", "idle", "count"}
  <2>1. CASE At(t, "clear0") /\ t \in Consumers
    <3>1. pc' = [pc EXCEPT ![t] = "clear1"] /\ loc' = [loc EXCEPT ![t] = loc[t]]
      BY <1>1, <2>1 DEF Clear, Goto, TypeInv
    <3> QED BY <1>1, <2>1, <3>1, LocalTypes, Roles
  <2>2. CASE ~(At(t, "clear0") /\ t \in Consumers)
    <3>1. pc' = [pc EXCEPT ![t] = Returned(t)] /\ loc' = [loc EXCEPT ![t] = NoLocals]
      BY <2>2 DEF Clear, Goto
    <3>2. NoLocals \in Locals
      BY DEF NoLocals, Locals, Words
    <3> QED BY <3>1, <3>2, Returns
  <2> QED BY <2>1, <2>2
<1>5. /\ pc'[t] = to
      /\ (t \in Producers => ProducerAt(t, L)') /\
           (t \in Consumers => ConsumerAt(t, L)') /\
           (setup.hp => HazardAt(t, L)') => QueueInv(L)'
      /\ setup.hp => OwnSlots(t)'
  <2>1. /\ t \in Producers => to \in PLabels
        /\ t \in Consumers => to \in CLabels \ {"slots", "free"}
    BY <1>4 DEF PLabels, CLabels
  <2>2. /\ TypeInv' /\ pc'[t] = to /\ loc'[t] = x /\ MemInv' /\ Later
        /\ (t \in Producers => ProducerAt(t, L)') /\
             (t \in Consumers => ConsumerAt(t, L)') /\
             (setup.hp => HazardAt(t, L)') => QueueInv(L)'
        /\ setup.hp => OwnSlots(t)'
    <3>1. /\ pc' = [pc EXCEPT ![t] = to] /\ loc' = [loc EXCEPT ![t] = x]
          /\ x \in Locals
      BY <1>4
    <3>2. StoreSlot(t, s, Null)
      BY <1>2
    <3>3. CASE s = 0
      BY <1>1, <1>3, <2>1, <3>1, <3>2, <3>3, SlotStep, ZenonT(40)
    <3>4. CASE s = 1
      BY <1>1, <1>3, <2>1, <3>1, <3>2, <3>4, SlotStep
    <3> QED BY <3>3, <3>4
  <2> QED BY <2>2
<1>6. t \in Producers => ProducerAt(t, L)'
  BY <1>4, <1>5 DEF ProducerAt
<1>7. t \in Consumers => ConsumerAt(t, L)'
  BY <1>4, <1>5 DEF ConsumerAt
<1>8. setup.hp => HazardAt(t, L)'
  BY <1>4, <1>5, HazardNone, Roles
<1> QED BY <1>5, <1>6, <1>7, <1>8

-----------------------------------------------------------------------------
(* enqueue                                                                 *)

\* HazardAt where slot 0 guards what protect returned, and slot 1 nothing.
LEMMA HazardHeld ==
  ASSUME NEW L, NEW t, OwnSlots(t)', NEW h, h = loc'[t][Held(t)],
         Guards(t, 0, h)', pc'[t] \in {"next", "verify", "link", "dtail", "dnext",
                                       "set"}
  PROVE  HazardAt(t, L)'
<1>1. Named(t, 0, loc[t][Held(t)])' /\ Shown(t, 0)'
  BY DEF Guards, Named
<1>2. Spared(t, 0, loc[t][Held(t)])'
  BY DEF Guards, Spared
<1>3. Guards(t, 0, loc[t][Held(t)])'
  BY <1>1, <1>2 DEF Guards
<1> QED BY <1>3 DEF HazardAt, OwnSlots

\* What t has loaded from the next of a node it has in view is null or the
\* node that follows.
LEMMA NextLoaded ==
  ASSUME NEW L, QueueInv(L), NEW t \in Threads, NEW j \in 1 .. Len(L),
         view[t][L[j]] >= 1, NEW i, Load(t, L[j], i, "acquire"),
         NEW m, m = mem[L[j]][i].val
  PROVE  /\ MemInv' /\ Later /\ mem' = mem /\ m \in Words /\ view[t][L[j]] <= i
         /\ \/ i = 1 /\ m = Null
            \/ m # Null /\ Follows(t, L[j], m, L)'
<1>1. MemInv /\ ListInv(L) /\ CarryInv(L)
  BY DEF QueueInv
<1>2. L[j] \in Nodes /\ L[j] \in Locs /\ Len(L) \in Nat
  BY <1>1, ListFacts
<1>3. /\ MemInv' /\ Later /\ mem' = mem
      /\ i \in 1 .. Len(mem[L[j]]) /\ view[t][L[j]] <= i /\ view'[t][L[j]] >= i
      /\ Below(mem[L[j]][i].at, view'[t])
  BY <1>1, <1>2, LoadStep
<1>4. \/ i = 1 /\ m = Null
      \/ i = 2 /\ j \in 1 .. Len(L) - 1 /\ m = L[j + 1] /\ m # Null
  BY <1>1, <1>3, NodeRead
<1>5. CASE i = 1 /\ m = Null
  BY <1>3, <1>5 DEF Words
<1>6. CASE i = 2 /\ j \in 1 .. Len(L) - 1 /\ m = L[j + 1] /\ m # Null
  <2>1. j + 1 \in 1 .. Len(L)
    BY <1>2, <1>6
  <2>2. m \in Nodes /\ m \in Locs /\ m \in Words
    BY <1>1, <1>6, <2>1, ListFacts DEF Words
  <2>3. mem[L[j]][2].at[m] >= 1
    BY <1>1, <1>6 DEF CarryInv
  <2>4. mem[L[j]][2].at \in Views
    BY <1>1, <1>2, <1>3, <1>6, MemTypes
  <2>5. view'[t][m] >= 1
    BY <1>3, <1>6, <2>2, <2>3, <2>4, Acquired
  <2>6. Follows(t, L[j], m, L)'
    BY <1>3, <1>6, <2>5 DEF Follows
  <2> QED BY <1>3, <1>6, <2>2, <2>6
<1> QED BY <1>4, <1>5, <1>6

\* next = tail->next.load().
LEMMA ENextInv ==
  ASSUME NEW L, QueueInv(L), NEW p \in Producers, ENext(p), setup' = setup
  PROVE  QueueInv(L)'
<1>1. /\ MemInv /\ TypeInv /\ ListInv(L) /\ pc[p] = "next" /\ Longer(L, L)
      /\ p \in Threads /\ UNCHANGED <<suiteVars, hpVars>>
      /\ ProducerAt(p, L) /\ p \notin Consumers /\ Held(p) = "tail"
  <2>1. p \in Threads
    BY DEF Threads
  <2> QED BY <2>1, LongerSelf, Roles DEF QueueInv, ENext, At
<1>2. PICK j \in 1 .. Len(mem[tail_]) : loc[p].tail = L[j]
  BY <1>1 DEF ProducerAt, Met
<1>3. j \in 1 .. Len(L) /\ view[p][L[j]] >= 1
  BY <1>1, <1>2, ListFacts DEF ProducerAt
<1>4. PICK i, m : /\ Load(p, L[j], i, "acquire") /\ m = mem[L[j]][i].val
                  /\ Set(p, "next", m) /\ pc' = [pc EXCEPT ![p] = "verify"]
  BY <1>2 DEF ENext, LoadInto, Goto
<1>5. /\ MemInv' /\ Later /\ mem' = mem /\ m \in Words
      /\ m = Null \/ Follows(p, L[j], m, L)'
  BY <1>1, <1>3, <1>4, NextLoaded
<1>6. PICK y \in Locals : /\ loc' = [loc EXCEPT ![p] = y] /\ y.n = loc[p].n
                          /\ y.tail = L[j] /\ y.next = m
  <2>1. PICK y \in Locals :
           /\ loc' = [loc EXCEPT ![p] = y]
           /\ y.n = (IF "next" = "n" THEN m ELSE loc[p].n)
           /\ y.tail = (IF "next" = "tail" THEN m ELSE loc[p].tail)
           /\ y.next = (IF "next" = "next" THEN m ELSE loc[p].next)
    BY <1>1, <1>4, <1>5, SetStep
  <2> QED BY <1>2, <2>1
<1>7. /\ pc'[p] = "verify" /\ loc'[p] = y
      /\ ProducerAt(p, L)' /\ (setup.hp => HazardAt(p, L)') => QueueInv(L)'
      /\ setup.hp => OwnSlots(p)'
      /\ \A s \in {0, 1} : Slot(p, s) \in Slots => \A n :
           Guards(p, s, n) => Guards(p, s, n)'
      /\ Fresh(p, L) => Fresh(p, L)'
  <2>1. "verify" \in PLabels
    BY DEF PLabels
  <2>2. /\ pc'[p] = "verify" /\ loc'[p] = y
        /\ (p \in Producers => ProducerAt(p, L)') /\
             (p \in Consumers => ConsumerAt(p, L)') /\
             (setup.hp => HazardAt(p, L)') => QueueInv(L)'
        /\ setup.hp => OwnSlots(p)'
        /\ \A s \in {0, 1} : Slot(p, s) \in Slots => \A n :
             /\ Guards(p, s, n) => Guards(p, s, n)'
             /\ Named(p, s, n) => Named(p, s, n)'
             /\ Shown(p, s) => Shown(p, s)'
             /\ Spared(p, s, n) => Spared(p, s, n)'
        /\ p \in Producers /\ Fresh(p, L) /\ y.n = loc[p].n => Fresh(p, L)'
    BY <1>1, <1>4, <1>5, <1>6, <2>1, QuietStep
  <2> QED BY <1>1, <1>6, <2>2
<1>8. ProducerAt(p, L)'
  <2>1. Fresh(p, L)'
    BY <1>1, <1>7 DEF ProducerAt
  <2>2. loc'[p].tail = L[j] /\ loc'[p].next = m /\ loc'[p].tail = loc[p].tail
    BY <1>2, <1>6, <1>7
  <2>3. Met(tail_, loc[p].tail, L)' /\ view'[p][loc'[p].tail] >= 1
    BY <1>1, <1>5, <2>2, ProducerGrows DEF ProducerAt
  <2>4. loc'[p].next = Null \/ Follows(p, loc[p].tail, loc[p].next, L)'
    BY <1>5, <2>2 DEF Follows
  <2> QED BY <1>7, <2>1, <2>3, <2>4 DEF ProducerAt
<1>9. ASSUME setup.hp PROVE HazardAt(p, L)'
  <2>1. Guards(p, 0, L[j]) /\ Slot(p, 0) \in Slots
    BY <1>1, <1>2, <1>9, SlotsHas DEF QueueInv, HazardInv, HazardAt
  <2>2. L[j] = loc'[p][Held(p)] /\ Guards(p, 0, L[j])'
    BY <1>1, <1>6, <1>7, <2>1
  <2> QED BY <1>7, <1>9, <2>2, HazardHeld
<1> QED BY <1>7, <1>8, <1>9

\* A step of t that leaves memory, its locals and the domain alone.
LEMMA QuietLocals ==
  ASSUME NEW L, QueueInv(L), NEW t \in Threads, MemInv', Later, mem' = mem,
         NEW to, pc' = [pc EXCEPT ![t] = to],
         t \in Producers => to \in PLabels,
         t \in Consumers => to \in CLabels \ {"slots", "free"},
         UNCHANGED <<loc, suiteVars, hpVars>>, setup' = setup
  PROVE  /\ pc'[t] = to /\ loc' = loc
         /\ (t \in Producers => ProducerAt(t, L)') /\
              (t \in Consumers => ConsumerAt(t, L)') /\
              (setup.hp => HazardAt(t, L)') => QueueInv(L)'
         /\ setup.hp => OwnSlots(t)'
         /\ \A s \in {0, 1} : Slot(t, s) \in Slots => \A n :
              /\ Guards(t, s, n) => Guards(t, s, n)'
              /\ Named(t, s, n) => Named(t, s, n)'
              /\ Shown(t, s) => Shown(t, s)'
              /\ Spared(t, s, n) => Spared(t, s, n)'
         /\ t \in Producers /\ Fresh(t, L) => Fresh(t, L)'
<1>1. /\ loc[t] \in Locals /\ loc' = [loc EXCEPT ![t] = loc[t]] /\ loc' = loc
      /\ UNCHANGED <<suiteVars, hpVars>>
  BY LocalTypes DEF QueueInv, TypeInv
<1>2. PICK x : x = loc[t] /\ x \in Locals /\ loc' = [loc EXCEPT ![t] = x]
  BY <1>1
<1>3. /\ pc'[t] = to
      /\ (t \in Producers => ProducerAt(t, L)') /\
           (t \in Consumers => ConsumerAt(t, L)') /\
           (setup.hp => HazardAt(t, L)') => QueueInv(L)'
      /\ setup.hp => OwnSlots(t)'
      /\ \A s \in {0, 1} : Slot(t, s) \in Slots => \A n :
           /\ Guards(t, s, n) => Guards(t, s, n)'
           /\ Named(t, s, n) => Named(t, s, n)'
           /\ Shown(t, s) => Shown(t, s)'
           /\ Spared(t, s, n) => Spared(t, s, n)'
      /\ t \in Producers /\ Fresh(t, L) /\ x.n = loc[t].n => Fresh(t, L)'
  <2>1. loc' = [loc EXCEPT ![t] = x] /\ UNCHANGED <<suiteVars, hpVars>> /\ x \in Locals
    BY <1>1, <1>2
  <2> QED BY <2>1, QuietStep
<1> QED BY <1>1, <1>2, <1>3

\* if (tail != tail_.load()) continue.
LEMMA EVerifyInv ==
  ASSUME NEW L, QueueInv(L), NEW p \in Producers, EVerify(p), setup' = setup
  PROVE  QueueInv(L)'
<1>1. /\ MemInv /\ TypeInv /\ ListInv(L) /\ pc[p] = "verify" /\ Longer(L, L)
      /\ p \in Threads /\ UNCHANGED <<loc, suiteVars, hpVars>>
      /\ ProducerAt(p, L) /\ p \notin Consumers /\ Held(p) = "tail"
  <2>1. p \in Threads
    BY DEF Threads
  <2> QED BY <2>1, LongerSelf, Roles DEF QueueInv, EVerify, At
<1>2. PICK i, to : /\ Load(p, tail_, i, "acquire") /\ pc' = [pc EXCEPT ![p] = to]
                   /\ to \in {"load", "help", "link"}
                   /\ to = "help" => loc[p].next # Null
  <2>1. PICK i : /\ Load(p, tail_, i, "acquire")
                 /\ pc' = [pc EXCEPT ![p] =
                             IF mem[tail_][i].val # loc[p].tail THEN "load"
                             ELSE IF loc[p].next # Null THEN "help" ELSE "link"]
    BY DEF EVerify, Goto
  <2>2. PICK to : to = IF mem[tail_][i].val # loc[p].tail THEN "load"
                       ELSE IF loc[p].next # Null THEN "help" ELSE "link"
    OBVIOUS
  <2>3. /\ pc' = [pc EXCEPT ![p] = to] /\ to \in {"load", "help", "link"}
        /\ to = "help" => loc[p].next # Null
    BY <2>1, <2>2
  <2> QED BY <2>1, <2>3
<1>3. MemInv' /\ Later /\ mem' = mem
  BY <1>1, <1>2, SrcLoaded
<1>4. /\ pc'[p] = to /\ loc' = loc
      /\ ProducerAt(p, L)' /\ (setup.hp => HazardAt(p, L)') => QueueInv(L)'
      /\ setup.hp => OwnSlots(p)'
      /\ \A s \in {0, 1} : Slot(p, s) \in Slots => \A n :
           Guards(p, s, n) => Guards(p, s, n)'
      /\ Fresh(p, L) => Fresh(p, L)'
  <2>1. to \in PLabels
    BY <1>2 DEF PLabels
  <2>2. /\ pc'[p] = to /\ loc' = loc
        /\ (p \in Producers => ProducerAt(p, L)') /\
             (p \in Consumers => ConsumerAt(p, L)') /\
             (setup.hp => HazardAt(p, L)') => QueueInv(L)'
        /\ setup.hp => OwnSlots(p)'
        /\ \A s \in {0, 1} : Slot(p, s) \in Slots => \A n :
             /\ Guards(p, s, n) => Guards(p, s, n)'
             /\ Named(p, s, n) => Named(p, s, n)'
             /\ Shown(p, s) => Shown(p, s)'
             /\ Spared(p, s, n) => Spared(p, s, n)'
        /\ p \in Producers /\ Fresh(p, L) => Fresh(p, L)'
    BY <1>1, <1>2, <1>3, <2>1, QuietLocals
  <2> QED BY <1>1, <2>2
<1>5. ProducerAt(p, L)'
  <2>1. Fresh(p, L)'
    BY <1>1, <1>4 DEF ProducerAt
  <2>2. loc'[p].tail = loc[p].tail /\ loc'[p].next = loc[p].next
    BY <1>4
  <2>3. Met(tail_, loc[p].tail, L)' /\ view'[p][loc'[p].tail] >= 1
    BY <1>1, <1>3, <2>2, ProducerGrows DEF ProducerAt
  <2>4. to = "help" => Follows(p, loc[p].tail, loc[p].next, L)
    BY <1>1, <1>2 DEF ProducerAt
  <2>5. to = "help" => Follows(p, loc[p].tail, loc[p].next, L)'
    BY <1>1, <1>3, <2>2, <2>4, ProducerGrows
  <2> QED BY <1>2, <1>4, <2>1, <2>3, <2>5 DEF ProducerAt
<1>6. ASSUME setup.hp PROVE HazardAt(p, L)'
  <2>1. CASE to = "link"
    <3>1. PICK h : h = loc[p][Held(p)]
      OBVIOUS
    <3>2. Guards(p, 0, h) /\ Slot(p, 0) \in Slots
      BY <1>1, <1>6, <3>1, SlotsHas DEF QueueInv, HazardInv, HazardAt
    <3>3. h = loc'[p][Held(p)] /\ Guards(p, 0, h)'
      BY <1>4, <3>1, <3>2
    <3> QED BY <1>4, <1>6, <2>1, <3>3, HazardHeld
  <2>2. CASE to # "link"
    BY <1>2, <1>4, <1>6, <2>2, HazardNone
  <2> QED BY <2>1, <2>2
<1> QED BY <1>4, <1>5, <1>6

\* t goes to label to with locals x, and leaves the suite and the domain alone.
Moves(t, to, x) ==
  /\ pc' = [pc EXCEPT ![t] = to]
  /\ t \in Producers => to \in PLabels
  /\ t \in Consumers => to \in CLabels \ {"slots", "free"}
  /\ x \in Locals /\ loc' = [loc EXCEPT ![t] = x]
  /\ setup' = setup /\ UNCHANGED <<suiteVars, hpVars>>

\* What the invariant says of t alone.
ThreadAt(t, L) == /\ t \in Producers => ProducerAt(t, L)
                  /\ t \in Consumers => ConsumerAt(t, L)
                  /\ setup.hp => HazardAt(t, L)

\* The nodes of producers other than t are still fresh.
OthersFresh(t, L, M) ==
  \A p \in Producers : p # t /\ Fresh(p, L) =>
    /\ Len(mem'[loc[p].n]) = 1 /\ \A j \in 1 .. Len(M) : M[j] # loc[p].n

\* A step of t to label to that leaves memory and the domain alone.
LEMMA QuietMove ==
  ASSUME NEW L, QueueInv(L), NEW t \in Threads, MemInv', Later, mem' = mem,
         NEW to, NEW x, Moves(t, to, x)
  PROVE  /\ pc'[t] = to /\ loc'[t] = x /\ (ThreadAt(t, L)' => QueueInv(L)')
         /\ setup.hp => OwnSlots(t)'
         /\ t \in Producers /\ Fresh(t, L) /\ x.n = loc[t].n => Fresh(t, L)'
<1>1. /\ pc' = [pc EXCEPT ![t] = to] /\ (t \in Producers => to \in PLabels)
      /\ t \in Consumers => to \in CLabels \ {"slots", "free"}
      /\ x \in Locals /\ loc' = [loc EXCEPT ![t] = x]
      /\ setup' = setup /\ UNCHANGED <<suiteVars, hpVars>>
  BY DEF Moves
<1>2. /\ pc'[t] = to /\ loc'[t] = x
      /\ (t \in Producers => ProducerAt(t, L)') /\
           (t \in Consumers => ConsumerAt(t, L)') /\
           (setup.hp => HazardAt(t, L)') => QueueInv(L)'
      /\ setup.hp => OwnSlots(t)'
      /\ t \in Producers /\ Fresh(t, L) /\ x.n = loc[t].n => Fresh(t, L)'
  BY <1>1, QuietStep
<1> QED BY <1>1, <1>2 DEF ThreadAt

\* A step of t to label to that writes to the list and leaves the domain
\* alone, and what then remains to be shown.
LEMMA ListStep ==
  ASSUME NEW L, NEW M, QueueInv(L), Longer(L, M), NEW t \in Threads,
         MemInv', Later, ListInv(M)', CarryInv(M)',
         \A l \in Slots \cup {consumed} : mem'[l] = mem[l],
         NEW to, NEW x, Moves(t, to, x), OthersFresh(t, L, M)
  PROVE  /\ pc'[t] = to /\ loc'[t] = x /\ (ThreadAt(t, M)' => QueueInv(M)')
         /\ setup.hp => OwnSlots(t)'
<1>0. /\ pc' = [pc EXCEPT ![t] = to] /\ (t \in Producers => to \in PLabels)
      /\ t \in Consumers => to \in CLabels \ {"slots", "free"}
      /\ x \in Locals /\ loc' = [loc EXCEPT ![t] = x]
      /\ setup' = setup /\ UNCHANGED <<suiteVars, hpVars>>
  BY DEF Moves
<1>1. /\ MemInv /\ TypeInv /\ HazardInv(L) /\ ListInv(L) /\ GotInv(L)
      /\ RetiredInv(L)
  BY DEF QueueInv
<1>2. sent' = sent /\ got' = got /\ UNCHANGED hpVars
  BY <1>0 DEF suiteVars
<1>3. /\ TypeInv' /\ pc'[t] = to /\ loc'[t] = x
      /\ \A u \in Threads : u # t => pc'[u] = pc[u] /\ loc'[u] = loc[u]
  <2>1. \A i \in 1 .. Len(mem'[consumed]) : mem'[consumed][i].val \in Nat
    BY <1>1 DEF TypeInv
  <2> QED BY <1>0, <1>1, <1>2, <2>1, TypeStep
<1>4. OthersStay(t)
  BY <1>3 DEF OthersStay
<1>5. \A c \in Consumers : Scanning(c)' => Scanning(c)
  <2>1. t \in Consumers => to \notin {"slots", "free"}
    BY <1>0
  <2> QED BY <1>3, <2>1 DEF Scanning, Threads
<1>6. RetiredInv(M)'
  BY <1>0, <1>1, <1>2, <1>5, RetiredFrame DEF hpVars
<1>7. GotInv(M)'
  BY <1>1, <1>2, GotFrame
<1>8. ASSUME NEW u \in Threads PROVE Keeps(u)
  <2>1. \A s \in {0, 1} : Slot(u, s) \in Slots =>
          mem'[Slot(u, s)] = mem[Slot(u, s)]
    OBVIOUS
  <2> QED BY <1>1, <1>2, <1>5, <2>1, KeepsFrame
<1>9. ASSUME NEW p \in Producers, p # t
      PROVE  /\ sent'[p] = sent[p]
             /\ Fresh(p, L) => /\ Len(mem'[loc[p].n]) = 1
                               /\ \A j \in 1 .. Len(M) : M[j] # loc[p].n
  BY <1>2, <1>9 DEF OthersFresh
<1>10. (t \in Producers => ProducerAt(t, M)') /\
         (t \in Consumers => ConsumerAt(t, M)') /\
         (setup.hp => HazardAt(t, M)') => QueueInv(M)'
  BY <1>0, <1>3, <1>4, <1>6, <1>7, <1>8, <1>9, Assemble
<1>11. setup.hp => OwnSlots(t)'
  <2>1. setup.hp => OwnSlots(t)
    BY <1>1 DEF HazardInv, HazardAt, OwnSlots
  <2> QED BY <1>1, <2>1, OwnSlotsKept
<1> QED BY <1>0, <1>3, <1>10, <1>11 DEF ThreadAt

\* A CAS that succeeds moves tail_ to the node that follows.
LEMMA TailStep ==
  ASSUME NEW L, QueueInv(L), NEW t \in Threads, NEW n, NEW m,
         Follows(t, n, m, L), CAS(t, tail_, n, m, "release"), sent' = sent
  PROVE  /\ MemInv' /\ Later /\ ListInv(L)' /\ CarryInv(L)'
         /\ \A l \in Locs : l # tail_ => mem'[l] = mem[l]
<1>1. MemInv /\ ListInv(L) /\ CarryInv(L)
  BY DEF QueueInv
<1>2. PICK j \in 1 .. Len(L) - 1 : /\ n = L[j] /\ m = L[j + 1]
                                   /\ view[t][n] >= 2 /\ view[t][m] >= 1
  BY DEF Follows
<1>3. PICK k : k = Len(mem[tail_])
  OBVIOUS
<1>4. /\ k \in Nat /\ k \in 1 .. Len(L) /\ k >= Len(L) - 1 /\ Len(L) \in Nat
      /\ Newest(tail_).val = L[k] /\ Len(mem[head_]) \in 1 .. k
      /\ \A i \in 1 .. Len(L) : L[i] \in Nodes /\ L[i] \in Locs /\ L[i] # tail_
  BY <1>1, <1>3, ListFacts, LocFacts
<1>5. j = k /\ k = Len(L) - 1
  <2>1. L[j] = L[k] /\ j \in 1 .. Len(L)
    BY <1>2, <1>4 DEF CAS
  <2>2. j = k
    BY <1>1, <1>4, <2>1, ListFacts
  <2> QED BY <1>2, <1>4, <2>2
<1>6. /\ n \in Locs /\ m \in Locs /\ m \in Values /\ k + 1 \in 1 .. Len(L)
      /\ n = L[k] /\ m = L[k + 1]
  <2>1. k + 1 \in 1 .. Len(L)
    BY <1>4, <1>5
  <2> QED BY <1>2, <1>4, <1>5, <2>1 DEF Values, Words
<1>7. MemInv' /\ Later /\ Stored(t, tail_, m, "release", Newest(tail_).at)
  <2>1. Update(t, tail_, m, "release") /\ Len(mem[tail_]) >= 1
    BY <1>3, <1>4 DEF CAS
  <2> QED BY <1>1, <1>6, <2>1, UpdateStep, LocFacts
<1>8. PICK w \in Writes : /\ Wrote(t, tail_, w) /\ w.val = m
                          /\ Below(Newest(tail_).at, w.at) /\ Below(view[t], w.at)
  BY <1>7 DEF Stored
<1>9. /\ Len(mem'[tail_]) = k + 1 /\ mem'[tail_][k + 1] = w
      /\ \A i \in 1 .. k : mem'[tail_][i] = mem[tail_][i]
      /\ \A l \in Locs : l # tail_ => mem'[l] = mem[l]
  BY <1>3, <1>8 DEF Wrote
<1>10. /\ \A i \in 1 .. Len(L) : mem'[L[i]] = mem[L[i]]
       /\ mem'[head_] = mem[head_] /\ \A i \in Nodes : mem'[i] = mem[i]
  BY <1>4, <1>9, LocFacts
<1>11. \A i \in 1 .. k + 1 : i = k + 1 \/ i \in 1 .. k
  BY <1>4
<1>12. ListInv(L)'
  <2>1. \A i : Made(i)' <=> Made(i)
    BY DEF Made
  <2>2. Len(mem'[tail_]) \in {Len(L) - 1, Len(L)}
    BY <1>4, <1>5, <1>9
  <2>3. Len(mem'[head_]) \in 1 .. Len(mem'[tail_])
    BY <1>4, <1>9, <1>10
  <2>4. \A i \in 1 .. Len(mem'[tail_]) : mem'[tail_][i].val = L[i]
    BY <1>1, <1>3, <1>6, <1>8, <1>9, <1>11 DEF ListInv
  <2>5. \A i \in 1 .. Len(L) - 1 : /\ Len(mem'[L[i]]) = 2
                                   /\ mem'[L[i]][2].val = L[i + 1]
    <3>1. \A i \in 1 .. Len(L) - 1 : i \in 1 .. Len(L)
      BY <1>4
    <3> QED BY <1>1, <1>10, <3>1 DEF ListInv
  <2>6. Len(mem'[L[Len(L)]]) = 1
    BY <1>1, <1>4, <1>10 DEF ListInv
  <2> QED BY <1>1, <1>10, <2>1, <2>2, <2>3, <2>4, <2>5, <2>6 DEF ListInv
<1>13. CarryInv(L)'
  <2>1. w.at \in Views /\ view[t] \in Views /\ mem[tail_][k].at \in Views
        /\ Newest(tail_).at = mem[tail_][k].at
    <3>1. k \in 1 .. Len(mem[tail_])
      BY <1>3, <1>4
    <3> QED BY <1>1, <1>3, <3>1, MemTypes, LocFacts DEF Writes, Newest
  <2>2. w.at[L[k + 1]] >= 1 /\ w.at[L[k]] >= 2
    <3>1. /\ view[t][n] <= w.at[n] /\ view[t][m] <= w.at[m] /\ view[t][n] \in Nat
          /\ view[t][m] \in Nat /\ w.at[n] \in Nat /\ w.at[m] \in Nat
      BY <1>6, <1>8, <2>1 DEF Below, Views
    <3> QED BY <1>2, <1>6, <3>1
  <2>3. ASSUME NEW i \in 1 .. k - 1 PROVE w.at[L[i]] >= 2
    <3>1. L[i] \in Locs
      BY <1>4
    <3>2. k \in 1 .. Len(mem[tail_])
      BY <1>3, <1>4
    <3>3. mem[tail_][k].at[L[i]] >= 2
      BY <1>1, <3>2 DEF CarryInv
    <3>4. /\ mem[tail_][k].at[L[i]] <= w.at[L[i]] /\ mem[tail_][k].at[L[i]] \in Nat
          /\ w.at[L[i]] \in Nat
      BY <1>8, <2>1, <3>1 DEF Below, Views
    <3> QED BY <3>3, <3>4
  <2>4. \A i \in 1 .. (k + 1) - 1 : w.at[L[i]] >= 2
    <3>1. \A i \in 1 .. (k + 1) - 1 : i = k \/ i \in 1 .. k - 1
      BY <1>4
    <3> QED BY <2>2, <2>3, <3>1
  <2>5. \A j1 \in 1 .. Len(mem'[tail_]) :
          /\ mem'[tail_][j1].at[L[j1]] >= 1
          /\ \A i \in 1 .. j1 - 1 : mem'[tail_][j1].at[L[i]] >= 2
    <3>1. ASSUME NEW j1 \in 1 .. k
          PROVE  /\ mem'[tail_][j1].at[L[j1]] >= 1
                 /\ \A i \in 1 .. j1 - 1 : mem'[tail_][j1].at[L[i]] >= 2
      BY <1>1, <1>3, <1>9 DEF CarryInv
    <3> QED BY <1>9, <1>11, <2>2, <2>4, <3>1
  <2>6. \A i \in 1 .. Len(L) - 1 : mem'[L[i]] = mem[L[i]]
    BY <1>4, <1>10
  <2> QED BY <1>1, <1>10, <2>5, <2>6 DEF CarryInv
<1> QED BY <1>7, <1>9, <1>12, <1>13

\* A step that only moves tail_ leaves fresh nodes alone.
LEMMA FreshOthers ==
  ASSUME MemInv, NEW L, NEW p \in Producers, Fresh(p, L),
         \A l \in Locs : l # tail_ => mem'[l] = mem[l]
  PROVE  /\ Len(mem'[loc[p].n]) = 1 /\ \A j \in 1 .. Len(L) : L[j] # loc[p].n
BY LocFacts DEF Fresh

\* A step of t to label to that moves tail_, and what then remains to be shown.
LEMMA TailMoved ==
  ASSUME NEW L, QueueInv(L), NEW t \in Threads, MemInv', Later,
         ListInv(L)', CarryInv(L)',
         \A l \in Locs : l # tail_ => mem'[l] = mem[l],
         NEW to, NEW x, Moves(t, to, x)
  PROVE  /\ pc'[t] = to /\ loc'[t] = x /\ (ThreadAt(t, L)' => QueueInv(L)')
         /\ setup.hp => OwnSlots(t)'
         /\ t \in Producers /\ Fresh(t, L) /\ x.n = loc[t].n => Fresh(t, L)'
<1>1. MemInv /\ ListInv(L) /\ Longer(L, L)
  BY LongerSelf DEF QueueInv
<1>2. \A l \in Slots \cup {consumed} : mem'[l] = mem[l]
  BY LocFacts
<1>3. \A p \in Producers : Fresh(p, L) =>
        /\ Len(mem'[loc[p].n]) = 1 /\ \A j \in 1 .. Len(L) : L[j] # loc[p].n
  BY <1>1, FreshOthers
<1>4. OthersFresh(t, L, L)
  BY <1>3 DEF OthersFresh
<1>5. /\ pc'[t] = to /\ loc'[t] = x /\ (ThreadAt(t, L)' => QueueInv(L)')
      /\ setup.hp => OwnSlots(t)'
  BY <1>1, <1>2, <1>4, ListStep
<1>6. ASSUME t \in Producers, Fresh(t, L), x.n = loc[t].n PROVE Fresh(t, L)'
  <2>1. loc'[t].n = loc[t].n /\ sent'[t] = sent[t]
    BY <1>5, <1>6 DEF Moves, suiteVars
  <2> QED BY <1>1, <1>3, <1>6, <2>1, FreshKept
<1> QED BY <1>5, <1>6

\* The helping CAS.
LEMMA HelpInv ==
  ASSUME NEW L, QueueInv(L), NEW t \in Threads, Help(t), setup' = setup
  PROVE  QueueInv(L)'
<1>1. /\ MemInv /\ TypeInv /\ pc[t] = "help" /\ sent' = sent
      /\ pc' = [pc EXCEPT ![t] = "load"] /\ UNCHANGED <<loc, suiteVars, hpVars>>
  BY DEF QueueInv, Help, At, Goto, suiteVars
<1>2. PICK x : x = loc[t] /\ x \in Locals /\ loc' = [loc EXCEPT ![t] = x]
  BY <1>1, LocalTypes DEF TypeInv
<1>3. Moves(t, "load", x)
  BY <1>1, <1>2 DEF Moves, PLabels, CLabels
<1>4. /\ pc'[t] = "load" /\ (ThreadAt(t, L)' => QueueInv(L)')
      /\ setup.hp => OwnSlots(t)'
      /\ t \in Producers /\ Fresh(t, L) /\ x.n = loc[t].n => Fresh(t, L)'
  <2>1. CASE UNCHANGED memVars
    <3>1. MemInv' /\ Later /\ mem' = mem
      BY <1>1, <2>1, IdleStep
    <3> QED BY <1>3, <3>1, QuietMove
  <2>2. CASE CAS(t, tail_, loc[t].tail, loc[t].next, "release")
    <3>1. Follows(t, loc[t].tail, loc[t].next, L)
      BY <1>1, Roles DEF QueueInv, ProducerAt, ConsumerAt
    <3>2. /\ MemInv' /\ Later /\ ListInv(L)' /\ CarryInv(L)'
          /\ \A l \in Locs : l # tail_ => mem'[l] = mem[l]
      BY <1>1, <2>2, <3>1, TailStep
    <3> QED BY <1>3, <3>2, TailMoved
  <2> QED BY <2>1, <2>2 DEF Help
<1>5. ASSUME t \in Producers PROVE ProducerAt(t, L)'
  <2>1. Fresh(t, L)
    BY <1>1, <1>5 DEF QueueInv, ProducerAt
  <2>2. Fresh(t, L)'
    BY <1>2, <1>4, <1>5, <2>1
  <2> QED BY <1>4, <2>2 DEF ProducerAt
<1>6. t \in Consumers => ConsumerAt(t, L)'
  BY <1>4 DEF ConsumerAt
<1>7. setup.hp => HazardAt(t, L)'
  BY <1>4, HazardNone
<1> QED BY <1>4, <1>5, <1>6, <1>7 DEF ThreadAt

\* The strong CAS at the end of enqueue.
LEMMA SwingInv ==
  ASSUME NEW L, QueueInv(L), NEW p \in Producers, Swing(p), setup' = setup
  PROVE  QueueInv(L)'
<1>1. /\ MemInv /\ pc[p] = "swing" /\ sent' = sent
      /\ loc' = [loc EXCEPT ![p] = NoLocals] /\ UNCHANGED <<suiteVars, hpVars>>
      /\ p \in Threads /\ p \notin Consumers
  <2>1. p \in Threads
    BY DEF Threads
  <2> QED BY <2>1, Roles DEF QueueInv, Swing, At, suiteVars
<1>2. PICK to : pc' = [pc EXCEPT ![p] = to] /\ to \in {"clear0", "idle", "done"}
  <2>1. PICK to : to = IF setup.hp THEN "clear0" ELSE Returned(p)
    OBVIOUS
  <2>2. to \in {"clear0", "idle", "done"}
    BY <1>1, <2>1, Returns
  <2>3. pc' = [pc EXCEPT ![p] = to]
    BY <2>1 DEF Swing, Return, Goto
  <2> QED BY <2>2, <2>3
<1>3. PICK x : x = NoLocals
  OBVIOUS
<1>4. x \in Locals
  BY <1>3 DEF NoLocals, Locals, Words
<1>5. Moves(p, to, x)
  BY <1>1, <1>2, <1>3, <1>4 DEF Moves, PLabels
<1>6. /\ pc'[p] = to /\ (ThreadAt(p, L)' => QueueInv(L)')
      /\ setup.hp => OwnSlots(p)'
  <2>1. CASE UNCHANGED memVars
    <3>1. MemInv' /\ Later /\ mem' = mem
      BY <1>1, <2>1, IdleStep
    <3> QED BY <1>1, <1>5, <3>1, QuietMove
  <2>2. CASE CAS(p, tail_, loc[p].tail, loc[p].n, "release")
    <3>1. Follows(p, loc[p].tail, loc[p].n, L)
      BY <1>1 DEF QueueInv, ProducerAt
    <3>2. /\ MemInv' /\ Later /\ ListInv(L)' /\ CarryInv(L)'
          /\ \A l \in Locs : l # tail_ => mem'[l] = mem[l]
      BY <1>1, <2>2, <3>1, TailStep
    <3> QED BY <1>1, <1>5, <3>2, TailMoved
  <2> QED BY <2>1, <2>2 DEF Swing
<1>7. ProducerAt(p, L)'
  BY <1>2, <1>6 DEF ProducerAt
<1>8. setup.hp => HazardAt(p, L)'
  BY <1>2, <1>6, HazardNone
<1> QED BY <1>1, <1>6, <1>7, <1>8 DEF ThreadAt

\* A node that a producer made earlier comes before the one it has now.
LEMMA FreshBefore ==
  ASSUME MemInv, NEW L, ListInv(L), NEW p \in Producers, Fresh(p, L),
         sent[p] \in Nat, NEW i \in 1 .. Len(L)
  PROVE  Before(L[i], loc[p].n)
<1>1. L[i] # loc[p].n /\ loc[p].n = <<p, sent[p]>>
  BY DEF Fresh
<1>2. L[i] \in Nodes /\ L[i] \in Locs
  BY ListFacts
<1>3. Len(mem[L[i]]) >= 1
  <2>1. i = Len(L) \/ i \in 1 .. Len(L) - 1
    BY ListFacts
  <2>2. CASE i = Len(L)
    <3>1. Len(mem[L[i]]) = 1
      BY <2>2 DEF ListInv
    <3> QED BY <3>1
  <2>3. CASE i \in 1 .. Len(L) - 1
    <3>1. Len(mem[L[i]]) = 2
      BY <2>3 DEF ListInv
    <3> QED BY <3>1
  <2> QED BY <2>1, <2>2, <2>3
<1>4. Made(L[i])
  BY <1>2, <1>3 DEF ListInv
<1>5. ASSUME L[i][1] = p PROVE L[i][2] < sent[p]
  <2>1. /\ L[i] = <<L[i][1], L[i][2]>> /\ L[i][2] \in Nat
    BY <1>2, NodeFacts
  <2>2. L[i] # DummyNode
    BY <1>5, QueueRAAssumption DEF DummyNode
  <2>3. L[i][2] <= sent[p]
    BY <1>4, <1>5, <2>2 DEF Made
  <2>4. L[i][2] # sent[p]
    BY <1>1, <1>5, <2>1
  <2> QED BY <2>1, <2>3, <2>4
<1> QED BY <1>1, <1>5 DEF Before

\* A CAS that succeeds links the node to the last one.
LEMMA LinkStep ==
  ASSUME NEW L, QueueInv(L), NEW p \in Producers, Fresh(p, L),
         Met(tail_, loc[p].tail, L), sent' = sent,
         CAS(p, loc[p].tail, Null, loc[p].n, "release"),
         NEW M, M = Append(L, loc[p].n)
  PROVE  /\ MemInv' /\ Later /\ Longer(L, M) /\ ListInv(M)' /\ CarryInv(M)'
         /\ loc[p].tail = L[Len(L)] /\ \A l \in Locs : l # loc[p].tail => mem'[l] = mem[l]
         /\ view'[p][loc[p].tail] >= 2
<1>1. MemInv /\ ListInv(L) /\ CarryInv(L) /\ p \in Threads /\ sent[p] \in Nat
  BY DEF QueueInv, Threads, TypeInv
<1>2. PICK n, j : n = loc[p].n /\ j = Len(L)
  OBVIOUS
<1>3. /\ j \in Nat /\ j \in 1 .. Len(L) /\ L \in Seq(Nodes) /\ n \in Nodes
      /\ \A i \in 1 .. j : L[i] \in Nodes /\ L[i] \in Locs /\ L[i] # tail_
                           /\ L[i] # head_ /\ L[i] # n
      /\ \A i, k \in 1 .. j : L[i] = L[k] => i = k
  BY <1>1, <1>2, ListFacts, LocFacts DEF Fresh
<1>4. loc[p].tail = L[j] /\ Len(mem[tail_]) = j
  <2>1. PICK i \in 1 .. Len(mem[tail_]) : loc[p].tail = L[i]
    BY DEF Met
  <2>2. i \in 1 .. j /\ Len(mem[tail_]) <= j /\ Len(mem[tail_]) \in Nat
    BY <1>1, <1>2, ListFacts
  <2>3. ASSUME i # j PROVE FALSE
    <3>1. i \in 1 .. Len(L) - 1 /\ i + 1 \in 1 .. Len(L)
      BY <1>2, <1>3, <2>2, <2>3
    <3>2. Len(mem[L[i]]) = 2 /\ mem[L[i]][2].val = L[i + 1]
      BY <1>1, <3>1 DEF ListInv
    <3>3. L[i + 1] # Null
      BY <1>1, <3>1, ListFacts
    <3> QED BY <2>1, <3>2, <3>3 DEF CAS, Newest
  <2> QED BY <1>3, <2>1, <2>2, <2>3
<1>5. PICK a : a = L[j]
  OBVIOUS
<1>6. Len(mem[a]) = 1 /\ a \in Locs /\ a # tail_ /\ a # head_ /\ a # n
  BY <1>1, <1>2, <1>3, <1>5 DEF ListInv
<1>7. MemInv' /\ Later /\ Stored(p, a, n, "release", Newest(a).at)
  <2>1. Update(p, a, n, "release") /\ n \in Values
    BY <1>2, <1>3, <1>4, <1>5 DEF CAS, Values, Words
  <2>2. Len(mem[a]) >= 1
    BY <1>6
  <2> QED BY <1>1, <1>6, <2>1, <2>2, UpdateStep
<1>8. PICK w \in Writes : Wrote(p, a, w) /\ w.val = n /\ Below(view[p], w.at)
  BY <1>7 DEF Stored
<1>9. /\ Len(mem'[a]) = 2 /\ mem'[a][2] = w /\ mem'[a][1] = mem[a][1]
      /\ \A l \in Locs : l # a => mem'[l] = mem[l]
      /\ view'[p][a] = 2
  BY <1>6, <1>8 DEF Wrote
<1>10. /\ M \in Seq(Nodes) /\ Len(M) = j + 1 /\ M[j + 1] = n
       /\ \A i \in 1 .. j : M[i] = L[i]
  BY <1>2, <1>3, Appended
<1>11. Longer(L, M)
  BY <1>2, <1>3, <1>10 DEF Longer
<1>12. /\ mem'[tail_] = mem[tail_] /\ mem'[head_] = mem[head_]
       /\ \A i \in 1 .. j - 1 : mem'[L[i]] = mem[L[i]]
       /\ mem'[n] = mem[n]
  <2>1. \A i \in 1 .. j - 1 : L[i] \in Locs /\ L[i] # a
    BY <1>3, <1>5
  <2>2. n \in Locs
    BY <1>3, NodeFacts
  <2> QED BY <1>6, <1>9, <2>1, <2>2, LocFacts
<1>13. \A i \in 1 .. j + 1 : i = j + 1 \/ i \in 1 .. j
  BY <1>3
<1>14. ListInv(M)'
  <2>1. \A i : Made(i)' <=> Made(i)
    BY DEF Made
  <2>2. Len(mem'[tail_]) \in {Len(M) - 1, Len(M)}
    BY <1>3, <1>4, <1>10, <1>12
  <2>3. Len(mem'[head_]) \in 1 .. Len(mem'[tail_])
    BY <1>1, <1>12 DEF ListInv
  <2>4. \A i \in 1 .. Len(mem'[tail_]) : mem'[tail_][i].val = M[i]
    BY <1>1, <1>4, <1>10, <1>12 DEF ListInv
  <2>5. \A i \in 1 .. Len(mem'[head_]) : mem'[head_][i].val = M[i]
    <3>1. \A i \in 1 .. Len(mem[head_]) : i \in 1 .. j
      BY <1>1, <1>4, ListFacts
    <3> QED BY <1>1, <1>10, <1>12, <3>1 DEF ListInv
  <2>6. ASSUME NEW i \in 1 .. Len(M) - 1
        PROVE  Len(mem'[M[i]]) = 2 /\ mem'[M[i]][2].val = M[i + 1]
    <3>1. CASE i = j
      BY <1>5, <1>8, <1>9, <1>10, <3>1, <1>3
    <3>2. CASE i # j
      <4>1. i \in 1 .. j - 1 /\ i \in 1 .. j /\ i + 1 \in 1 .. j
        BY <1>3, <1>10, <3>2
      <4>2. Len(mem[L[i]]) = 2 /\ mem[L[i]][2].val = L[i + 1]
        BY <1>1, <1>2, <4>1 DEF ListInv
      <4> QED BY <1>10, <1>12, <4>1, <4>2
    <3> QED BY <3>1, <3>2
  <2>7. Len(mem'[M[Len(M)]]) = 1
    BY <1>2, <1>10, <1>12 DEF Fresh
  <2>8. ASSUME NEW i \in 1 .. Len(M), NEW k \in 1 .. Len(M), i < k
        PROVE  Before(M[i], M[k])
    <3>1. i \in 1 .. j /\ M[i] = L[i]
      BY <1>3, <1>10, <2>8
    <3>2. CASE k = j + 1
      BY <1>1, <1>2, <1>10, <3>1, <3>2, FreshBefore
    <3>3. CASE k # j + 1
      <4>1. k \in 1 .. j /\ M[k] = L[k]
        BY <1>10, <1>13, <3>3
      <4> QED BY <1>1, <1>2, <2>8, <3>1, <4>1 DEF ListInv
    <3> QED BY <3>2, <3>3
  <2>9. ASSUME NEW i \in Nodes, Len(mem'[i]) >= 1
        PROVE  mem'[i][1].val = Null /\ Made(i)'
    <3>1. i \in Locs
      BY NodeFacts
    <3>2. CASE i = a
      BY <1>1, <1>6, <1>9, <2>1, <3>2 DEF ListInv
    <3>3. CASE i # a
      BY <1>1, <1>9, <2>1, <2>9, <3>1, <3>3 DEF ListInv
    <3> QED BY <3>2, <3>3
  <2>10. Len(M) >= 1
    BY <1>3, <1>10
  <2> QED BY <1>10, <2>2, <2>3, <2>4, <2>5, <2>6, <2>7, <2>8, <2>9, <2>10
          DEF ListInv
<1>15. CarryInv(M)'
  <2>1. ASSUME NEW i \in 1 .. Len(mem'[tail_])
        PROVE  /\ mem'[tail_][i].at[M[i]] >= 1
               /\ \A k \in 1 .. i - 1 : mem'[tail_][i].at[M[k]] >= 2
    <3>1. i \in 1 .. j /\ i \in 1 .. Len(mem[tail_])
      BY <1>4, <1>12
    <3>2. \A k \in 1 .. i - 1 : k \in 1 .. j
      BY <1>3, <3>1
    <3> QED BY <1>1, <1>10, <1>12, <3>1, <3>2 DEF CarryInv
  <2>2. ASSUME NEW i \in 1 .. Len(mem'[head_])
        PROVE  mem'[head_][i].at[M[i]] >= 1 /\ mem'[head_][i].at[tail_] >= i
    <3>1. i \in 1 .. j /\ i \in 1 .. Len(mem[head_])
      BY <1>1, <1>4, <1>12, ListFacts
    <3> QED BY <1>1, <1>10, <1>12, <3>1 DEF CarryInv
  <2>3. ASSUME NEW i \in 1 .. Len(M) - 1 PROVE mem'[M[i]][2].at[M[i + 1]] >= 1
    <3>1. CASE i = j
      <4>1. w.at \in Views /\ view[p] \in Views /\ n \in Locs
        BY <1>1, <1>3, MemTypes, NodeFacts DEF Writes
      <4>2. view[p][n] <= w.at[n] /\ view[p][n] \in Nat /\ w.at[n] \in Nat
        BY <1>8, <4>1 DEF Below, Views
      <4>3. view[p][n] >= 1
        BY <1>2 DEF Fresh
      <4>4. mem'[M[i]][2] = w /\ M[i + 1] = n
        BY <1>3, <1>5, <1>9, <1>10, <3>1
      <4> QED BY <4>2, <4>3, <4>4
    <3>2. CASE i # j
      <4>1. i \in 1 .. j - 1 /\ i \in 1 .. j /\ i + 1 \in 1 .. j
        BY <1>3, <1>10, <3>2
      <4>2. mem[L[i]][2].at[L[i + 1]] >= 1
        BY <1>1, <1>2, <4>1 DEF CarryInv
      <4> QED BY <1>10, <1>12, <4>1, <4>2
    <3> QED BY <3>1, <3>2
  <2> QED BY <2>1, <2>2, <2>3 DEF CarryInv
<1> QED BY <1>2, <1>4, <1>5, <1>7, <1>9, <1>11, <1>14, <1>15

\* The CAS that links the node.
LEMMA LinkInv ==
  ASSUME NEW L, QueueInv(L), NEW p \in Producers, Link(p), setup' = setup
  PROVE  \E M : QueueInv(M)'
<1>1. /\ MemInv /\ TypeInv /\ ListInv(L) /\ pc[p] = "link" /\ sent' = sent
      /\ UNCHANGED <<loc, suiteVars, hpVars>>
      /\ p \in Threads /\ p \notin Consumers
      /\ Fresh(p, L) /\ Met(tail_, loc[p].tail, L)
  <2>1. p \in Threads
    BY DEF Threads
  <2> QED BY <2>1, Roles DEF QueueInv, ProducerAt, Link, At, suiteVars
<1>2. PICK x : x = loc[p] /\ x \in Locals /\ loc' = [loc EXCEPT ![p] = x]
  BY <1>1, LocalTypes DEF TypeInv
<1>3. CASE UNCHANGED memVars /\ Goto(p, "load")
  <2>1. MemInv' /\ Later /\ mem' = mem
    BY <1>1, <1>3, IdleStep
  <2>2. Moves(p, "load", x)
    BY <1>1, <1>2, <1>3 DEF Moves, PLabels, Goto
  <2>3. /\ pc'[p] = "load" /\ (ThreadAt(p, L)' => QueueInv(L)')
        /\ setup.hp => OwnSlots(p)'
        /\ p \in Producers /\ Fresh(p, L) /\ x.n = loc[p].n => Fresh(p, L)'
    BY <1>1, <2>1, <2>2, QuietMove
  <2>4. ProducerAt(p, L)'
    BY <1>1, <1>2, <2>3 DEF ProducerAt
  <2>5. setup.hp => HazardAt(p, L)'
    BY <2>3, HazardNone
  <2> QED BY <1>1, <2>3, <2>4, <2>5 DEF ThreadAt
<1>4. CASE CAS(p, loc[p].tail, Null, loc[p].n, "release") /\ Goto(p, "swing")
  <2>1. PICK M, n, j : M = Append(L, loc[p].n) /\ n = loc[p].n /\ j = Len(L)
    OBVIOUS
  <2>2. /\ MemInv' /\ Later /\ Longer(L, M) /\ ListInv(M)' /\ CarryInv(M)'
        /\ loc[p].tail = L[j]
        /\ \A l \in Locs : l # loc[p].tail => mem'[l] = mem[l]
        /\ view'[p][loc[p].tail] >= 2
    BY <1>1, <1>4, <2>1, LinkStep
  <2>3. /\ j \in 1 .. Len(L) /\ j \in Nat /\ L \in Seq(Nodes) /\ L[j] \in Nodes
        /\ n \in Nodes
    BY <1>1, <2>1, ListFacts DEF Fresh
  <2>4. /\ Len(M) = j + 1 /\ M[j + 1] = n /\ \A i \in 1 .. j : M[i] = L[i]
    BY <2>1, <2>3, Appended
  <2>5. \A l \in Slots \cup {consumed} : mem'[l] = mem[l]
    BY <2>2, <2>3, LocFacts
  <2>6. OthersFresh(p, L, M)
    <3>1. ASSUME NEW q \in Producers, q # p, Fresh(q, L)
          PROVE  Len(mem'[loc[q].n]) = 1 /\ \A i \in 1 .. Len(M) : M[i] # loc[q].n
      <4>1. /\ loc[q].n = <<q, sent[q]>> /\ n = <<p, sent[p]>>
            /\ loc[q].n \in Nodes /\ Len(mem[loc[q].n]) = 1
            /\ \A i \in 1 .. j : L[i] # loc[q].n
        BY <1>1, <2>1, <3>1 DEF Fresh
      <4>2. loc[q].n # n /\ loc[q].n # L[j] /\ loc[q].n \in Locs
        BY <2>3, <3>1, <4>1, NodeFacts
      <4>3. \A i \in 1 .. Len(M) : i = j + 1 \/ i \in 1 .. j
        BY <2>3, <2>4
      <4> QED BY <2>2, <2>4, <4>1, <4>2, <4>3
    <3> QED BY <3>1 DEF OthersFresh
  <2>7. Moves(p, "swing", x)
    BY <1>1, <1>2, <1>4 DEF Moves, PLabels, Goto
  <2>8. /\ pc'[p] = "swing" /\ loc'[p] = x /\ (ThreadAt(p, M)' => QueueInv(M)')
        /\ setup.hp => OwnSlots(p)'
    BY <1>1, <2>2, <2>5, <2>6, <2>7, ListStep
  <2>9. ProducerAt(p, M)'
    <3>1. loc'[p].tail = L[j] /\ loc'[p].n = n /\ loc'[p].tail = loc[p].tail
      BY <1>2, <2>1, <2>2, <2>8
    <3>2. Met(tail_, loc[p].tail, M)'
      BY <1>1, <2>2, <3>1, ProducerGrows
    <3>3. view'[p][n] >= 1
      <4>1. n \in Locs /\ view[p][n] >= 1
        BY <1>1, <2>1, <2>3, NodeFacts DEF Fresh
      <4> QED BY <1>1, <2>2, <4>1, LaterFacts
    <3>4. j \in 1 .. Len(M) - 1 /\ L[j] = M[j] /\ n = M[j + 1] /\ view'[p][L[j]] >= 2
      BY <2>2, <2>3, <2>4
    <3>5. Follows(p, loc[p].tail, loc[p].n, M)'
      BY <3>1, <3>3, <3>4 DEF Follows
    <3> QED BY <2>8, <3>2, <3>5 DEF ProducerAt
  <2>10. setup.hp => HazardAt(p, M)'
    BY <2>8, HazardNone
  <2>11. QueueInv(M)'
    BY <1>1, <2>8, <2>9, <2>10 DEF ThreadAt
  <2> QED BY <2>11
<1> QED BY <1>3, <1>4 DEF Link

\* The types, after any step of t.
LEMMA TypeAny ==
  ASSUME TypeInv, NEW t \in Threads, NEW to, pc' = [pc EXCEPT ![t] = to],
         t \in Producers => to \in PLabels, t \in Consumers => to \in CLabels,
         NEW x \in Locals, loc' = [loc EXCEPT ![t] = x], setup' = setup,
         sent' \in [Producers -> Nat], got' \in [Consumers -> Seq(Nodes)],
         bag' \in [Consumers -> SUBSET Nodes], freed' \in SUBSET Nodes,
         todo' \in [Consumers -> SUBSET Slots],
         hz' \in [Consumers -> SUBSET Values],
         \A c \in Consumers : c # t => todo'[c] = todo[c],
         t \in Consumers /\ to = "slots" => todo'[t] # {},
         t \in Consumers /\ to = "free" => todo'[t] = {},
         \A i \in 1 .. Len(mem'[consumed]) : mem'[consumed][i].val \in Nat
  PROVE  /\ TypeInv' /\ pc'[t] = to /\ loc'[t] = x
         /\ \A u \in Threads : u # t => pc'[u] = pc[u] /\ loc'[u] = loc[u]
<1>1. to \in PLabels \cup CLabels
  BY DEF Threads
<1>2. /\ pc' \in [Threads -> PLabels \cup CLabels] /\ pc'[t] = to
      /\ loc' \in [Threads -> Locals] /\ loc'[t] = x
      /\ \A u \in Threads : u # t => pc'[u] = pc[u] /\ loc'[u] = loc[u]
  BY <1>1 DEF TypeInv, Locals
<1>3. ASSUME NEW p \in Producers PROVE pc'[p] \in PLabels
  BY <1>2 DEF TypeInv, Threads
<1>4. ASSUME NEW c \in Consumers
      PROVE  /\ pc'[c] \in CLabels /\ (pc'[c] = "slots" => todo'[c] # {})
             /\ (pc'[c] = "free" => todo'[c] = {})
  <2>1. CASE c = t
    BY <1>2, <2>1
  <2>2. CASE c # t
    BY <1>2, <2>2 DEF TypeInv, Threads
  <2> QED BY <2>1, <2>2
<1> QED BY <1>2, <1>3, <1>4 DEF TypeInv, Locals

\* The node a producer is about to make is not there yet.
LEMMA NewNode ==
  ASSUME NEW L, QueueInv(L), NEW p \in Producers, sent[p] < setup.K[p], NEW n,
         n = <<p, sent[p] + 1>>
  PROVE  /\ n \in Nodes /\ n \in Locs /\ Len(mem[n]) = 0
         /\ \A j \in 1 .. Len(L) : L[j] # n
<1>1. MemInv /\ TypeInv /\ ListInv(L) /\ sent[p] \in Nat /\ setup \in Setups
  BY DEF QueueInv, TypeInv
<1>2. setup.K[p] \in Nat
  BY <1>1, QueueRAAssumption DEF SetupType
<1>3. n \in Sent(setup.K)
  BY <1>1, <1>2 DEF Sent
<1>4. n \in Nodes
  <2>1. n \in UNION {Sent(u.K) : u \in Setups}
    BY <1>1, <1>3
  <2> QED BY <2>1 DEF Nodes
<1>5. n \in Locs /\ Len(mem[n]) \in Nat
  BY <1>1, <1>4, NodeFacts, MemTypes
<1>6. Len(mem[n]) = 0
  <2>1. ASSUME Len(mem[n]) >= 1 PROVE FALSE
    <3>1. Made(n)
      BY <1>1, <1>4, <2>1 DEF ListInv
    <3>2. n[1] = p /\ n[2] = sent[p] + 1 /\ n # DummyNode
      BY QueueRAAssumption DEF DummyNode
    <3> QED BY <1>1, <3>1, <3>2 DEF Made
  <2> QED BY <1>5, <2>1
<1>7. ASSUME NEW j \in 1 .. Len(L) PROVE Len(mem[L[j]]) # 0
  <2>1. j = Len(L) \/ j \in 1 .. Len(L) - 1
    BY <1>1, ListFacts
  <2>2. CASE j = Len(L)
    <3>1. Len(mem[L[j]]) = 1
      BY <1>1, <2>2 DEF ListInv
    <3> QED BY <3>1
  <2>3. CASE j \in 1 .. Len(L) - 1
    <3>1. Len(mem[L[j]]) = 2
      BY <1>1, <2>3 DEF ListInv
    <3> QED BY <3>1
  <2> QED BY <2>1, <2>2, <2>3
<1> QED BY <1>4, <1>5, <1>6, <1>7

\* new node().
LEMMA NewInv ==
  ASSUME NEW L, QueueInv(L), NEW p \in Producers, New(p), setup' = setup
  PROVE  QueueInv(L)'
<1>1. /\ MemInv /\ TypeInv /\ ListInv(L) /\ CarryInv(L) /\ GotInv(L)
      /\ RetiredInv(L) /\ HazardInv(L) /\ Longer(L, L)
      /\ p \in Threads /\ p \notin Consumers /\ sent[p] < setup.K[p]
      /\ pc' = [pc EXCEPT ![p] = "load"] /\ got' = got /\ UNCHANGED hpVars
      /\ sent' = [sent EXCEPT ![p] = @ + 1]
  <2>1. p \in Threads
    BY DEF Threads
  <2> QED BY <2>1, LongerSelf, Roles DEF QueueInv, New, At, Goto
<1>2. PICK n : n = <<p, sent[p] + 1>>
  OBVIOUS
<1>3. /\ n \in Nodes /\ n \in Locs /\ Len(mem[n]) = 0 /\ n \in Words
      /\ \A j \in 1 .. Len(L) : L[j] # n
  BY <1>1, <1>2, NewNode, NodeFacts
<1>4. Store(p, n, Null, "relaxed") /\ Set(p, "n", n) /\ Null \in Values
  BY <1>2 DEF New, Values, Words
<1>5. MemInv' /\ Later /\ Stored(p, n, Null, "relaxed", rel[p])
  BY <1>1, <1>3, <1>4, StoreStep
<1>6. PICK w \in Writes : Wrote(p, n, w) /\ w.val = Null
  BY <1>5 DEF Stored
<1>7. /\ Len(mem'[n]) = 1 /\ mem'[n][1] = w /\ view'[p][n] = 1
      /\ \A l \in Locs : l # n => mem'[l] = mem[l]
  BY <1>3, <1>6 DEF Wrote
<1>8. /\ mem'[tail_] = mem[tail_] /\ mem'[head_] = mem[head_]
      /\ mem'[consumed] = mem[consumed]
      /\ \A l \in Slots : mem'[l] = mem[l]
      /\ \A j \in 1 .. Len(L) : mem'[L[j]] = mem[L[j]]
  BY <1>1, <1>3, <1>7, LocFacts, ListFacts
<1>9. /\ sent \in [Producers -> Nat] /\ sent' \in [Producers -> Nat]
      /\ sent'[p] = sent[p] + 1 /\ \A q \in Producers : q # p => sent'[q] = sent[q]
  BY <1>1 DEF TypeInv
<1>10. PICK y \in Locals : loc' = [loc EXCEPT ![p] = y] /\ y.n = n
  <2>1. PICK y \in Locals : /\ loc' = [loc EXCEPT ![p] = y]
                            /\ y.n = (IF "n" = "n" THEN n ELSE loc[p].n)
    BY <1>1, <1>3, <1>4, SetStep
  <2> QED BY <2>1
<1>11. /\ TypeInv' /\ pc'[p] = "load" /\ loc'[p] = y
       /\ \A u \in Threads : u # p => pc'[u] = pc[u] /\ loc'[u] = loc[u]
  <2>1. /\ got' \in [Consumers -> Seq(Nodes)] /\ bag' \in [Consumers -> SUBSET Nodes]
        /\ freed' \in SUBSET Nodes /\ todo' \in [Consumers -> SUBSET Slots]
        /\ hz' \in [Consumers -> SUBSET Values] /\ todo' = todo
        /\ \A i \in 1 .. Len(mem'[consumed]) : mem'[consumed][i].val \in Nat
    BY <1>1, <1>8 DEF TypeInv, hpVars
  <2>2. "load" \in PLabels
    BY DEF PLabels
  <2> QED BY <1>1, <1>9, <1>10, <2>1, <2>2, TypeAny
<1>12. OthersStay(p)
  BY <1>8, <1>11 DEF OthersStay
<1>13. ListInv(L)'
  <2>1. ASSUME NEW i \in Nodes, Made(i) PROVE Made(i)'
    <3>1. i[2] \in Nat
      BY NodeFacts
    <3> QED BY <1>9, <2>1, <3>1 DEF Made
  <2>2. Made(n)'
    BY <1>2, <1>9 DEF Made
  <2>3. ASSUME NEW i \in Nodes, Len(mem'[i]) >= 1
        PROVE  mem'[i][1].val = Null /\ Made(i)'
    <3>1. CASE i = n
      BY <1>6, <1>7, <2>2, <3>1
    <3>2. CASE i # n
      <4>1. i \in Locs
        BY NodeFacts
      <4> QED BY <1>1, <1>7, <2>1, <2>3, <3>2, <4>1 DEF ListInv
    <3> QED BY <3>1, <3>2
  <2>4. \A i \in 1 .. Len(L) - 1 : i \in 1 .. Len(L)
    BY <1>1, ListFacts
  <2>5. Len(L) \in 1 .. Len(L)
    BY <1>1, ListFacts
  <2>6. \A i \in 1 .. Len(L) - 1 : /\ Len(mem'[L[i]]) = 2
                                   /\ mem'[L[i]][2].val = L[i + 1]
    BY <1>1, <1>8, <2>4 DEF ListInv
  <2>7. Len(mem'[L[Len(L)]]) = 1
    BY <1>1, <1>8, <2>5 DEF ListInv
  <2> QED BY <1>1, <1>8, <2>3, <2>6, <2>7 DEF ListInv
<1>14. CarryInv(L)'
  <2>1. \A i \in 1 .. Len(L) - 1 : mem'[L[i]] = mem[L[i]]
    BY <1>1, <1>8, ListFacts
  <2> QED BY <1>1, <1>8, <2>1 DEF CarryInv
<1>15. GotInv(L)'
  BY <1>1, <1>5, GotFrame
<1>16. \A c \in Consumers : Scanning(c)' => Scanning(c)
  BY <1>11 DEF Scanning, Threads
<1>17. RetiredInv(L)'
  BY <1>1, <1>5, <1>16, RetiredFrame DEF hpVars
<1>18. ASSUME NEW u \in Threads PROVE Keeps(u)
  <2>1. \A s \in {0, 1} : Slot(u, s) \in Slots =>
          mem'[Slot(u, s)] = mem[Slot(u, s)]
    BY <1>8
  <2> QED BY <1>1, <1>5, <1>16, <2>1, KeepsFrame
<1>19. ASSUME NEW q \in Producers, q # p
       PROVE  /\ sent'[q] = sent[q]
              /\ Fresh(q, L) => /\ Len(mem'[loc[q].n]) = 1
                                /\ \A j \in 1 .. Len(L) : L[j] # loc[q].n
  <2>1. sent'[q] = sent[q]
    BY <1>9, <1>19
  <2>2. ASSUME Fresh(q, L)
        PROVE  Len(mem'[loc[q].n]) = 1 /\ \A j \in 1 .. Len(L) : L[j] # loc[q].n
    <3>1. /\ loc[q].n = <<q, sent[q]>> /\ loc[q].n \in Nodes
          /\ Len(mem[loc[q].n]) = 1 /\ \A j \in 1 .. Len(L) : L[j] # loc[q].n
      BY <2>2 DEF Fresh
    <3>2. loc[q].n # n /\ loc[q].n \in Locs
      BY <1>2, <1>19, <3>1, NodeFacts
    <3> QED BY <1>7, <3>1, <3>2
  <2> QED BY <2>1, <2>2
<1>20. ProducerAt(p, L)'
  <2>1. loc'[p].n = n
    BY <1>10, <1>11
  <2>2. Fresh(p, L)'
    BY <1>2, <1>3, <1>7, <1>9, <2>1 DEF Fresh
  <2> QED BY <1>11, <2>2 DEF ProducerAt
<1>21. ASSUME setup.hp PROVE HazardAt(p, L)'
  <2>1. OwnSlots(p)
    BY <1>1, <1>21 DEF HazardInv, HazardAt, OwnSlots
  <2>2. OwnSlots(p)'
    BY <1>1, <1>5, <1>8, <2>1, OwnSlotsKept
  <2> QED BY <1>11, <2>2, HazardNone
<1> QED BY <1>1, <1>5, <1>11, <1>12, <1>13, <1>14, <1>15, <1>17, <1>18, <1>19,
           <1>20, <1>21, Assemble

-----------------------------------------------------------------------------
(* try_dequeue                                                             *)

\* A step of t that leaves memory and the domain alone keeps t's guards.
LEMMA QuietGuards ==
  ASSUME NEW L, QueueInv(L), NEW t \in Threads, MemInv', Later, mem' = mem,
         NEW to, NEW x, Moves(t, to, x), NEW s \in {0, 1}, Slot(t, s) \in Slots,
         NEW n, Guards(t, s, n)
  PROVE  Guards(t, s, n)'
<1>1. /\ pc' = [pc EXCEPT ![t] = to] /\ UNCHANGED <<suiteVars, hpVars>>
      /\ t \in Consumers => to \in CLabels \ {"slots", "free"}
  BY DEF Moves
<1>2. MemInv /\ TypeInv
  BY DEF QueueInv
<1>3. ASSUME NEW c \in Consumers, Scanning(c)' PROVE Scanning(c)
  <2>1. c = t => pc'[c] \notin {"slots", "free"}
    BY <1>1, <1>2 DEF TypeInv
  <2>2. c # t => pc'[c] = pc[c]
    BY <1>1, <1>2 DEF TypeInv
  <2> QED BY <1>3, <2>1, <2>2 DEF Scanning
<1> QED BY <1>1, <1>2, <1>3, GuardsKept

\* while (consumed.load() < P * K).
LEMMA LoopInv ==
  ASSUME NEW L, QueueInv(L), NEW c \in Consumers, Loop(c), setup' = setup
  PROVE  QueueInv(L)'
<1>1. /\ MemInv /\ TypeInv /\ UNCHANGED <<loc, suiteVars, hpVars>>
      /\ c \in Threads /\ c \notin Producers
  <2>1. c \in Threads
    BY DEF Threads
  <2> QED BY <2>1, Roles DEF QueueInv, Loop
<1>2. PICK i, to : /\ Load(c, consumed, i, "relaxed") /\ to \in {"load", "done"}
                   /\ pc' = [pc EXCEPT ![c] = to]
  <2>1. PICK i : /\ Load(c, consumed, i, "relaxed")
                 /\ pc' = [pc EXCEPT ![c] = IF mem[consumed][i].val < Total
                                            THEN "load" ELSE "done"]
    BY DEF Loop, Goto
  <2>2. PICK to : to = IF mem[consumed][i].val < Total THEN "load" ELSE "done"
    OBVIOUS
  <2>3. pc' = [pc EXCEPT ![c] = to] /\ to \in {"load", "done"}
    BY <2>1, <2>2
  <2> QED BY <2>1, <2>3
<1>3. MemInv' /\ Later /\ mem' = mem
  <2>1. consumed \in Locs /\ view[c][consumed] >= 1
    BY <1>1, ViewBounds, LocFacts DEF Started
  <2> QED BY <1>1, <1>2, <2>1, LoadStep
<1>4. PICK x : x = loc[c] /\ x \in Locals /\ loc' = [loc EXCEPT ![c] = x]
  BY <1>1, LocalTypes DEF TypeInv
<1>5. Moves(c, to, x)
  BY <1>1, <1>2, <1>4 DEF Moves, CLabels
<1>6. pc'[c] = to /\ (ThreadAt(c, L)' => QueueInv(L)') /\ (setup.hp => OwnSlots(c)')
  BY <1>1, <1>3, <1>5, QuietMove
<1>7. ConsumerAt(c, L)'
  BY <1>2, <1>6 DEF ConsumerAt
<1>8. setup.hp => HazardAt(c, L)'
  BY <1>2, <1>6, HazardNone
<1> QED BY <1>1, <1>6, <1>7, <1>8 DEF ThreadAt

\* tail = tail_.load().
LEMMA DTailInv ==
  ASSUME NEW L, QueueInv(L), NEW c \in Consumers, DTail(c), setup' = setup
  PROVE  QueueInv(L)'
<1>1. /\ MemInv /\ TypeInv /\ ListInv(L) /\ UNCHANGED <<suiteVars, hpVars>>
      /\ c \in Threads /\ c \notin Producers /\ Longer(L, L) /\ Held(c) = "head"
      /\ pc[c] = "dtail" /\ ConsumerAt(c, L)
  <2>1. c \in Threads
    BY DEF Threads
  <2> QED BY <2>1, Roles, LongerSelf DEF QueueInv, DTail, At
<1>2. PICK k : /\ Load(c, tail_, k, "acquire") /\ Set(c, "tail", mem[tail_][k].val)
               /\ pc' = [pc EXCEPT ![c] = "dnext"]
  BY DEF DTail, LoadInto, Goto, tail_mo
<1>3. /\ MemInv' /\ Later /\ mem' = mem
      /\ k \in 1 .. Len(mem[tail_]) /\ view[c][tail_] <= k
      /\ mem[tail_][k].val = L[k] /\ L[k] \in Words /\ k \in 1 .. Len(L)
      /\ view'[c][tail_] >= k /\ \A i \in 1 .. k - 1 : view'[c][L[i]] >= 2
  BY <1>1, <1>2, SrcLoaded
<1>4. PICK y \in Locals : /\ loc' = [loc EXCEPT ![c] = y] /\ y.head = loc[c].head
                          /\ y.tail = L[k]
  <2>1. PICK y \in Locals :
           /\ loc' = [loc EXCEPT ![c] = y]
           /\ y.head = (IF "tail" = "head" THEN L[k] ELSE loc[c].head)
           /\ y.tail = (IF "tail" = "tail" THEN L[k] ELSE loc[c].tail)
    BY <1>1, <1>2, <1>3, SetStep
  <2> QED BY <2>1
<1>5. Moves(c, "dnext", y)
  BY <1>1, <1>2, <1>4 DEF Moves, CLabels
<1>6. /\ pc'[c] = "dnext" /\ loc'[c] = y /\ (ThreadAt(c, L)' => QueueInv(L)')
      /\ setup.hp => OwnSlots(c)'
  BY <1>1, <1>3, <1>5, QuietMove
<1>7. loc'[c].head = loc[c].head /\ loc'[c].tail = L[k]
  BY <1>4, <1>6
<1>8. ConsumerAt(c, L)'
  <2>1. view'[c][loc'[c].head] >= 1 /\ HeadAt(c, loc[c].head, 0, L)'
    BY <1>1, <1>3, <1>7, ConsumerGrows DEF ConsumerAt
  <2>2. ASSUME loc'[c].tail # loc'[c].head
        PROVE  view'[c][loc'[c].head] >= 2 /\ HeadAt(c, loc[c].head, 1, L)'
    <3>1. PICK i \in 1 .. Len(mem[head_]) : loc[c].head = L[i] /\ view[c][tail_] >= i + 0
      BY <1>1 DEF ConsumerAt, HeadAt
    <3>2. view[c][tail_] \in Nat /\ view'[c][tail_] \in Nat /\ i \in Nat
      BY <1>1, <1>3, <3>1, LaterFacts, LocFacts
    <3>3. i # k /\ i <= k
      BY <1>3, <1>7, <2>2, <3>1, <3>2
    <3>4. i \in 1 .. k - 1 /\ view'[c][tail_] >= i + 1
      BY <1>3, <3>1, <3>2, <3>3
    <3>5. HeadAt(c, loc[c].head, 1, L)'
      BY <1>3, <1>7, <3>1, <3>4 DEF HeadAt
    <3> QED BY <1>3, <1>7, <3>1, <3>4, <3>5
  <2> QED BY <1>6, <2>1, <2>2 DEF ConsumerAt
<1>9. ASSUME setup.hp PROVE HazardAt(c, L)'
  <2>1. PICK h : h = loc[c][Held(c)]
    OBVIOUS
  <2>2. Guards(c, 0, h) /\ Slot(c, 0) \in Slots
    BY <1>1, <1>9, <2>1, SlotsHas DEF QueueInv, HazardInv, HazardAt
  <2>3. Guards(c, 0, h)'
    BY <1>1, <1>3, <1>5, <2>2, QuietGuards
  <2>4. h = loc'[c][Held(c)]
    BY <1>1, <1>7, <2>1
  <2> QED BY <1>6, <1>9, <2>3, <2>4, HazardHeld
<1> QED BY <1>1, <1>6, <1>8, <1>9 DEF ThreadAt

\* next = head->next.load().
LEMMA DNextInv ==
  ASSUME NEW L, QueueInv(L), NEW c \in Consumers, DNext(c), setup' = setup
  PROVE  QueueInv(L)'
<1>1. /\ MemInv /\ TypeInv /\ ListInv(L) /\ UNCHANGED <<suiteVars, hpVars>>
      /\ c \in Threads /\ c \notin Producers /\ Longer(L, L) /\ Held(c) = "head"
      /\ pc[c] = "dnext" /\ ConsumerAt(c, L)
  <2>1. c \in Threads
    BY DEF Threads
  <2> QED BY <2>1, Roles, LongerSelf DEF QueueInv, DNext, At
<1>2. PICK j \in 1 .. Len(mem[head_]) : loc[c].head = L[j]
  BY <1>1 DEF ConsumerAt, HeadAt
<1>3. j \in 1 .. Len(L) /\ view[c][L[j]] >= 1
  BY <1>1, <1>2, ListFacts DEF ConsumerAt
<1>4. PICK i, m, to :
        /\ Load(c, L[j], i, "acquire") /\ m = mem[L[j]][i].val
        /\ Set(c, "next", m) /\ pc' = [pc EXCEPT ![c] = to]
        /\ to \in {"set", "dverify"} /\ (setup.hp => to = "set")
  <2>1. PICK to : to = IF setup.hp THEN "set" ELSE "dverify"
    OBVIOUS
  <2>2. to \in {"set", "dverify"} /\ (setup.hp => to = "set")
    BY <2>1
  <2>3. PICK i : /\ Load(c, L[j], i, "acquire") /\ Set(c, "next", mem[L[j]][i].val)
                 /\ pc' = [pc EXCEPT ![c] = to]
    BY <1>2, <2>1 DEF DNext, LoadInto, Goto
  <2> QED BY <2>2, <2>3
<1>5. /\ MemInv' /\ Later /\ mem' = mem /\ m \in Words /\ view[c][L[j]] <= i
      /\ \/ i = 1 /\ m = Null
         \/ m # Null /\ Follows(c, L[j], m, L)'
  BY <1>1, <1>3, <1>4, NextLoaded
<1>6. PICK y \in Locals : /\ loc' = [loc EXCEPT ![c] = y] /\ y.head = loc[c].head
                          /\ y.tail = loc[c].tail /\ y.next = m
  <2>1. PICK y \in Locals :
           /\ loc' = [loc EXCEPT ![c] = y]
           /\ y.head = (IF "next" = "head" THEN m ELSE loc[c].head)
           /\ y.tail = (IF "next" = "tail" THEN m ELSE loc[c].tail)
           /\ y.next = (IF "next" = "next" THEN m ELSE loc[c].next)
    BY <1>1, <1>4, <1>5, SetStep
  <2> QED BY <2>1
<1>7. Moves(c, to, y)
  BY <1>1, <1>4, <1>6 DEF Moves, CLabels
<1>8. /\ pc'[c] = to /\ loc'[c] = y /\ (ThreadAt(c, L)' => QueueInv(L)')
      /\ setup.hp => OwnSlots(c)'
  BY <1>1, <1>5, <1>7, QuietMove
<1>9. /\ loc'[c].head = loc[c].head /\ loc'[c].tail = loc[c].tail
      /\ loc'[c].next = m
  BY <1>6, <1>8
<1>10. ConsumerAt(c, L)'
  <2>1. view'[c][loc'[c].head] >= 1 /\ HeadAt(c, loc[c].head, 0, L)'
    BY <1>1, <1>5, <1>9, ConsumerGrows DEF ConsumerAt
  <2>2. loc[c].tail # loc[c].head =>
          view[c][loc[c].head] >= 2 /\ HeadAt(c, loc[c].head, 1, L)
    BY <1>1 DEF ConsumerAt
  <2>3. HeadAt(c, loc[c].head, 0, L)
    BY <1>1 DEF ConsumerAt
  <2>4. loc'[c].tail # loc'[c].head =>
          view'[c][loc'[c].head] >= 2 /\ HeadAt(c, loc[c].head, 1, L)'
    BY <1>1, <1>5, <1>9, <2>2, <2>3, ConsumerGrows
  <2>5. \/ loc'[c].next = Null /\ loc'[c].tail = loc'[c].head
        \/ Follows(c, loc[c].head, loc[c].next, L)'
    <3>1. CASE i = 1 /\ m = Null
      <4>1. view[c][L[j]] \in Nat
        BY <1>1, <1>3, ListFacts, ViewBounds
      <4>2. loc[c].tail = loc[c].head
        BY <1>2, <1>5, <2>2, <3>1, <4>1
      <4> QED BY <1>9, <3>1, <4>2
    <3>2. CASE Follows(c, L[j], m, L)'
      BY <1>2, <1>9, <3>2 DEF Follows
    <3> QED BY <1>5, <3>1, <3>2
  <2> QED BY <1>4, <1>8, <2>1, <2>4, <2>5 DEF ConsumerAt
<1>11. ASSUME setup.hp PROVE HazardAt(c, L)'
  <2>1. PICK h : h = loc[c][Held(c)]
    OBVIOUS
  <2>2. Guards(c, 0, h) /\ Slot(c, 0) \in Slots
    BY <1>1, <1>11, <2>1, SlotsHas DEF QueueInv, HazardInv, HazardAt
  <2>3. Guards(c, 0, h)'
    BY <1>1, <1>5, <1>7, <2>2, QuietGuards
  <2>4. h = loc'[c][Held(c)] /\ pc'[c] = "set"
    BY <1>1, <1>4, <1>8, <1>9, <1>11, <2>1
  <2> QED BY <1>8, <1>11, <2>3, <2>4, HazardHeld
<1> QED BY <1>1, <1>8, <1>10, <1>11 DEF ThreadAt

\* if (head != head_.load()) continue, and what head and tail then say.
LEMMA DVerifyInv ==
  ASSUME NEW L, QueueInv(L), NEW c \in Consumers, DVerify(c), setup' = setup
  PROVE  QueueInv(L)'
<1>1. /\ MemInv /\ TypeInv /\ ListInv(L) /\ UNCHANGED <<loc, suiteVars, hpVars>>
      /\ c \in Threads /\ c \notin Producers /\ Longer(L, L) /\ Held(c) = "head"
      /\ pc[c] = "dverify" /\ ConsumerAt(c, L)
  <2>1. c \in Threads
    BY DEF Threads
  <2> QED BY <2>1, Roles, LongerSelf DEF QueueInv, DVerify, At
<1>2. PICK i, to :
        /\ Load(c, head_, i, "acquire") /\ pc' = [pc EXCEPT ![c] = to]
        /\ to \in {"load", "value", "help", "clear0", "idle", "count"}
        /\ to = "value" => loc[c].head # loc[c].tail /\ mem[head_][i].val = loc[c].head
        /\ to = "help" => loc[c].head = loc[c].tail /\ loc[c].next # Null
  <2>1. PICK i :
          /\ Load(c, head_, i, "acquire")
          /\ \/ Goto(c, "load")
             \/ /\ mem[head_][i].val = loc[c].head /\ loc[c].head # loc[c].tail
                /\ Goto(c, "value")
             \/ loc[c].head = loc[c].tail /\ loc[c].next # Null /\ Goto(c, "help")
             \/ Return(c)
    BY DEF DVerify
  <2>2. CASE Return(c)
    <3>1. PICK to : to = IF setup.hp THEN "clear0" ELSE Returned(c)
      OBVIOUS
    <3>2. to \in {"clear0", "idle", "count"}
      BY <1>1, <3>1, Returns
    <3>3. pc' = [pc EXCEPT ![c] = to]
      BY <2>2, <3>1 DEF Return, Goto
    <3> QED BY <2>1, <3>2, <3>3
  <2>3. CASE Goto(c, "load")
    <3>1. PICK to : to = "load" /\ pc' = [pc EXCEPT ![c] = to]
      BY <2>3 DEF Goto
    <3>2. /\ Load(c, head_, i, "acquire") /\ pc' = [pc EXCEPT ![c] = to]
          /\ to \in {"load", "value", "help", "clear0", "idle", "count"}
          /\ to = "value" => loc[c].head # loc[c].tail /\ mem[head_][i].val = loc[c].head
          /\ to = "help" => loc[c].head = loc[c].tail /\ loc[c].next # Null
      BY <2>1, <3>1
    <3> QED BY <3>2
  <2>4. CASE /\ mem[head_][i].val = loc[c].head /\ loc[c].head # loc[c].tail
             /\ Goto(c, "value")
    <3>1. PICK to : to = "value" /\ pc' = [pc EXCEPT ![c] = to]
      BY <2>4 DEF Goto
    <3>2. /\ Load(c, head_, i, "acquire") /\ pc' = [pc EXCEPT ![c] = to]
          /\ to \in {"load", "value", "help", "clear0", "idle", "count"}
          /\ to = "value" => loc[c].head # loc[c].tail /\ mem[head_][i].val = loc[c].head
          /\ to = "help" => loc[c].head = loc[c].tail /\ loc[c].next # Null
      BY <2>1, <2>4, <3>1
    <3> QED BY <3>2
  <2>5. CASE loc[c].head = loc[c].tail /\ loc[c].next # Null /\ Goto(c, "help")
    <3>1. PICK to : to = "help" /\ pc' = [pc EXCEPT ![c] = to]
      BY <2>5 DEF Goto
    <3>2. /\ Load(c, head_, i, "acquire") /\ pc' = [pc EXCEPT ![c] = to]
          /\ to \in {"load", "value", "help", "clear0", "idle", "count"}
          /\ to = "value" => loc[c].head # loc[c].tail /\ mem[head_][i].val = loc[c].head
          /\ to = "help" => loc[c].head = loc[c].tail /\ loc[c].next # Null
      BY <2>1, <2>5, <3>1
    <3> QED BY <3>2
  <2> QED BY <2>1, <2>2, <2>3, <2>4, <2>5
<1>3. /\ MemInv' /\ Later /\ mem' = mem /\ view[c][head_] <= i
      /\ mem[head_][i].val = L[i] /\ i \in 1 .. Len(L)
  BY <1>1, <1>2, SrcLoaded
<1>4. PICK x : x = loc[c] /\ x \in Locals /\ loc' = [loc EXCEPT ![c] = x]
  BY <1>1, LocalTypes DEF TypeInv
<1>5. Moves(c, to, x)
  BY <1>1, <1>2, <1>4 DEF Moves, CLabels
<1>6. /\ pc'[c] = to /\ loc'[c] = x /\ (ThreadAt(c, L)' => QueueInv(L)')
      /\ setup.hp => OwnSlots(c)'
  BY <1>1, <1>3, <1>5, QuietMove
<1>7. /\ loc'[c].head = loc[c].head /\ loc'[c].tail = loc[c].tail
      /\ loc'[c].next = loc[c].next
  BY <1>4, <1>6
<1>8. to \in {"value", "help"} => Follows(c, loc[c].head, loc[c].next, L)
  BY <1>1, <1>2 DEF ConsumerAt
<1>9. ConsumerAt(c, L)'
  <2>1. HeadAt(c, loc[c].head, 0, L) /\ view[c][loc[c].head] >= 1
    BY <1>1 DEF ConsumerAt
  <2>2. view'[c][loc'[c].head] >= 1 /\ HeadAt(c, loc[c].head, 0, L)'
    BY <1>1, <1>3, <1>7, <2>1, ConsumerGrows
  <2>3. loc[c].tail # loc[c].head =>
          view[c][loc[c].head] >= 2 /\ HeadAt(c, loc[c].head, 1, L)
    BY <1>1 DEF ConsumerAt
  <2>4. loc'[c].tail # loc'[c].head =>
          view'[c][loc'[c].head] >= 2 /\ HeadAt(c, loc[c].head, 1, L)'
    BY <1>1, <1>3, <1>7, <2>1, <2>3, ConsumerGrows
  <2>5. to \in {"value", "help"} => Follows(c, loc[c].head, loc[c].next, L)'
    BY <1>1, <1>3, <1>7, <1>8, ConsumerGrows
  <2>6. to = "help" => Follows(c, loc[c].tail, loc[c].next, L)'
    BY <1>2, <1>7, <2>5 DEF Follows
  <2> QED BY <1>2, <1>6, <1>7, <2>2, <2>4, <2>5, <2>6 DEF ConsumerAt
<1>10. ASSUME setup.hp PROVE HazardAt(c, L)'
  <2>1. CASE to = "value"
    <3>1. PICK j \in 1 .. Len(L) - 1 : loc[c].head = L[j] /\ loc[c].next = L[j + 1]
      BY <1>8, <2>1 DEF Follows
    <3>2. j \in 1 .. Len(L) /\ j + 1 \in 1 .. Len(L) /\ Len(L) \in Nat
      BY <1>1, ListFacts
    <3>3. j = i
      BY <1>1, <1>2, <1>3, <2>1, <3>1, <3>2, ListFacts
    <3>4. view[c][head_] \in Nat /\ view[c][head_] <= j + 1
      <4>1. view[c][head_] \in Nat
        BY <1>1, LocFacts, ViewBounds
      <4> QED BY <1>3, <3>2, <3>3, <4>1
    <3>5. L[j + 1] # Null /\ ~Gone(L[j + 1], view[c], L)
      BY <1>1, <3>2, <3>4, ListFacts, FoundNotGone
    <3>6. /\ Named(c, 1, loc[c].next) /\ Shown(c, 1)
          /\ Gone(loc[c].next, view[c], L) \/ Spared(c, 1, loc[c].next)
      BY <1>1, <1>10, <3>1, <3>5 DEF QueueInv, HazardInv, HazardAt
    <3>7. Guards(c, 1, L[j + 1]) /\ Slot(c, 1) \in Slots
      BY <3>1, <3>5, <3>6, SlotsHas DEF Guards
    <3>8. Guards(c, 1, L[j + 1])'
      BY <1>1, <1>3, <1>5, <3>7, QuietGuards
    <3>9. L[j + 1] = loc'[c].next
      BY <1>7, <3>1
    <3>10. Named(c, 1, loc[c].next)' /\ Shown(c, 1)'
      BY <3>8, <3>9 DEF Guards, Named
    <3>11. Spared(c, 1, loc[c].next)'
      BY <3>8, <3>9 DEF Guards, Spared
    <3>12. Guards(c, 1, loc[c].next)'
      BY <3>10, <3>11 DEF Guards
    <3> QED BY <1>6, <1>10, <2>1, <3>12 DEF HazardAt, OwnSlots
  <2>2. CASE to # "value"
    BY <1>2, <1>6, <1>10, <2>2, HazardNone
  <2> QED BY <2>1, <2>2
<1> QED BY <1>1, <1>6, <1>9, <1>10 DEF ThreadAt

\* consumed.fetch_add(1).
LEMMA CountInv ==
  ASSUME NEW L, QueueInv(L), NEW c \in Consumers, Count(c), setup' = setup
  PROVE  QueueInv(L)'
<1>1. /\ MemInv /\ TypeInv /\ HazardInv(L) /\ pc' = [pc EXCEPT ![c] = "idle"]
      /\ Update(c, consumed, Newest(consumed).val + 1, "relaxed")
      /\ loc' = [loc EXCEPT ![c] = NoLocals]
      /\ c \in Threads /\ c \notin Producers
      /\ sent' = sent /\ got' = got /\ UNCHANGED hpVars
  <2>1. c \in Threads
    BY DEF Threads
  <2> QED BY <2>1, Roles DEF QueueInv, Count, Goto, suiteVars
<1>2. consumed \in Locs /\ Len(mem[consumed]) >= 1 /\ Len(mem[consumed]) \in Nat
  BY <1>1, LocFacts, ViewBounds DEF Started
<1>3. PICK v : v = Newest(consumed).val + 1
  OBVIOUS
<1>4. v \in Nat /\ v \in Values
  <2>1. Len(mem[consumed]) \in 1 .. Len(mem[consumed])
    BY <1>2
  <2>2. Newest(consumed).val \in Nat
    BY <1>1, <2>1 DEF TypeInv, Newest
  <2> QED BY <1>3, <2>2 DEF Values
<1>5. MemInv' /\ Later /\ Stored(c, consumed, v, "relaxed", Newest(consumed).at)
  BY <1>1, <1>2, <1>3, <1>4, UpdateStep
<1>6. PICK w \in Writes : Wrote(c, consumed, w) /\ w.val = v
  BY <1>5 DEF Stored
<1>7. /\ Len(mem'[consumed]) = Len(mem[consumed]) + 1
      /\ mem'[consumed][Len(mem[consumed]) + 1] = w
      /\ \A i \in 1 .. Len(mem[consumed]) : mem'[consumed][i] = mem[consumed][i]
      /\ \A l \in Locs : l # consumed => mem'[l] = mem[l]
  BY <1>6 DEF Wrote
<1>8. ASSUME NEW i \in 1 .. Len(mem'[consumed]) PROVE mem'[consumed][i].val \in Nat
  <2>1. i = Len(mem[consumed]) + 1 \/ i \in 1 .. Len(mem[consumed])
    BY <1>2, <1>7
  <2> QED BY <1>1, <1>4, <1>6, <1>7, <2>1 DEF TypeInv
<1>9. PICK x : x = NoLocals
  OBVIOUS
<1>10. x \in Locals
  BY <1>9 DEF NoLocals, Locals, Words
<1>11. /\ TypeInv' /\ pc'[c] = "idle" /\ loc'[c] = x
       /\ \A u \in Threads : u # c => pc'[u] = pc[u] /\ loc'[u] = loc[u]
  <2>1. "idle" \in CLabels \ {"slots", "free"} /\ loc' = [loc EXCEPT ![c] = x]
    BY <1>1, <1>9 DEF CLabels
  <2> QED BY <1>1, <1>8, <1>10, <2>1, TypeStep
<1>12. /\ \A l \in Slots : mem'[l] = mem[l]
       /\ \A l \in Nodes \cup {head_, tail_} : mem'[l] = mem[l]
  BY <1>7, LocFacts
<1>13. OthersStay(c) /\ ~Scanning(c)'
  BY <1>11, <1>12 DEF OthersStay, Scanning
<1>14. ConsumerAt(c, L)'
  BY <1>11 DEF ConsumerAt
<1>15. ASSUME setup.hp PROVE HazardAt(c, L)'
  <2>1. OwnSlots(c)
    BY <1>1, <1>15 DEF HazardInv, HazardAt, OwnSlots
  <2>2. OwnSlots(c)'
    BY <1>1, <1>5, <1>12, <2>1, OwnSlotsKept
  <2> QED BY <1>11, <2>2, HazardNone
<1> QED BY <1>1, <1>5, <1>11, <1>12, <1>13, <1>14, <1>15, PlainStep

\* What slot s of u spares, when consumer c retires, scans or frees.
LEMMA SparedStep ==
  ASSUME MemInv, MemInv', Later, NEW c \in Consumers, NEW u \in Threads,
         NEW s \in {0, 1}, Slot(u, s) \in Slots,
         mem'[Slot(u, s)] = mem[Slot(u, s)], NEW n, Spared(u, s, n),
         \A d \in Consumers : d # c =>
           /\ pc'[d] = pc[d] /\ bag'[d] = bag[d] /\ todo'[d] = todo[d]
           /\ hz'[d] = hz[d],
         n \notin freed',
         Scanning(c)' /\ n \in bag'[c] =>
           /\ view'[c][Slot(u, s)] >= Len(mem[Slot(u, s)])
           /\ Slot(u, s) \notin todo'[c] => n \in hz'[c]
  PROVE  Spared(u, s, n)'
<1>1. ASSUME NEW d \in Consumers, Scanning(d)', n \in bag'[d]
      PROVE  /\ view'[d][Slot(u, s)] >= Len(mem'[Slot(u, s)])
             /\ Slot(u, s) \notin todo'[d] => n \in hz'[d]
  <2>1. CASE d = c
    BY <1>1, <2>1
  <2>2. CASE d # c
    <3>1. /\ pc'[d] = pc[d] /\ bag'[d] = bag[d] /\ todo'[d] = todo[d]
          /\ hz'[d] = hz[d]
      BY <2>2
    <3>2. /\ view[d][Slot(u, s)] >= Len(mem[Slot(u, s)])
          /\ Slot(u, s) \notin todo[d] => n \in hz[d]
      BY <1>1, <3>1 DEF Spared, Scanning
    <3>3. Slot(u, s) \in Locs /\ d \in Threads
      BY LocFacts DEF Threads
    <3>4. /\ view[d][Slot(u, s)] <= view'[d][Slot(u, s)]
          /\ view[d][Slot(u, s)] \in Nat /\ view'[d][Slot(u, s)] \in Nat
          /\ Len(mem[Slot(u, s)]) \in Nat
      BY <3>3, LaterFacts
    <3> QED BY <3>1, <3>2, <3>4
  <2> QED BY <2>1, <2>2
<1> QED BY <1>1 DEF Spared

\* A CAS that succeeds moves head_ to the node that follows, no further than
\* tail_ has got.
LEMMA HeadStep ==
  ASSUME NEW L, QueueInv(L), NEW c \in Consumers, NEW h, NEW m,
         Follows(c, h, m, L), HeadAt(c, h, 1, L),
         CAS(c, head_, h, m, "release"), sent' = sent,
         NEW k, k = Len(mem[head_])
  PROVE  /\ MemInv' /\ Later /\ ListInv(L)' /\ CarryInv(L)'
         /\ \A l \in Locs : l # head_ => mem'[l] = mem[l]
         /\ k \in Nat \ {0} /\ k + 1 \in 1 .. Len(L) /\ k + 1 \in 1 .. Len(mem'[head_])
         /\ h = L[k] /\ m = L[k + 1]
         /\ view'[c][head_] >= k + 1 /\ view'[c][tail_] >= k + 1
<1>1. MemInv /\ ListInv(L) /\ CarryInv(L) /\ c \in Threads
  BY DEF QueueInv, Threads
<1>2. PICK j \in 1 .. Len(L) - 1 : /\ h = L[j] /\ m = L[j + 1]
                                   /\ view[c][h] >= 2 /\ view[c][m] >= 1
  BY DEF Follows
<1>3. PICK i \in 1 .. Len(mem[head_]) : h = L[i] /\ view[c][tail_] >= i + 1
  BY DEF HeadAt
<1>4. /\ k \in Nat \ {0} /\ k \in 1 .. Len(L) /\ Len(L) \in Nat
      /\ Newest(head_).val = L[k] /\ Len(mem[tail_]) \in Nat
      /\ \A b \in 1 .. Len(L) : L[b] \in Nodes /\ L[b] \in Locs /\ L[b] # head_
      /\ head_ \in Locs /\ tail_ \in Locs /\ head_ # tail_
  BY <1>1, ListFacts, LocFacts
<1>5. j = k /\ i = k /\ j \in 1 .. Len(L)
  <2>1. h = L[k] /\ j \in 1 .. Len(L) /\ i \in 1 .. Len(L)
    <3>1. h = L[k]
      BY <1>4 DEF CAS
    <3> QED BY <1>1, <1>2, <1>3, <1>4, <3>1, ListFacts
  <2> QED BY <1>1, <1>2, <1>3, <1>4, <2>1, ListFacts, ZenonT(40)
<1>6. /\ k + 1 \in 1 .. Len(L) /\ h = L[k] /\ m = L[k + 1] /\ m \in Locs /\ m \in Values
      /\ view[c][tail_] >= k + 1 /\ view[c][tail_] \in Nat
      /\ view[c][tail_] <= Len(mem[tail_])
  <2>1. k + 1 \in 1 .. Len(L)
    BY <1>2, <1>4, <1>5
  <2>2. view[c][tail_] \in Nat /\ view[c][tail_] <= Len(mem[tail_])
    BY <1>1, <1>4, ViewBounds
  <2> QED BY <1>2, <1>3, <1>4, <1>5, <2>1, <2>2 DEF Values, Words
<1>7. MemInv' /\ Later /\ Stored(c, head_, m, "release", Newest(head_).at)
  <2>1. Update(c, head_, m, "release") /\ Len(mem[head_]) >= 1
    BY <1>4 DEF CAS
  <2> QED BY <1>1, <1>4, <1>6, <2>1, UpdateStep
<1>8. PICK w \in Writes : Wrote(c, head_, w) /\ w.val = m /\ Below(view[c], w.at)
  BY <1>7 DEF Stored
<1>9. /\ Len(mem'[head_]) = k + 1 /\ mem'[head_][k + 1] = w
      /\ \A b \in 1 .. k : mem'[head_][b] = mem[head_][b]
      /\ \A l \in Locs : l # head_ => mem'[l] = mem[l]
      /\ view'[c][head_] = k + 1 /\ view'[c][tail_] = view[c][tail_]
  BY <1>4, <1>8 DEF Wrote
<1>10. /\ \A b \in 1 .. Len(L) : mem'[L[b]] = mem[L[b]]
       /\ mem'[tail_] = mem[tail_] /\ \A b \in Nodes : mem'[b] = mem[b]
  BY <1>4, <1>9, LocFacts
<1>11. \A b \in 1 .. k + 1 : b = k + 1 \/ b \in 1 .. k
  BY <1>4
<1>12. ListInv(L)'
  <2>1. \A b : Made(b)' <=> Made(b)
    BY DEF Made
  <2>2. Len(mem'[head_]) \in 1 .. Len(mem'[tail_])
    BY <1>4, <1>6, <1>9, <1>10
  <2>3. \A b \in 1 .. Len(mem'[head_]) : mem'[head_][b].val = L[b]
    BY <1>1, <1>6, <1>8, <1>9, <1>11 DEF ListInv
  <2>4. \A b \in 1 .. Len(L) - 1 : /\ Len(mem'[L[b]]) = 2
                                   /\ mem'[L[b]][2].val = L[b + 1]
    <3>1. \A b \in 1 .. Len(L) - 1 : b \in 1 .. Len(L)
      BY <1>4
    <3> QED BY <1>1, <1>10, <3>1 DEF ListInv
  <2>5. Len(mem'[L[Len(L)]]) = 1
    BY <1>1, <1>4, <1>10 DEF ListInv
  <2> QED BY <1>1, <1>10, <2>1, <2>2, <2>3, <2>4, <2>5 DEF ListInv
<1>13. CarryInv(L)'
  <2>1. w.at[L[k + 1]] >= 1 /\ w.at[tail_] >= k + 1
    <3>1. w.at \in Views /\ view[c] \in Views
      BY <1>1, MemTypes DEF Writes
    <3>2. /\ view[c][m] <= w.at[m] /\ view[c][m] \in Nat /\ w.at[m] \in Nat
          /\ view[c][tail_] <= w.at[tail_] /\ w.at[tail_] \in Nat
      BY <1>4, <1>6, <1>8, <3>1 DEF Below, Views
    <3> QED BY <1>2, <1>4, <1>6, <3>2, SMTT(30)
  <2>2. ASSUME NEW b \in 1 .. k
        PROVE  mem'[head_][b].at[L[b]] >= 1 /\ mem'[head_][b].at[tail_] >= b
    BY <1>1, <1>9 DEF CarryInv
  <2>3. \A b \in 1 .. Len(mem'[head_]) :
          mem'[head_][b].at[L[b]] >= 1 /\ mem'[head_][b].at[tail_] >= b
    BY <1>9, <1>11, <2>1, <2>2
  <2>4. \A b \in 1 .. Len(L) - 1 : mem'[L[b]] = mem[L[b]]
    BY <1>4, <1>10
  <2> QED BY <1>1, <1>10, <2>3, <2>4 DEF CarryInv
<1> QED BY <1>4, <1>6, <1>7, <1>9, <1>12, <1>13

\* What is dequeued is new to all consumers, and comes after what c has.
LEMMA GotStep ==
  ASSUME NEW L, QueueInv(L), NEW c \in Consumers, MemInv', Later,
         NEW k, k = Len(mem[head_]), k + 1 \in 1 .. Len(L),
         k + 1 \in 1 .. Len(mem'[head_]),
         got' = [got EXCEPT ![c] = Append(@, L[k + 1])]
  PROVE  GotInv(L)' /\ got' \in [Consumers -> Seq(Nodes)]
<1>1. MemInv /\ TypeInv /\ ListInv(L) /\ GotInv(L) /\ Longer(L, L)
  BY LongerSelf DEF QueueInv
<1>2. /\ L[k + 1] \in Nodes /\ k \in Nat /\ \A d \in Consumers : got[d] \in Seq(Nodes)
      /\ k \in 1 .. Len(L)
  BY <1>1, ListFacts DEF TypeInv
<1>3. PICK e : e = L[k + 1]
  OBVIOUS
<1>4. /\ got' \in [Consumers -> Seq(Nodes)] /\ Len(got'[c]) = Len(got[c]) + 1
      /\ got'[c][Len(got[c]) + 1] = e
      /\ \A a \in 1 .. Len(got[c]) : got'[c][a] = got[c][a]
      /\ \A d \in Consumers : d # c => got'[d] = got[d]
  <2>1. /\ Append(got[c], e) \in Seq(Nodes)
        /\ Len(Append(got[c], e)) = Len(got[c]) + 1
        /\ Append(got[c], e)[Len(got[c]) + 1] = e
        /\ \A a \in 1 .. Len(got[c]) : Append(got[c], e)[a] = got[c][a]
    BY <1>2, <1>3, Appended
  <2>2. /\ got'[c] = Append(got[c], e) /\ got' \in [Consumers -> Seq(Nodes)]
        /\ \A d \in Consumers : d # c => got'[d] = got[d]
    BY <1>1, <1>3, <2>1 DEF TypeInv
  <2> QED BY <2>1, <2>2
<1>5. ASSUME NEW d \in Consumers, NEW a \in 1 .. Len(got[d])
      PROVE  \E i \in 1 .. k : got[d][a] = L[i]
  BY <1>1 DEF GotInv, Met
<1>6. ASSUME NEW i \in 1 .. k PROVE Before(L[i], e) /\ L[i] # e
  <2>1. i \in 1 .. Len(L) /\ i < k + 1
    BY <1>1, <1>2, ListFacts
  <2> QED BY <1>1, <1>3, <2>1 DEF ListInv, Before
<1>7. ASSUME NEW a \in 1 .. Len(got'[c])
      PROVE  a = Len(got[c]) + 1 \/ a \in 1 .. Len(got[c])
  <2>1. Len(got[c]) \in Nat
    BY <1>2
  <2> QED BY <1>4, <2>1
<1>8. ASSUME NEW d \in Consumers, NEW a \in 1 .. Len(got'[d])
      PROVE  Met(head_, got[d][a], L)'
  <2>1. CASE d = c /\ a = Len(got[c]) + 1
    BY <1>3, <1>4, <2>1 DEF Met
  <2>2. CASE ~(d = c /\ a = Len(got[c]) + 1)
    <3>1. a \in 1 .. Len(got[d]) /\ got'[d][a] = got[d][a]
      BY <1>4, <1>7, <2>2
    <3>2. PICK n : n = got[d][a]
      OBVIOUS
    <3>3. Met(head_, n, L)'
      BY <1>1, <3>1, <3>2, MetGrows DEF GotInv
    <3> QED BY <3>1, <3>2, <3>3 DEF Met
  <2> QED BY <2>1, <2>2
<1>9. \A d \in Consumers : DOMAIN got'[d] = 1 .. Len(got'[d])
                           /\ DOMAIN got[d] = 1 .. Len(got[d])
  BY <1>2, <1>4
<1>10. ASSUME NEW d \in Consumers, NEW i \in DOMAIN got'[d], NEW j \in DOMAIN got'[d],
              i < j, got'[d][i][1] = got'[d][j][1]
       PROVE  got'[d][i][2] < got'[d][j][2]
  <2>0. /\ i \in 1 .. Len(got'[d]) /\ j \in 1 .. Len(got'[d])
        /\ Len(got[d]) \in Nat
    BY <1>2, <1>9
  <2>1. CASE d # c
    BY <1>1, <1>4, <1>10, <2>1 DEF GotInv, ExactlyOnceInOrder
  <2>2. CASE d = c /\ j \in 1 .. Len(got[c])
    <3>1. i \in 1 .. Len(got[c])
      BY <1>10, <2>0, <2>2
    <3>2. got'[c][i] = got[c][i] /\ got'[c][j] = got[c][j]
      BY <1>4, <2>2, <3>1
    <3>3. i \in DOMAIN got[c] /\ j \in DOMAIN got[c]
      BY <1>9, <2>2, <3>1
    <3> QED BY <1>1, <1>10, <2>2, <3>2, <3>3 DEF GotInv, ExactlyOnceInOrder
  <2>3. CASE d = c /\ j = Len(got[c]) + 1
    <3>1. i \in 1 .. Len(got[c])
      BY <1>10, <2>0, <2>3
    <3>2. PICK b \in 1 .. k : got[c][i] = L[b]
      BY <1>5, <3>1
    <3>3. got'[c][i] = L[b] /\ got'[c][j] = e
      BY <1>4, <2>3, <3>1, <3>2
    <3>4. Before(L[b], e)
      BY <1>6
    <3> QED BY <1>10, <2>3, <3>3, <3>4 DEF Before
  <2> QED BY <1>7, <2>0, <2>1, <2>2, <2>3
<1>11. ASSUME NEW d \in Consumers, d # c PROVE Range(got'[c]) \cap Range(got'[d]) = {}
  <2>1. ASSUME NEW v, v \in Range(got'[c]), v \in Range(got'[d]) PROVE FALSE
    <3>1. PICK a \in 1 .. Len(got'[c]) : v = got'[c][a]
      BY <1>9, <2>1 DEF Range
    <3>2. PICK b \in 1 .. Len(got[d]) : v = got[d][b]
      <4>1. got'[d] = got[d] /\ DOMAIN got[d] = 1 .. Len(got[d])
        BY <1>4, <1>9, <1>11
      <4>2. PICK b \in DOMAIN got'[d] : v = got'[d][b]
        BY <2>1 DEF Range
      <4> QED BY <4>1, <4>2
    <3>3. CASE a = Len(got[c]) + 1
      <4>1. v = e
        BY <1>4, <3>1, <3>3
      <4>2. PICK i \in 1 .. k : got[d][b] = L[i]
        BY <1>5
      <4> QED BY <1>6, <3>2, <4>1, <4>2
    <3>4. CASE a \in 1 .. Len(got[c])
      <4>1. v \in Range(got[c]) /\ v \in Range(got[d])
        BY <1>4, <1>9, <3>1, <3>2, <3>4 DEF Range
      <4> QED BY <1>1, <1>11, <4>1 DEF GotInv, ExactlyOnceInOrder
    <3> QED BY <1>7, <3>1, <3>3, <3>4
  <2> QED BY <2>1
<1>12. ASSUME NEW d1 \in Consumers, NEW d2 \in Consumers, d1 # d2
       PROVE  Range(got'[d1]) \cap Range(got'[d2]) = {}
  <2>1. CASE d1 = c
    BY <1>11, <1>12, <2>1
  <2>2. CASE d2 = c
    BY <1>11, <1>12, <2>2
  <2>3. CASE d1 # c /\ d2 # c
    BY <1>1, <1>4, <1>12, <2>3 DEF GotInv, ExactlyOnceInOrder
  <2> QED BY <2>1, <2>2, <2>3
<1>13. ExactlyOnceInOrder'
  BY <1>10, <1>12 DEF ExactlyOnceInOrder
<1> QED BY <1>4, <1>8, <1>13 DEF GotInv

\* What is retired is out of the retirer's sight.
LEMMA RetireStep ==
  ASSUME NEW L, QueueInv(L), NEW c \in Consumers, MemInv', Later, NEW h \in Nodes,
         Gone(h, view'[c], L), ~Scanning(c)', setup' = setup, freed' = freed,
         \/ bag' = [bag EXCEPT ![c] = @ \cup {h}] /\ setup.hp
         \/ bag' = bag,
         \A d \in Consumers : d # c => pc'[d] = pc[d]
  PROVE  /\ RetiredInv(L)' /\ bag' \in [Consumers -> SUBSET Nodes]
         /\ \A d \in Consumers : d # c => bag'[d] = bag[d]
<1>1. MemInv /\ TypeInv /\ ListInv(L) /\ RetiredInv(L) /\ Longer(L, L)
  BY LongerSelf DEF QueueInv
<1>2. /\ bag' \in [Consumers -> SUBSET Nodes]
      /\ \A d \in Consumers : d # c => bag'[d] = bag[d]
      /\ \A n \in bag'[c] : n = h \/ n \in bag[c]
      /\ ~setup.hp => bag' = bag
  BY <1>1, ZenonT(40) DEF TypeInv
<1>3. Below(sc, sc') /\ sc \in Views /\ sc' \in Views
  BY <1>1, MemTypes DEF Later, MemInv, Within
<1>4. ASSUME NEW d \in Consumers
      PROVE  Below(view[d], view'[d]) /\ view[d] \in Views /\ view'[d] \in Views
  BY <1>1, MemTypes DEF Later, MemInv, Threads
<1>5. ASSUME NEW n, Gone(n, sc, L) PROVE Gone(n, sc', L)
  BY <1>1, <1>3, <1>5, GoneGrows
<1>6. ASSUME NEW d \in Consumers, NEW n, Gone(n, view[d], L) PROVE Gone(n, view'[d], L)
  BY <1>1, <1>4, <1>6, GoneGrows
<1>7. ASSUME NEW d \in Consumers, NEW n \in bag'[d]
      PROVE  Gone(n, view'[d], L) /\ (Scanning(d)' => Gone(n, sc', L))
  <2>1. CASE d = c
    BY <1>1, <1>2, <1>6, <1>7, <2>1 DEF RetiredInv
  <2>2. CASE d # c
    <3>1. n \in bag[d] /\ (Scanning(d)' => Scanning(d))
      BY <1>2, <1>7, <2>2 DEF Scanning
    <3> QED BY <1>1, <1>5, <1>6, <3>1 DEF RetiredInv
  <2> QED BY <2>1, <2>2
<1>8. ASSUME NEW n \in freed' PROVE Gone(n, sc', L)
  BY <1>1, <1>5, <1>8 DEF RetiredInv
<1>9. \A n : Gone(n, sc, L)' <=> Gone(n, sc', L)
  BY DEF Gone
<1>10. \A n : \A d \in Consumers : Gone(n, view[d], L)' <=> Gone(n, view'[d], L)
  BY DEF Gone
<1>11. ~setup'.hp => freed' = {} /\ \A d \in Consumers : bag'[d] = {}
  BY <1>1, <1>2 DEF RetiredInv
<1>12. RetiredInv(L)'
  BY <1>7, <1>8, <1>9, <1>10, <1>11 DEF RetiredInv
<1> QED BY <1>2, <1>12

\* The CAS of head_ that takes the value, and retire(head).
LEMMA ValueInv ==
  ASSUME NEW L, QueueInv(L), NEW c \in Consumers, Value(c), setup' = setup
  PROVE  QueueInv(L)'
<1>1. /\ MemInv /\ TypeInv /\ ListInv(L) /\ HazardInv(L)
      /\ c \in Threads /\ c \notin Producers /\ Longer(L, L)
      /\ pc[c] = "value" /\ ConsumerAt(c, L)
      /\ UNCHANGED <<sent, deleted, todo, hz, freed>>
  <2>1. c \in Threads
    BY DEF Threads
  <2> QED BY <2>1, Roles, LongerSelf DEF QueueInv, Value, At
<1>2. CASE UNCHANGED <<memVars, loc, got, junk_, bag>> /\ Goto(c, "load")
  <2>1. MemInv' /\ Later /\ mem' = mem
    BY <1>1, <1>2, IdleStep
  <2>2. PICK x : x = loc[c] /\ x \in Locals /\ loc' = [loc EXCEPT ![c] = x]
    BY <1>1, <1>2, LocalTypes DEF TypeInv
  <2>3. UNCHANGED <<suiteVars, hpVars>>
    BY <1>1, <1>2 DEF suiteVars, hpVars
  <2>4. Moves(c, "load", x)
    BY <1>1, <1>2, <2>2, <2>3 DEF Moves, CLabels, Goto
  <2>5. /\ pc'[c] = "load" /\ (ThreadAt(c, L)' => QueueInv(L)')
        /\ setup.hp => OwnSlots(c)'
    BY <1>1, <2>1, <2>4, QuietMove
  <2>6. ConsumerAt(c, L)'
    BY <2>5 DEF ConsumerAt
  <2>7. setup.hp => HazardAt(c, L)'
    BY <2>5, HazardNone
  <2> QED BY <1>1, <2>5, <2>6, <2>7 DEF ThreadAt
<1>3. CASE /\ Take(c) /\ Goto(c, IF setup.hp THEN "clear0" ELSE "count")
           /\ Set(c, "n", loc[c].next)
           /\ got' = [got EXCEPT ![c] = Append(@, loc[c].next)]
           /\ IF setup.hp THEN /\ bag' = [bag EXCEPT ![c] = @ \cup {loc[c].head}]
                               /\ UNCHANGED junk_
                          ELSE junk_' = junk_ \cup {loc[c].head} /\ UNCHANGED bag
  <2>1. PICK k, h, m, to : /\ k = Len(mem[head_]) /\ h = loc[c].head
                           /\ m = loc[c].next
                           /\ to = IF setup.hp THEN "clear0" ELSE "count"
    OBVIOUS
  <2>2. Follows(c, h, m, L) /\ HeadAt(c, h, 1, L)
    BY <1>1, <2>1 DEF ConsumerAt
  <2>3. CAS(c, head_, h, m, "release")
    BY <1>3, <2>1 DEF Take
  <2>4. /\ MemInv' /\ Later /\ ListInv(L)' /\ CarryInv(L)'
        /\ \A l \in Locs : l # head_ => mem'[l] = mem[l]
        /\ k \in Nat \ {0} /\ k + 1 \in 1 .. Len(L) /\ k + 1 \in 1 .. Len(mem'[head_])
        /\ h = L[k] /\ m = L[k + 1]
        /\ view'[c][head_] >= k + 1 /\ view'[c][tail_] >= k + 1
    BY <1>1, <2>1, <2>2, <2>3, HeadStep
  <2>5. /\ k \in 1 .. Len(L) /\ h \in Nodes /\ m \in Nodes /\ m \in Words
    BY <1>1, <2>4, ListFacts DEF Words
  <2>6. GotInv(L)' /\ got' \in [Consumers -> Seq(Nodes)]
    <3>1. got' = [got EXCEPT ![c] = Append(@, L[k + 1])]
      BY <1>3, <2>1, <2>4
    <3> QED BY <2>1, <2>4, <3>1, GotStep
  <2>7. PICK y \in Locals : loc' = [loc EXCEPT ![c] = y]
    <3>1. Set(c, "n", m)
      BY <1>3, <2>1
    <3> QED BY <1>1, <2>5, <3>1, SetStep
  <2>8. /\ pc' = [pc EXCEPT ![c] = to] /\ to \in {"clear0", "count"}
        /\ pc'[c] = to /\ \A u \in Threads : u # c => pc'[u] = pc[u]
    BY <1>1, <1>3, <2>1 DEF Goto, TypeInv
  <2>9. Gone(h, view'[c], L)
    BY <2>4, <2>5 DEF Gone
  <2>10. /\ RetiredInv(L)' /\ bag' \in [Consumers -> SUBSET Nodes]
         /\ \A d \in Consumers : d # c => bag'[d] = bag[d]
    <3>1. ~Scanning(c)'
      BY <2>8 DEF Scanning
    <3>2. \/ bag' = [bag EXCEPT ![c] = @ \cup {h}] /\ setup.hp
          \/ bag' = bag
      BY <1>3, <2>1
    <3>3. \A d \in Consumers : d # c => pc'[d] = pc[d]
      BY <2>8 DEF Threads
    <3> QED BY <1>1, <2>4, <2>5, <2>9, <3>1, <3>2, <3>3, RetireStep
  <2>11. \A l \in Slots \cup {consumed} \cup Nodes : mem'[l] = mem[l]
    BY <2>4, LocFacts
  <2>12. /\ TypeInv' /\ pc'[c] = to /\ loc'[c] = y
         /\ \A u \in Threads : u # c => pc'[u] = pc[u] /\ loc'[u] = loc[u]
    <3>1. /\ sent' \in [Producers -> Nat]
          /\ freed' \in SUBSET Nodes /\ todo' \in [Consumers -> SUBSET Slots]
          /\ hz' \in [Consumers -> SUBSET Values] /\ todo' = todo
          /\ \A i \in 1 .. Len(mem'[consumed]) : mem'[consumed][i].val \in Nat
      BY <1>1, <2>11 DEF TypeInv
    <3>2. to \in CLabels /\ to # "slots" /\ to # "free"
      BY <2>8 DEF CLabels
    <3> QED BY <1>1, <2>6, <2>7, <2>8, <2>10, <3>1, <3>2, TypeAny
  <2>13. OthersStay(c)
    BY <2>11, <2>12 DEF OthersStay
  <2>14. ASSUME NEW u \in Threads PROVE Keeps(u)
    <3>1. ASSUME NEW s \in {0, 1}, NEW n, Slot(u, s) \in Slots, Guards(u, s, n)
          PROVE  Spared(u, s, n)'
      <4>1. Spared(u, s, n) /\ mem'[Slot(u, s)] = mem[Slot(u, s)]
        BY <2>11, <3>1 DEF Guards
      <4>2. \A d \in Consumers : d # c =>
              /\ pc'[d] = pc[d] /\ bag'[d] = bag[d] /\ todo'[d] = todo[d]
              /\ hz'[d] = hz[d]
        BY <1>1, <2>8, <2>10 DEF Threads
      <4>3. n \notin freed' /\ ~Scanning(c)'
        BY <1>1, <2>8, <4>1 DEF Spared, Scanning
      <4> QED BY <1>1, <2>4, <3>1, <4>1, <4>2, <4>3, SparedStep
    <3> QED BY <3>1 DEF Keeps
  <2>15. ASSUME NEW p \in Producers
         PROVE  /\ sent'[p] = sent[p]
                /\ Fresh(p, L) => /\ Len(mem'[loc[p].n]) = 1
                                  /\ \A j \in 1 .. Len(L) : L[j] # loc[p].n
    BY <1>1, <2>11 DEF Fresh
  <2>16. ConsumerAt(c, L)'
    BY <2>8 DEF ConsumerAt
  <2>17. ASSUME setup.hp PROVE HazardAt(c, L)'
    <3>1. OwnSlots(c)
      BY <1>1, <2>17 DEF HazardInv, HazardAt, OwnSlots
    <3>2. OwnSlots(c)'
      BY <1>1, <2>4, <2>11, <3>1, OwnSlotsKept
    <3> QED BY <2>8, <3>2, HazardNone
  <2> QED BY <1>1, <2>4, <2>6, <2>10, <2>12, <2>13, <2>14, <2>15, <2>16, <2>17,
             Assemble
<1> QED BY <1>2, <1>3 DEF Value

\* What consumer c's scan does to a node that slot s of u guards.
Passes(c, u, s, n) ==
  /\ n \notin freed'
  /\ Scanning(c)' /\ n \in bag'[c] =>
       /\ view'[c][Slot(u, s)] >= Len(mem[Slot(u, s)])
       /\ Slot(u, s) \notin todo'[c] => n \in hz'[c]

\* The bags and scans of the other consumers are as they were.
OtherBags(c) ==
  \A d \in Consumers : d # c =>
    pc'[d] = pc[d] /\ bag'[d] = bag[d] /\ todo'[d] = todo[d] /\ hz'[d] = hz[d]

DomainTypes ==
  /\ bag \in [Consumers -> SUBSET Nodes] /\ freed \in SUBSET Nodes
  /\ todo \in [Consumers -> SUBSET Slots] /\ hz \in [Consumers -> SUBSET Values]

\* The invariant after a step of c's scan.
LEMMA ScanStep ==
  ASSUME NEW L, QueueInv(L), NEW c \in Consumers, MemInv', Later, mem' = mem,
         setup' = setup, loc' = loc, UNCHANGED suiteVars,
         NEW to \in {"slots", "free", "idle"}, pc' = [pc EXCEPT ![c] = to],
         DomainTypes', OtherBags(c), to = "slots" => todo'[c] # {},
         to = "free" => todo'[c] = {}, RetiredInv(L)',
         setup.hp => \A u \in Threads : \A s \in {0, 1} : \A n :
           Slot(u, s) \in Slots /\ Guards(u, s, n) => Passes(c, u, s, n)
  PROVE  QueueInv(L)'
<1>1. /\ MemInv /\ TypeInv /\ HazardInv(L) /\ c \in Threads /\ c \notin Producers
      /\ sent' = sent /\ got' = got
  <2>1. c \in Threads
    BY DEF Threads
  <2> QED BY <2>1, Roles DEF QueueInv, suiteVars
<1>2. PICK x : x = loc[c] /\ x \in Locals /\ loc' = [loc EXCEPT ![c] = x]
  BY <1>1, LocalTypes DEF TypeInv
<1>3. /\ TypeInv' /\ pc'[c] = to /\ loc'[c] = x
      /\ \A u \in Threads : u # c => pc'[u] = pc[u] /\ loc'[u] = loc[u]
  <2>1. /\ sent' \in [Producers -> Nat] /\ got' \in [Consumers -> Seq(Nodes)]
        /\ \A i \in 1 .. Len(mem'[consumed]) : mem'[consumed][i].val \in Nat
    BY <1>1 DEF TypeInv
  <2>2. /\ bag' \in [Consumers -> SUBSET Nodes] /\ freed' \in SUBSET Nodes
        /\ todo' \in [Consumers -> SUBSET Slots]
        /\ hz' \in [Consumers -> SUBSET Values]
    BY DEF DomainTypes
  <2>3. to \in CLabels /\ \A d \in Consumers : d # c => todo'[d] = todo[d]
    BY DEF CLabels, OtherBags
  <2>4. /\ pc' \in [Threads -> PLabels \cup CLabels] /\ pc'[c] = to
        /\ \A u \in Threads : u # c => pc'[u] = pc[u]
    BY <1>1, <2>3 DEF TypeInv
  <2>5. ASSUME NEW p \in Producers PROVE pc'[p] \in PLabels
    BY <1>1, <2>4 DEF TypeInv, Threads
  <2>6. ASSUME NEW d \in Consumers
        PROVE  /\ pc'[d] \in CLabels /\ (pc'[d] = "slots" => todo'[d] # {})
               /\ (pc'[d] = "free" => todo'[d] = {})
    <3>1. CASE d = c
      BY <2>3, <2>4, <3>1
    <3>2. CASE d # c
      BY <1>1, <2>3, <2>4, <3>2 DEF TypeInv, Threads
    <3> QED BY <3>1, <3>2
  <2>7. TypeInv'
    BY <1>1, <2>1, <2>2, <2>4, <2>5, <2>6 DEF TypeInv
  <2> QED BY <1>2, <2>4, <2>7
<1>4. OthersStay(c)
  BY <1>3 DEF OthersStay
<1>5. ConsumerAt(c, L)'
  BY <1>3 DEF ConsumerAt
<1>6. ASSUME setup.hp, NEW u \in Threads PROVE Keeps(u)
  <2>1. ASSUME NEW s \in {0, 1}, NEW n, Slot(u, s) \in Slots, Guards(u, s, n)
        PROVE  Spared(u, s, n)'
    <3>1. Spared(u, s, n) /\ mem'[Slot(u, s)] = mem[Slot(u, s)]
      BY <2>1 DEF Guards
    <3>2. Passes(c, u, s, n)
      BY <1>6, <2>1
    <3>3. /\ n \notin freed'
          /\ Scanning(c)' /\ n \in bag'[c] =>
               /\ view'[c][Slot(u, s)] >= Len(mem[Slot(u, s)])
               /\ Slot(u, s) \notin todo'[c] => n \in hz'[c]
      BY <3>2 DEF Passes
    <3>4. \A d \in Consumers : d # c =>
            /\ pc'[d] = pc[d] /\ bag'[d] = bag[d] /\ todo'[d] = todo[d]
            /\ hz'[d] = hz[d]
      BY DEF OtherBags
    <3> QED BY <1>1, <2>1, <3>1, <3>3, <3>4, SparedStep
  <2> QED BY <2>1 DEF Keeps
<1>7. ASSUME setup.hp PROVE HazardAt(c, L)'
  <2>1. OwnSlots(c)
    BY <1>1, <1>7 DEF HazardInv, HazardAt, OwnSlots
  <2>2. OwnSlots(c)'
    BY <1>1, <2>1, OwnSlotsKept
  <2> QED BY <1>3, <2>2, HazardNone
<1>8. \A l \in Nodes \cup {head_, tail_} : mem'[l] = mem[l]
  OBVIOUS
<1> QED BY <1>1, <1>3, <1>4, <1>5, <1>6, <1>7, <1>8, LocalStep

\* A scan begins at a fence, and frees what was retired before.
LEMMA ScanRetired ==
  ASSUME NEW L, QueueInv(L), NEW c \in Consumers, MemInv', Later, setup' = setup,
         OtherBags(c), bag'[c] \subseteq bag[c],
         \A n \in freed' : n \in freed \/ (Scanning(c) /\ n \in bag[c]),
         Scanning(c)' => Scanning(c) \/ Below(view[c], sc')
  PROVE  RetiredInv(L)'
<1>1. MemInv /\ TypeInv /\ ListInv(L) /\ RetiredInv(L) /\ Longer(L, L)
  BY LongerSelf DEF QueueInv
<1>2. Below(sc, sc') /\ sc \in Views /\ sc' \in Views
  BY <1>1, MemTypes DEF Later, MemInv, Within
<1>3. ASSUME NEW d \in Consumers
      PROVE  Below(view[d], view'[d]) /\ view[d] \in Views /\ view'[d] \in Views
  BY <1>1, MemTypes DEF Later, MemInv, Threads
<1>4. ASSUME NEW n, Gone(n, sc, L) PROVE Gone(n, sc', L)
  BY <1>1, <1>2, <1>4, GoneGrows
<1>5. ASSUME NEW d \in Consumers, NEW n, Gone(n, view[d], L) PROVE Gone(n, view'[d], L)
  BY <1>1, <1>3, <1>5, GoneGrows
<1>6. ASSUME NEW d \in Consumers, NEW n \in bag'[d]
      PROVE  Gone(n, view'[d], L) /\ (Scanning(d)' => Gone(n, sc', L))
  <2>1. CASE d = c
    <3>1. n \in bag[c] /\ Gone(n, view[c], L) /\ (Scanning(c) => Gone(n, sc, L))
      BY <1>1, <1>6, <2>1 DEF RetiredInv
    <3>2. ASSUME Scanning(c)' PROVE Gone(n, sc', L)
      <4>1. CASE Scanning(c)
        BY <1>4, <3>1, <4>1
      <4>2. CASE Below(view[c], sc')
        BY <1>1, <1>2, <1>3, <3>1, <4>2, GoneGrows
      <4> QED BY <3>2, <4>1, <4>2
    <3> QED BY <1>5, <2>1, <3>1, <3>2
  <2>2. CASE d # c
    <3>1. n \in bag[d] /\ (Scanning(d)' => Scanning(d))
      BY <1>6, <2>2 DEF Scanning, OtherBags
    <3> QED BY <1>1, <1>4, <1>5, <3>1 DEF RetiredInv
  <2> QED BY <2>1, <2>2
<1>7. ASSUME NEW n \in freed' PROVE Gone(n, sc', L)
  BY <1>1, <1>4, <1>7 DEF RetiredInv
<1>8. \A n : Gone(n, sc, L)' <=> Gone(n, sc', L)
  BY DEF Gone
<1>9. \A n : \A d \in Consumers : Gone(n, view[d], L)' <=> Gone(n, view'[d], L)
  BY DEF Gone
<1>10. ASSUME ~setup'.hp PROVE freed' = {} /\ \A d \in Consumers : bag'[d] = {}
  <2>1. freed = {} /\ \A d \in Consumers : bag[d] = {}
    BY <1>1, <1>10 DEF RetiredInv
  <2>2. ASSUME NEW d \in Consumers PROVE bag'[d] = {}
    <3>1. CASE d = c
      BY <2>1, <3>1
    <3>2. CASE d # c
      BY <2>1, <3>2 DEF OtherBags
    <3> QED BY <3>1, <3>2
  <2> QED BY <2>1, <2>2
<1> QED BY <1>6, <1>7, <1>8, <1>9, <1>10 DEF RetiredInv

\* The fence of scan.
LEMMA DrainInv ==
  ASSUME NEW L, QueueInv(L), NEW c \in Consumers, Drain(c), setup' = setup
  PROVE  QueueInv(L)'
<1>1. /\ MemInv /\ TypeInv /\ c \in Threads /\ Fence(c)
      /\ pc' = [pc EXCEPT ![c] = "slots"] /\ todo' = [todo EXCEPT ![c] = Slots]
      /\ loc' = loc /\ UNCHANGED suiteVars /\ bag' = bag /\ hz' = hz /\ freed' = freed
  BY DEF QueueInv, Drain, Goto, Threads
<1>2. /\ MemInv' /\ Later /\ mem' = mem /\ Below(view[c], sc') /\ view'[c] = sc'
  BY <1>1, FenceStep
<1>3. OtherBags(c) /\ todo'[c] = Slots /\ pc'[c] = "slots"
  BY <1>1 DEF OtherBags, TypeInv, Threads
<1>4. DomainTypes' /\ todo'[c] # {}
  <2>1. Slot(c, 0) \in Slots
    BY <1>1, SlotsHas
  <2> QED BY <1>1, <1>3, <2>1 DEF DomainTypes, TypeInv
<1>5. RetiredInv(L)'
  <2>1. /\ bag'[c] \subseteq bag[c]
        /\ \A n \in freed' : n \in freed \/ (Scanning(c) /\ n \in bag[c])
    BY <1>1
  <2> QED BY <1>2, <1>3, <2>1, ScanRetired
<1>6. ASSUME NEW u \in Threads, NEW s \in {0, 1}, NEW n,
             Slot(u, s) \in Slots, Guards(u, s, n)
      PROVE  Passes(c, u, s, n)
  <2>1. n \notin freed /\ sc[Slot(u, s)] >= Len(mem[Slot(u, s)])
    BY <1>6 DEF Guards, Spared, Shown
  <2>2. /\ sc[Slot(u, s)] <= sc'[Slot(u, s)] /\ sc[Slot(u, s)] \in Nat
        /\ sc'[Slot(u, s)] \in Nat /\ Len(mem[Slot(u, s)]) \in Nat
    BY <1>1, <1>2, <1>6, LocFacts, LaterFacts
  <2> QED BY <1>1, <1>2, <1>3, <1>6, <2>1, <2>2 DEF Passes
<1>7. PICK to : to = "slots"
  OBVIOUS
<1>8. /\ to \in {"slots", "free", "idle"} /\ pc' = [pc EXCEPT ![c] = to]
      /\ to = "slots" => todo'[c] # {}
      /\ to = "free" => todo'[c] = {}
  BY <1>1, <1>4, <1>7
<1> QED BY <1>1, <1>2, <1>3, <1>4, <1>5, <1>6, <1>8, ScanStep

\* The scan loads a slot.
LEMMA ScanSlotInv ==
  ASSUME NEW L, QueueInv(L), NEW c \in Consumers, ScanSlot(c), setup' = setup
  PROVE  QueueInv(L)'
<1>1. /\ MemInv /\ TypeInv /\ c \in Threads /\ Scanning(c) /\ todo[c] # {}
      /\ loc' = loc /\ UNCHANGED suiteVars /\ bag' = bag /\ freed' = freed
  BY DEF QueueInv, ScanSlot, At, Scanning, TypeInv, Threads
<1>2. PICK l : l = CHOOSE y \in todo[c] : TRUE
  OBVIOUS
<1>3. l \in todo[c] /\ l \in Slots /\ l \in Locs
  <2>1. l \in todo[c] /\ todo[c] \subseteq Slots
    BY <1>1, <1>2 DEF TypeInv
  <2> QED BY <2>1, LocFacts
<1>4. PICK i : /\ Load(c, l, i, "acquire")
               /\ hz' = [hz EXCEPT ![c] = @ \cup ({mem[l][i].val} \ {Null})]
               /\ todo' = [todo EXCEPT ![c] = @ \ {l}]
               /\ pc' = [pc EXCEPT ![c] = IF todo[c] = {l} THEN "free" ELSE "slots"]
  BY <1>2 DEF ScanSlot, Goto
<1>5. PICK to : to = IF todo[c] = {l} THEN "free" ELSE "slots"
  OBVIOUS
<1>6. /\ MemInv' /\ Later /\ mem' = mem
      /\ i \in 1 .. Len(mem[l]) /\ view[c][l] <= i
  <2>1. view[c][l] >= 1
    BY <1>1, <1>3, ViewBounds DEF Started
  <2> QED BY <1>1, <1>3, <1>4, <2>1, LoadStep
<1>7. /\ to \in {"slots", "free", "idle"} /\ pc' = [pc EXCEPT ![c] = to]
      /\ todo'[c] = todo[c] \ {l} /\ pc'[c] = to
      /\ hz'[c] = hz[c] \cup ({mem[l][i].val} \ {Null})
      /\ to = "slots" => todo'[c] # {}
      /\ to = "free" => todo'[c] = {}
  <2>1. /\ pc' = [pc EXCEPT ![c] = to] /\ pc'[c] = to
        /\ todo'[c] = todo[c] \ {l}
        /\ hz'[c] = hz[c] \cup ({mem[l][i].val} \ {Null})
    BY <1>1, <1>4, <1>5 DEF TypeInv
  <2> QED BY <1>3, <1>5, <2>1
<1>8. OtherBags(c)
  BY <1>1, <1>4 DEF OtherBags, TypeInv, Threads
<1>9. DomainTypes'
  <2>1. mem[l][i].val \in Values
    BY <1>1, <1>3, <1>6, MemTypes DEF Writes
  <2> QED BY <1>1, <1>4, <2>1 DEF DomainTypes, TypeInv
<1>10. RetiredInv(L)'
  <2>1. /\ bag'[c] \subseteq bag[c]
        /\ \A n \in freed' : n \in freed \/ (Scanning(c) /\ n \in bag[c])
    BY <1>1
  <2> QED BY <1>1, <1>6, <1>8, <2>1, ScanRetired
<1>11. ASSUME NEW u \in Threads, NEW s \in {0, 1}, NEW n,
              Slot(u, s) \in Slots, Guards(u, s, n)
       PROVE  Passes(c, u, s, n)
  <2>1. Spared(u, s, n) /\ Named(u, s, n) /\ n \notin freed'
    BY <1>1, <1>11 DEF Guards, Spared
  <2>2. ASSUME n \in bag'[c]
        PROVE  /\ view'[c][Slot(u, s)] >= Len(mem[Slot(u, s)])
               /\ Slot(u, s) \notin todo'[c] => n \in hz'[c]
    <3>1. /\ view[c][Slot(u, s)] >= Len(mem[Slot(u, s)])
          /\ Slot(u, s) \notin todo[c] => n \in hz[c]
      BY <1>1, <2>1, <2>2 DEF Spared
    <3>2. /\ view[c][Slot(u, s)] <= view'[c][Slot(u, s)]
          /\ view[c][Slot(u, s)] \in Nat /\ view'[c][Slot(u, s)] \in Nat
          /\ Len(mem[Slot(u, s)]) \in Nat
      BY <1>1, <1>6, <1>11, LocFacts, LaterFacts
    <3>3. n # Null
      BY <1>1, <2>2, NodeFacts DEF TypeInv
    <3>4. ASSUME Slot(u, s) = l PROVE n \in hz'[c]
      <4>1. i = Len(mem[l])
        BY <1>6, <3>1, <3>2, <3>4
      <4>2. mem[l][i].val = n
        BY <2>1, <3>4, <4>1 DEF Named, Newest
      <4> QED BY <1>7, <3>3, <4>2
    <3>5. ASSUME Slot(u, s) # l, Slot(u, s) \notin todo'[c] PROVE n \in hz'[c]
      BY <1>7, <3>1, <3>5
    <3> QED BY <3>1, <3>2, <3>4, <3>5
  <2> QED BY <2>1, <2>2 DEF Passes
<1> QED BY <1>1, <1>6, <1>7, <1>8, <1>9, <1>10, <1>11, ScanStep

\* What no slot named is freed.
LEMMA ScanFreeInv ==
  ASSUME NEW L, QueueInv(L), NEW c \in Consumers, ScanFree(c), setup' = setup
  PROVE  QueueInv(L)'
<1>1. /\ MemInv /\ TypeInv /\ c \in Threads /\ Scanning(c) /\ todo[c] = {}
      /\ UNCHANGED memVars /\ loc' = loc /\ UNCHANGED suiteVars /\ todo' = todo
      /\ pc' = [pc EXCEPT ![c] = "idle"] /\ freed' = freed \cup (bag[c] \ hz[c])
      /\ bag' = [bag EXCEPT ![c] = @ \cap hz[c]] /\ hz' = [hz EXCEPT ![c] = {}]
  BY DEF QueueInv, ScanFree, At, Goto, Scanning, TypeInv, Threads
<1>2. MemInv' /\ Later /\ mem' = mem
  BY <1>1, IdleStep
<1>3. OtherBags(c)
  BY <1>1 DEF OtherBags, TypeInv, Threads
<1>4. DomainTypes' /\ bag'[c] = bag[c] \cap hz[c] /\ pc'[c] = "idle"
  BY <1>1 DEF DomainTypes, TypeInv
<1>5. ~Scanning(c)'
  BY <1>4 DEF Scanning
<1>6. RetiredInv(L)'
  <2>1. /\ bag'[c] \subseteq bag[c]
        /\ \A n \in freed' : n \in freed \/ (Scanning(c) /\ n \in bag[c])
    BY <1>1, <1>4
  <2> QED BY <1>2, <1>3, <1>5, <2>1, ScanRetired
<1>7. ASSUME NEW u \in Threads, NEW s \in {0, 1}, NEW n,
             Slot(u, s) \in Slots, Guards(u, s, n)
      PROVE  Passes(c, u, s, n)
  <2>1. n \notin freed /\ (n \in bag[c] => n \in hz[c])
    BY <1>1, <1>7 DEF Guards, Spared
  <2> QED BY <1>1, <1>5, <2>1 DEF Passes
<1>8. PICK to : to = "idle"
  OBVIOUS
<1>9. /\ to \in {"slots", "free", "idle"} /\ pc' = [pc EXCEPT ![c] = to]
      /\ to = "slots" => todo'[c] # {}
      /\ to = "free" => todo'[c] = {}
  BY <1>1, <1>8
<1> QED BY <1>1, <1>2, <1>3, <1>4, <1>6, <1>7, <1>9, ScanStep

\* A step that changes nothing but what teardown deletes.
LEMMA StillInv ==
  ASSUME NEW L, QueueInv(L),
         UNCHANGED <<setup, memVars, pc, loc, sent, got, hpVars>>
  PROVE  QueueInv(L)'
<1>1. /\ mem' = mem /\ view' = view /\ seen' = seen /\ rel' = rel /\ sc' = sc
      /\ setup' = setup /\ pc' = pc /\ loc' = loc /\ sent' = sent /\ got' = got
      /\ bag' = bag /\ todo' = todo /\ hz' = hz /\ freed' = freed
  BY DEF memVars, hpVars
<1>2. MemInv' /\ Later
  BY IdleStep DEF QueueInv
<1>3. TypeInv'
  BY <1>1 DEF QueueInv, TypeInv
<1>4. Longer(L, L) /\ ListInv(L)' /\ CarryInv(L)'
  <2>1. MemInv /\ ListInv(L) /\ CarryInv(L)
    BY DEF QueueInv
  <2>2. \A l \in Nodes \cup {head_, tail_} : mem'[l] = mem[l]
    BY <1>1
  <2> QED BY <1>1, <1>2, <2>1, <2>2, ListFrame, LongerSelf
<1>5. GotInv(L)'
  <2>1. MemInv /\ ListInv(L) /\ GotInv(L)
    BY DEF QueueInv
  <2> QED BY <1>1, <1>2, <1>4, <2>1, GotFrame
<1>6. \A c \in Consumers : Scanning(c)' => Scanning(c)
  BY <1>1 DEF Scanning
<1>7. RetiredInv(L)'
  <2>1. MemInv /\ ListInv(L) /\ RetiredInv(L)
    BY DEF QueueInv
  <2> QED BY <1>1, <1>2, <1>4, <1>6, <2>1, RetiredFrame
<1>8. ASSUME NEW p \in Producers PROVE ProducerAt(p, L)'
  <2>1. ProducerAt(p, L) /\ p \in Threads
    BY DEF QueueInv, Threads
  <2> QED BY <1>1, <2>1 DEF ProducerAt, Fresh, Met, Follows
<1>9. ASSUME NEW c \in Consumers PROVE ConsumerAt(c, L)'
  <2>1. ConsumerAt(c, L)
    BY DEF QueueInv
  <2> QED BY <1>1, <2>1 DEF ConsumerAt, HeadAt, Met, Follows
<1>10. ASSUME setup.hp, NEW u \in Threads PROVE HazardAt(u, L)'
  <2>1. MemInv /\ TypeInv /\ ListInv(L) /\ HazardAt(u, L)
    BY <1>10 DEF QueueInv, HazardInv
  <2>2. \A s \in {0, 1} : Slot(u, s) \in Slots =>
          mem'[Slot(u, s)] = mem[Slot(u, s)]
    BY <1>1
  <2>3. Keeps(u)
    BY <1>2, <1>6, <2>1, <2>2, KeepsFrame
  <2>4. pc'[u] = pc[u] /\ loc'[u] = loc[u]
    BY <1>1
  <2> QED BY <1>2, <1>4, <2>1, <2>2, <2>3, <2>4, HazardFrame
<1> QED BY <1>1, <1>2, <1>3, <1>4, <1>5, <1>7, <1>8, <1>9, <1>10
        DEF QueueInv, HazardInv

-----------------------------------------------------------------------------
(* The invariant holds                                                     *)

Begin == [l \in Locs |-> IF l \in Started THEN 1 ELSE 0]
First == [l \in Started |-> CASE l = consumed         -> 0
                              [] l \in {head_, tail_} -> DummyNode
                              [] OTHER                -> Null]

\* Memory before the threads start.
LEMMA InitMem ==
  ASSUME Init
  PROVE  /\ MemInv
         /\ \A l \in Locs : Len(mem[l]) = IF l \in Started THEN 1 ELSE 0
         /\ mem[consumed][1].val = 0 /\ mem[head_][1].val = DummyNode
         /\ mem[tail_][1].val = DummyNode /\ mem[DummyNode][1].val = Null
         /\ \A l \in Started : mem[l][1].at = Begin
         /\ \A t \in Threads : view[t] = Begin
<1>1. MemInit(Threads, Locs, First)
  BY DEF Init, First, Started
<1>2. DOMAIN First = Started /\ Begin \in Views /\ Started \subseteq Locs
  BY LocFacts DEF First, Begin, Views
<1>3. /\ mem = [l \in Locs |-> IF l \in Started
                              THEN << [val |-> First[l], at |-> Begin] >>
                              ELSE << >>]
      /\ view = [t \in Threads |-> Begin] /\ seen = [t \in Threads |-> Begin]
      /\ rel = [t \in Threads |-> Begin] /\ sc = Begin
  BY <1>1, <1>2 DEF MemInit, Begin
<1>4. /\ First[consumed] = 0 /\ First[head_] = DummyNode /\ First[tail_] = DummyNode
      /\ First[DummyNode] = Null
  BY LocFacts DEF First, Started
<1>5. ASSUME NEW l \in Started PROVE First[l] \in Values
  <2>1. 0 \in Values /\ DummyNode \in Values /\ Null \in Values
    BY LocFacts DEF Values, Words
  <2> QED BY <2>1 DEF First
<1>6. ASSUME NEW l \in Started
      PROVE  /\ mem[l] \in Seq(Writes) /\ Len(mem[l]) = 1
             /\ mem[l][1].val = First[l] /\ mem[l][1].at = Begin
  <2>1. PICK w : w = [val |-> First[l], at |-> Begin]
    OBVIOUS
  <2>2. w \in Writes /\ w.val = First[l] /\ w.at = Begin
    BY <1>2, <1>5, <2>1 DEF Writes
  <2>3. mem[l] = <<w>>
    BY <1>2, <1>3, <2>1
  <2> QED BY <2>2, <2>3
<1>7. ASSUME NEW l \in Locs, l \notin Started
      PROVE  mem[l] \in Seq(Writes) /\ Len(mem[l]) = 0
  <2>1. mem[l] = << >>
    BY <1>3, <1>7
  <2> QED BY <2>1
<1>8. mem \in [Locs -> Seq(Writes)]
  <2>1. \A l \in Locs : mem[l] \in Seq(Writes)
    BY <1>6, <1>7
  <2>2. mem = [l \in Locs |-> mem[l]]
    BY <1>3
  <2> QED BY <2>1, <2>2
<1>9. Within(mem, Begin)
  <2>1. ASSUME NEW l \in Locs PROVE Begin[l] <= Len(mem[l])
    <3>1. CASE l \in Started
      <4>1. Len(mem[l]) = 1 /\ Begin[l] = 1
        BY <1>6, <3>1 DEF Begin
      <4> QED BY <4>1
    <3>2. CASE l \notin Started
      <4>1. Len(mem[l]) = 0 /\ Begin[l] = 0
        BY <1>7, <3>2 DEF Begin
      <4> QED BY <4>1
    <3> QED BY <3>1, <3>2
  <2> QED BY <1>2, <2>1 DEF Within
<1>10. Below(Begin, Begin) /\ \A l \in Started : Begin[l] = 1
  BY <1>2 DEF Below, Begin
<1>11. ASSUME NEW l \in Locs, NEW i \in 1 .. Len(mem[l])
       PROVE  Within(mem, mem[l][i].at) /\ mem[l][i].at[l] = i
  <2>1. l \in Started
    <3>1. ASSUME l \notin Started PROVE FALSE
      <4>1. Len(mem[l]) = 0
        BY <1>7, <3>1
      <4> QED BY <4>1
    <3> QED BY <3>1
  <2>2. Len(mem[l]) = 1
    BY <1>6, <2>1
  <2>3. i = 1
    BY <2>2
  <2> QED BY <1>6, <1>9, <1>10, <2>1, <2>3
<1>12. \A t \in Threads : view[t] = Begin /\ seen[t] = Begin /\ rel[t] = Begin
  BY <1>3
<1>13. /\ view \in [Threads -> Views] /\ seen \in [Threads -> Views]
       /\ rel \in [Threads -> Views]
  BY <1>2, <1>3
<1>14. MemInv
  BY <1>3, <1>8, <1>9, <1>10, <1>11, <1>12, <1>13 DEF MemInv
<1>15. consumed \in Started /\ head_ \in Started /\ tail_ \in Started
       /\ DummyNode \in Started
  BY DEF Started
<1> QED BY <1>4, <1>6, <1>7, <1>12, <1>14, <1>15

\* Before the threads start the list is the dummy node.
LEMMA InitInv ==
  ASSUME Init
  PROVE  QueueInv(<<DummyNode>>)
<1>1. PICK L : L = <<DummyNode>>
  OBVIOUS
<1>2. Len(L) = 1 /\ L[1] = DummyNode /\ L \in Seq(Nodes) /\ 1 .. Len(L) = {1}
  BY <1>1, LocFacts
<1>3. /\ MemInv /\ \A l \in Locs : Len(mem[l]) = IF l \in Started THEN 1 ELSE 0
      /\ mem[consumed][1].val = 0 /\ mem[head_][1].val = DummyNode
      /\ mem[tail_][1].val = DummyNode /\ mem[DummyNode][1].val = Null
      /\ \A l \in Started : mem[l][1].at = Begin
      /\ \A t \in Threads : view[t] = Begin
  BY InitMem
<1>4. /\ {consumed, head_, tail_, DummyNode} \subseteq Started /\ Started \subseteq Locs
      /\ Slots \subseteq Started
  BY LocFacts DEF Started
<1>5. /\ Len(mem[consumed]) = 1 /\ Len(mem[head_]) = 1 /\ Len(mem[tail_]) = 1
      /\ Len(mem[DummyNode]) = 1
  BY <1>3, <1>4
<1>6. \A t \in Threads : pc[t] \in {"idle", "done"}
  BY DEF Init
<1>7. TypeInv
  <2>1. /\ setup \in Setups /\ sent \in [Producers -> Nat]
        /\ got \in [Consumers -> Seq(Nodes)]
    BY DEF Init
  <2>2. pc \in [Threads -> PLabels \cup CLabels]
    BY DEF Init, PLabels, CLabels
  <2>3. /\ \A p \in Producers : pc[p] \in PLabels
        /\ \A c \in Consumers : pc[c] \in CLabels
        /\ \A c \in Consumers : pc[c] # "slots" /\ pc[c] # "free"
    BY <1>6 DEF Threads, PLabels, CLabels
  <2>4. loc \in [Threads -> [n : Words, head : Words, tail : Words, next : Words]]
    BY DEF Init, NoLocals, Words
  <2>5. /\ bag \in [Consumers -> SUBSET Nodes] /\ freed \in SUBSET Nodes
        /\ todo \in [Consumers -> SUBSET Slots]
        /\ hz \in [Consumers -> SUBSET Values]
    BY DEF Init
  <2>6. \A i \in 1 .. Len(mem[consumed]) : mem[consumed][i].val \in Nat
    BY <1>3, <1>5
  <2> QED BY <2>1, <2>2, <2>3, <2>4, <2>5, <2>6 DEF TypeInv
<1>8. ListInv(L)
  <2>1. ASSUME NEW n \in Nodes, Len(mem[n]) >= 1 PROVE mem[n][1].val = Null /\ Made(n)
    <3>1. n \in Started
      BY <1>3, <2>1, NodeFacts
    <3>2. n = DummyNode
      BY <3>1, LocFacts DEF Started
    <3> QED BY <1>3, <3>2 DEF Made
  <2>2. \A j \in 1 .. Len(mem[tail_]) : mem[tail_][j].val = L[j]
    BY <1>2, <1>3, <1>5
  <2>3. \A i \in 1 .. Len(mem[head_]) : mem[head_][i].val = L[i]
    BY <1>2, <1>3, <1>5
  <2>4. /\ Len(mem[tail_]) \in {Len(L) - 1, Len(L)}
        /\ Len(mem[head_]) \in 1 .. Len(mem[tail_])
        /\ Len(mem[L[Len(L)]]) = 1 /\ Len(L) >= 1
    BY <1>2, <1>5
  <2>5. \A j \in 1 .. Len(L) - 1 : Len(mem[L[j]]) = 2 /\ mem[L[j]][2].val = L[j + 1]
    BY <1>2
  <2>6. \A i, j \in 1 .. Len(L) : i < j => Before(L[i], L[j])
    BY <1>2
  <2> QED BY <1>2, <2>1, <2>2, <2>3, <2>4, <2>5, <2>6 DEF ListInv
<1>9. CarryInv(L)
  <2>1. Begin[DummyNode] = 1 /\ Begin[tail_] = 1
    BY <1>4 DEF Begin
  <2>2. ASSUME NEW j \in 1 .. Len(mem[tail_])
        PROVE  /\ mem[tail_][j].at[L[j]] >= 1
               /\ \A i \in 1 .. j - 1 : mem[tail_][j].at[L[i]] >= 2
    <3>1. j = 1 /\ mem[tail_][1].at = Begin
      BY <1>3, <1>4, <1>5
    <3> QED BY <1>2, <2>1, <3>1
  <2>3. ASSUME NEW i \in 1 .. Len(mem[head_])
        PROVE  mem[head_][i].at[L[i]] >= 1 /\ mem[head_][i].at[tail_] >= i
    <3>1. i = 1 /\ mem[head_][1].at = Begin
      BY <1>3, <1>4, <1>5
    <3> QED BY <1>2, <2>1, <3>1
  <2>4. \A j \in 1 .. Len(L) - 1 : mem[L[j]][2].at[L[j + 1]] >= 1
    BY <1>2
  <2> QED BY <2>2, <2>3, <2>4 DEF CarryInv
<1>10. ASSUME NEW p \in Producers PROVE ProducerAt(p, L)
  BY <1>6 DEF ProducerAt, Threads
<1>11. ASSUME NEW c \in Consumers PROVE ConsumerAt(c, L)
  BY <1>6 DEF ConsumerAt, Threads
<1>12. GotInv(L)
  <2>1. \A c \in Consumers : got[c] = << >>
    BY DEF Init
  <2>2. \A c \in Consumers : Len(got[c]) = 0 /\ DOMAIN got[c] = {} /\ Range(got[c]) = {}
    BY <2>1 DEF Range
  <2> QED BY <2>2, SMTT(30) DEF GotInv, ExactlyOnceInOrder
<1>13. RetiredInv(L)
  BY DEF Init, RetiredInv
<1>14. ASSUME NEW t \in Threads PROVE HazardAt(t, L)
  <2>1. ASSUME NEW s \in {0, 1}, Slot(t, s) \in Slots
        PROVE  view[t][Slot(t, s)] >= Len(mem[Slot(t, s)])
    <3>1. Slot(t, s) \in Started /\ Slot(t, s) \in Locs
      BY <1>4, <2>1
    <3>2. Len(mem[Slot(t, s)]) = 1 /\ Begin[Slot(t, s)] = 1
      BY <1>3, <3>1 DEF Begin
    <3> QED BY <1>3, <3>2
  <2> QED BY <1>6, <2>1 DEF HazardAt
<1>15. QueueInv(L)
  BY <1>3, <1>7, <1>8, <1>9, <1>10, <1>11, <1>12, <1>13, <1>14
     DEF QueueInv, HazardInv
<1> QED BY <1>1, <1>15

\* Every step keeps the invariant, of the list or of a longer one.
LEMMA NextInv ==
  ASSUME NEW L, QueueInv(L), [Next]_vars
  PROVE  \E M : QueueInv(M)'
<1>1. CASE UNCHANGED vars
  <2>1. UNCHANGED <<setup, memVars, pc, loc, sent, got, hpVars>>
    BY <1>1 DEF vars, suiteVars
  <2>2. QueueInv(L)'
    BY <2>1, StillInv
  <2> QED BY <2>2
<1>2. ASSUME setup' = setup, NEW p \in Producers, Producer(p)
      PROVE  \E M : QueueInv(M)'
  <2>1. CASE New(p)
    <3>1. QueueInv(L)'
      BY <1>2, <2>1, NewInv
    <3> QED BY <3>1
  <2>2. CASE ENext(p)
    <3>1. QueueInv(L)'
      BY <1>2, <2>2, ENextInv
    <3> QED BY <3>1
  <2>3. CASE EVerify(p)
    <3>1. QueueInv(L)'
      BY <1>2, <2>3, EVerifyInv
    <3> QED BY <3>1
  <2>4. CASE Link(p)
    BY <1>2, <2>4, LinkInv
  <2>5. CASE Swing(p)
    <3>1. QueueInv(L)'
      BY <1>2, <2>5, SwingInv
    <3> QED BY <3>1
  <2> QED BY <1>2, <2>1, <2>2, <2>3, <2>4, <2>5 DEF Producer
<1>3. ASSUME setup' = setup, NEW c \in Consumers, Consumer(c)
      PROVE  QueueInv(L)'
  BY <1>3, LoopInv, DTailInv, DNextInv, DVerifyInv, ValueInv, CountInv, DrainInv,
     ScanSlotInv, ScanFreeInv DEF Consumer
<1>4. ASSUME setup' = setup, NEW t \in Threads, Either(t)
      PROVE  QueueInv(L)'
  BY <1>4, ProtectInv, PublishProtectInv, PublishSetInv, FencedInv, ReverifyInv,
     ClearInv, HelpInv DEF Either
<1>5. ASSUME setup' = setup, After PROVE QueueInv(L)'
  <2>1. UNCHANGED <<setup, memVars, pc, loc, sent, got, hpVars>>
    BY <1>5 DEF After
  <2> QED BY <2>1, StillInv
<1>6. CASE Next
  <2>1. setup' = setup
    BY <1>6 DEF Next
  <2>2. \/ \E p \in Producers : Producer(p)
        \/ \E c \in Consumers : Consumer(c)
        \/ \E t \in Threads : Either(t)
        \/ After
    BY <1>6 DEF Next
  <2>3. (\E p \in Producers : Producer(p)) => \E M : QueueInv(M)'
    BY <1>2, <2>1
  <2>4. (\E c \in Consumers : Consumer(c)) => QueueInv(L)'
    BY <1>3, <2>1
  <2>5. (\E t \in Threads : Either(t)) => QueueInv(L)'
    BY <1>4, <2>1
  <2>6. After => QueueInv(L)'
    BY <1>5, <2>1
  <2> QED BY <2>2, <2>3, <2>4, <2>5, <2>6
<1> QED BY <1>1, <1>6

\* There is only one list, the one that memory has.
LEMMA ListIsList ==
  ASSUME NEW L, QueueInv(L)
  PROVE  L = List
<1>1. MemInv /\ ListInv(L)
  BY DEF QueueInv
<1>2. PICK k, last : k = Len(mem[tail_]) /\ last = L[k]
  OBVIOUS
<1>3. /\ L \in Seq(Nodes) /\ Len(L) \in Nat \ {0} /\ k \in 1 .. Len(L)
      /\ k \in {Len(L) - 1, Len(L)} /\ Newest(tail_).val = last
  BY <1>1, <1>2, ListFacts DEF ListInv
<1>4. Len(L) = IF Len(mem[last]) = 2 THEN k + 1 ELSE k
  <2>1. CASE k = Len(L)
    <3>1. Len(mem[last]) = 1
      BY <1>1, <1>2, <2>1 DEF ListInv
    <3> QED BY <2>1, <3>1
  <2>2. CASE k = Len(L) - 1
    <3>1. Len(mem[last]) = 2
      BY <1>1, <1>2, <1>3, <2>2 DEF ListInv
    <3> QED BY <1>3, <2>2, <3>1
  <2> QED BY <1>3, <2>1, <2>2
<1>5. ASSUME NEW j \in 1 .. Len(L)
      PROVE  L[j] = IF j <= k THEN mem[tail_][j].val ELSE mem[last][2].val
  <2>1. CASE j <= k
    <3>1. j \in 1 .. Len(mem[tail_])
      BY <1>2, <1>3, <2>1
    <3> QED BY <1>1, <2>1, <3>1 DEF ListInv
  <2>2. CASE ~(j <= k)
    <3>1. j = k + 1 /\ k \in 1 .. Len(L) - 1
      BY <1>3, <2>2
    <3>2. mem[last][2].val = L[k + 1]
      BY <1>1, <1>2, <3>1 DEF ListInv
    <3> QED BY <2>2, <3>1, <3>2
  <2> QED BY <2>1, <2>2
<1>6. L = [j \in 1 .. Len(L) |-> L[j]]
  BY <1>3
<1>7. L = [j \in 1 .. Len(L) |->
             IF j <= k THEN mem[tail_][j].val ELSE mem[last][2].val]
  BY <1>5, <1>6
<1>8. List = [j \in 1 .. (IF Len(mem[last]) = 2 THEN k + 1 ELSE k) |->
                IF j <= k THEN mem[tail_][j].val ELSE mem[last][2].val]
  BY <1>2, <1>3 DEF List
<1> QED BY <1>4, <1>7, <1>8

\* What QueueInv says of the pointers that threads follow.
LEMMA DerefSafe ==
  ASSUME NEW L, QueueInv(L), NEW t \in Threads
  PROVE  /\ Deref(t) # Null /\ view[t][Deref(t)] >= 1
         /\ pc[t] \in {"next", "link", "dnext", "value"} => Deref(t) \notin freed
<1>1. /\ MemInv /\ TypeInv /\ ListInv(L) /\ RetiredInv(L)
      /\ t \in Producers => ProducerAt(t, L)
      /\ t \in Consumers => ConsumerAt(t, L)
      /\ setup.hp => HazardAt(t, L)
  BY DEF QueueInv, HazardInv
<1>2. /\ pc[t] \in {"next", "link"} => t \in Producers /\ t \notin Consumers
      /\ pc[t] \in {"dnext", "value"} => t \in Consumers /\ t \notin Producers
  BY <1>1, Roles DEF TypeInv, PLabels, CLabels, Threads
<1>3. ~setup.hp => freed = {}
  BY <1>1 DEF RetiredInv
<1>4. \A l \in {head_, tail_} : \A n : Met(l, n, L) => n \in Nodes /\ n # Null
  <2>1. ASSUME NEW l \in {head_, tail_}, NEW n, Met(l, n, L)
        PROVE  n \in Nodes /\ n # Null
    <3>1. PICK i \in 1 .. Len(mem[l]) : n = L[i]
      BY <2>1 DEF Met
    <3>2. /\ Len(mem[head_]) \in 1 .. Len(mem[tail_])
          /\ Len(mem[tail_]) \in 1 .. Len(L) /\ Len(L) \in Nat
      BY <1>1, ListFacts
    <3>3. i \in 1 .. Len(L)
      BY <3>1, <3>2
    <3> QED BY <1>1, <3>1, <3>3, ListFacts
  <2> QED BY <2>1
<1>5. CASE pc[t] \in {"next", "link"}
  <2>1. Deref(t) = loc[t].tail /\ Held(t) = "tail"
    BY <1>2, <1>5, Roles DEF Deref
  <2>2. Met(tail_, loc[t].tail, L) /\ view[t][loc[t].tail] >= 1
    BY <1>1, <1>2, <1>5 DEF ProducerAt
  <2>3. setup.hp => loc[t].tail \notin freed
    BY <1>1, <1>5, <2>1 DEF HazardAt, Guards, Spared
  <2> QED BY <1>3, <1>4, <2>1, <2>2, <2>3
<1>6. CASE pc[t] = "dnext"
  <2>1. Deref(t) = loc[t].head /\ Held(t) = "head"
    BY <1>2, <1>6, Roles DEF Deref
  <2>2. HeadAt(t, loc[t].head, 0, L) /\ view[t][loc[t].head] >= 1
    BY <1>1, <1>2, <1>6 DEF ConsumerAt
  <2>3. Met(head_, loc[t].head, L)
    BY <2>2 DEF HeadAt, Met
  <2>4. setup.hp => loc[t].head \notin freed
    BY <1>1, <1>6, <2>1 DEF HazardAt, Guards, Spared
  <2> QED BY <1>3, <1>4, <2>1, <2>2, <2>3, <2>4
<1>7. CASE pc[t] = "value"
  <2>1. Deref(t) = loc[t].next
    BY <1>7 DEF Deref
  <2>2. Follows(t, loc[t].head, loc[t].next, L)
    BY <1>1, <1>2, <1>7 DEF ConsumerAt
  <2>3. PICK j \in 1 .. Len(L) - 1 : loc[t].next = L[j + 1] /\ view[t][loc[t].next] >= 1
    BY <2>2 DEF Follows
  <2>4. j + 1 \in 1 .. Len(L)
    BY <1>1, <2>3, ListFacts
  <2>5. loc[t].next # Null
    BY <1>1, <2>3, <2>4, ListFacts
  <2>6. setup.hp => loc[t].next \notin freed
    BY <1>1, <1>7 DEF HazardAt, Guards, Spared
  <2> QED BY <1>3, <2>1, <2>3, <2>5, <2>6
<1>8. CASE pc[t] \notin {"next", "link", "dnext", "value"}
  <2>1. Deref(t) = DummyNode
    BY <1>8 DEF Deref
  <2>2. DummyNode # Null /\ view[t][DummyNode] >= 1
    BY <1>1, LocFacts DEF MemInv, Started
  <2> QED BY <1>8, <2>1, <2>2
<1> QED BY <1>5, <1>6, <1>7, <1>8

OneList == \A L : QueueInv(L) => L = List

(* However old the writes are that relaxed and acquire loads return, there *)
(* is at all times one list that the stores of enqueue and try_dequeue     *)
(* have built, and every thread's locals, view and hazards are in step     *)
(* with it.                                                                *)
THEOREM RAInvariance == Spec => []RAInv
<1>1. Init => RAInv
  BY InitInv, ListIsList DEF RAInv
<1>2. OneList
  BY ListIsList DEF OneList
<1>3. RAInv /\ OneList' /\ [Next]_vars => RAInv'
  <2> SUFFICES ASSUME RAInv, OneList', [Next]_vars PROVE RAInv'
    OBVIOUS
  <2>1. PICK M : QueueInv(M)'
    BY NextInv DEF RAInv
  <2>2. M = List'
    BY <2>1 DEF OneList
  <2> QED BY <2>1, <2>2 DEF RAInv
<1> QED BY <1>1, <1>2, <1>3, PTL DEF Spec

(* Whoever follows a pointer, in leaky mode or over hp_reclaimer, finds a  *)
(* node there and has its construction in view: the release CASes of       *)
(* enqueue and the acquire loads of next, head_ and tail_ are enough for   *)
(* any number of producers and consumers.                                  *)
THEOREM PublishedCorrect == Spec => []Published
<1>1. RAInv => Published
  BY DerefSafe DEF RAInv, Published
<1> QED BY <1>1, RAInvariance, PTL

(* No thread follows a pointer to a node that a scan of hp_domain has      *)
(* freed: the release stores of the slots, the fences of protect, set and  *)
(* scan, and the re-reads of head_ and tail_ are enough.                   *)
THEOREM UseSafeCorrect == Spec => []UseSafe
<1>1. RAInv => UseSafe
  BY DerefSafe DEF RAInv, UseSafe
<1> QED BY <1>1, RAInvariance, PTL

(* Under these orderings every value is dequeued at most once, and each    *)
(* consumer meets the values of one producer in the order of enqueue.      *)
THEOREM ExactlyOnceInOrderCorrect == Spec => []ExactlyOnceInOrder
<1>1. RAInv => ExactlyOnceInOrder
  BY DEF RAInv, QueueInv, GotInv
<1> QED BY <1>1, RAInvariance, PTL
=============================================================================

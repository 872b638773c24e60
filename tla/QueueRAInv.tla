----------------------------- MODULE QueueRAInv -----------------------------
(***************************************************************************)
(* The inductive invariant behind Published, ExactlyOnceInOrder and        *)
(* UseSafe of QueueRA.  However old the writes are that the threads read,  *)
(* there is one list of nodes: tail_ and head_ run through it in the       *)
(* modification orders, and what a write to one of them carries says how   *)
(* far its reader sees into the others.                                    *)
(***************************************************************************)
EXTENDS QueueRA

Words  == Nodes \cup {Null}
Values == Words \cup Nat
Views  == [Locs -> Nat]
Writes == [val : Values, at : Views]

\* The locations that are written before the threads start.
Started == {DummyNode, head_, tail_, consumed} \cup Slots

Below(v, w) == \A l \in Locs : v[l] <= w[l]

\* View v goes no further than memory m does.
Within(m, v) == v \in Views /\ \A l \in Locs : v[l] <= Len(m[l])

MemInv ==
  /\ mem \in [Locs -> Seq(Writes)]
  /\ view \in [Threads -> Views] /\ seen \in [Threads -> Views]
  /\ rel \in [Threads -> Views]
  /\ \A l \in Locs : \A i \in 1 .. Len(mem[l]) :
       Within(mem, mem[l][i].at) /\ mem[l][i].at[l] = i
  /\ \A t \in Threads :
       /\ Within(mem, seen[t]) /\ Below(rel[t], view[t]) /\ Below(view[t], seen[t])
       /\ \A l \in Started : view[t][l] >= 1
  /\ Within(mem, sc)

PLabels == {"idle", "load", "publish", "fence", "reload", "next", "verify",
            "help", "link", "swing", "clear0", "done"}
CLabels == {"idle", "load", "publish", "fence", "reload", "dtail", "dnext",
            "set", "setfence", "dverify", "help", "value", "clear0", "clear1",
            "count", "slots", "free", "done"}

TypeInv ==
  /\ setup \in Setups
  /\ pc \in [Threads -> PLabels \cup CLabels]
  /\ \A p \in Producers : pc[p] \in PLabels
  /\ \A c \in Consumers : pc[c] \in CLabels
  /\ loc \in [Threads -> [n : Words, head : Words, tail : Words, next : Words]]
  /\ sent \in [Producers -> Nat] /\ got \in [Consumers -> Seq(Nodes)]
  /\ bag \in [Consumers -> SUBSET Nodes] /\ freed \in SUBSET Nodes
  /\ todo \in [Consumers -> SUBSET Slots] /\ hz \in [Consumers -> SUBSET Values]
  /\ \A c \in Consumers : /\ pc[c] = "slots" => todo[c] # {}
                          /\ pc[c] = "free" => todo[c] = {}
  /\ \A i \in 1 .. Len(mem[consumed]) : mem[consumed][i].val \in Nat

-----------------------------------------------------------------------------
(* The list                                                                *)

\* Node m may follow node n: no node comes twice, and those of one producer
\* come in the order in which it made them.
Before(n, m) == n # m /\ (n[1] = m[1] => n[2] < m[2])

\* p has made n.
Made(n) == n = DummyNode \/ (n[1] \in Producers /\ n[2] <= sent[n[1]])

\* L is the list: every node but the last is linked to the next one, tail_
\* goes from node to node and is at the last one or the one before, and
\* head_ follows.
ListInv(L) ==
  /\ L \in Seq(Nodes) /\ Len(L) >= 1
  /\ Len(mem[tail_]) \in {Len(L) - 1, Len(L)}
  /\ Len(mem[head_]) \in 1 .. Len(mem[tail_])
  /\ \A j \in 1 .. Len(mem[tail_]) : mem[tail_][j].val = L[j]
  /\ \A i \in 1 .. Len(mem[head_]) : mem[head_][i].val = L[i]
  /\ \A j \in 1 .. Len(L) - 1 : Len(mem[L[j]]) = 2 /\ mem[L[j]][2].val = L[j + 1]
  /\ Len(mem[L[Len(L)]]) = 1
  /\ \A i, j \in 1 .. Len(L) : i < j => Before(L[i], L[j])
  /\ \A n \in Nodes : /\ Len(mem[n]) >= 1 => mem[n][1].val = Null
                      /\ Len(mem[n]) >= 1 => Made(n)

\* Whoever acquires a tail has the links of the nodes before it and the node
\* itself in view; a head, the node and the tail; a link, the node linked.
CarryInv(L) ==
  /\ \A j \in 1 .. Len(mem[tail_]) :
       /\ mem[tail_][j].at[L[j]] >= 1
       /\ \A i \in 1 .. j - 1 : mem[tail_][j].at[L[i]] >= 2
  /\ \A i \in 1 .. Len(mem[head_]) :
       mem[head_][i].at[L[i]] >= 1 /\ mem[head_][i].at[tail_] >= i
  /\ \A j \in 1 .. Len(L) - 1 : mem[L[j]][2].at[L[j + 1]] >= 1

-----------------------------------------------------------------------------
(* The threads                                                             *)

\* n is one of the values of l, which is head_ or tail_.
Met(l, n, L) == \E i \in 1 .. Len(mem[l]) : n = L[i]

\* m is the node after n, and t has the link between them in view.
Follows(t, n, m, L) ==
  \E j \in 1 .. Len(L) - 1 : /\ n = L[j] /\ m = L[j + 1]
                             /\ view[t][n] >= 2 /\ view[t][m] >= 1

\* p's node is made and not yet linked.
Fresh(p, L) ==
  /\ loc[p].n = <<p, sent[p]>> /\ loc[p].n \in Nodes
  /\ Len(mem[loc[p].n]) = 1 /\ view[p][loc[p].n] >= 1
  /\ \A j \in 1 .. Len(L) : L[j] # loc[p].n

\* A producer's own node is not linked until it links it, and what it found
\* behind the tail is the node there.
ProducerAt(p, L) ==
  /\ pc[p] \in {"load", "publish", "fence", "reload", "next", "verify", "help",
                "link"} => Fresh(p, L)
  /\ pc[p] \in {"publish", "fence", "reload", "next", "verify", "help", "link",
                "swing"} => Met(tail_, loc[p].tail, L)
  /\ pc[p] \in {"next", "verify", "help", "link"} => view[p][loc[p].tail] >= 1
  /\ pc[p] = "verify" =>
       loc[p].next = Null \/ Follows(p, loc[p].tail, loc[p].next, L)
  /\ pc[p] = "help" => Follows(p, loc[p].tail, loc[p].next, L)
  /\ pc[p] = "swing" => Follows(p, loc[p].tail, loc[p].n, L)

\* n is a value of head_, and c sees tail_ no further back than d after it.
HeadAt(c, n, d, L) ==
  \E i \in 1 .. Len(mem[head_]) : n = L[i] /\ view[c][tail_] >= i + d

\* A consumer sees tail_ no further back than the head it has, and when they
\* differ it has the head's link in view.
ConsumerAt(c, L) ==
  /\ pc[c] \in {"publish", "fence", "reload"} => Met(head_, loc[c].head, L)
  /\ pc[c] \in {"dtail", "dnext", "set", "setfence", "dverify", "help", "value"} =>
       view[c][loc[c].head] >= 1 /\ HeadAt(c, loc[c].head, 0, L)
  /\ pc[c] \in {"dnext", "set", "setfence", "dverify", "value"} /\
       loc[c].tail # loc[c].head =>
         view[c][loc[c].head] >= 2 /\ HeadAt(c, loc[c].head, 1, L)
  /\ pc[c] \in {"set", "setfence", "dverify"} =>
       \/ loc[c].next = Null /\ loc[c].tail = loc[c].head
       \/ Follows(c, loc[c].head, loc[c].next, L)
  /\ pc[c] = "help" => /\ loc[c].tail = loc[c].head
                       /\ Follows(c, loc[c].tail, loc[c].next, L)
  /\ pc[c] = "value" => /\ loc[c].tail # loc[c].head
                        /\ Follows(c, loc[c].head, loc[c].next, L)

\* What was dequeued is what head_ has gone through.
GotInv(L) ==
  /\ \A c \in Consumers : \A k \in 1 .. Len(got[c]) : Met(head_, got[c][k], L)
  /\ ExactlyOnceInOrder

-----------------------------------------------------------------------------
(* Reclamation                                                             *)

Scanning(c) == pc[c] \in {"slots", "free"}

\* n is behind the head and the tail of whoever has view v.
Gone(n, v, L) ==
  \E i \in 1 .. Len(L) : n = L[i] /\ v[head_] >= i + 1 /\ v[tail_] >= i + 1

\* What was retired is out of the retirer's sight, what a scan is about to
\* free or has freed out of the sight of everybody whose fence came later.
RetiredInv(L) ==
  /\ ~setup.hp => freed = {} /\ \A c \in Consumers : bag[c] = {}
  /\ \A n \in freed : Gone(n, sc, L)
  /\ \A c \in Consumers : \A n \in bag[c] :
       Gone(n, view[c], L) /\ (Scanning(c) => Gone(n, sc, L))

\* t's slot s names n, for every scan whose fence is yet to come.
Named(t, s, n) == Newest(Slot(t, s)).val = n
Shown(t, s) == sc[Slot(t, s)] >= Len(mem[Slot(t, s)])

\* No scan has freed n, or will while t's slot s stays as it is.
Spared(t, s, n) ==
  /\ n \notin freed
  /\ \A c \in Consumers : Scanning(c) /\ n \in bag[c] =>
       /\ view[c][Slot(t, s)] >= Len(mem[Slot(t, s)])
       /\ Slot(t, s) \notin todo[c] => n \in hz[c]

Guards(t, s, n) == Named(t, s, n) /\ Shown(t, s) /\ Spared(t, s, n)

\* The pointer of slot 0 is named before the fence; afterwards it is spared,
\* or else t can no longer find it in head_ or tail_; so it is spared when
\* it is found there.  The same goes for slot 1, which has the successor of
\* the head that is found.
HazardAt(t, L) ==
  /\ \A s \in {0, 1} : Slot(t, s) \in Slots =>
       view[t][Slot(t, s)] >= Len(mem[Slot(t, s)])
  /\ pc[t] = "fence" => Named(t, 0, loc[t][Held(t)])
  /\ pc[t] = "reload" =>
       /\ Named(t, 0, loc[t][Held(t)]) /\ Shown(t, 0)
       /\ Gone(loc[t][Held(t)], view[t], L) \/ Spared(t, 0, loc[t][Held(t)])
  /\ pc[t] \in {"next", "verify", "link", "dtail", "dnext", "set", "setfence",
                "dverify"} => Guards(t, 0, loc[t][Held(t)])
  /\ pc[t] = "setfence" => Named(t, 1, loc[t].next)
  /\ pc[t] = "dverify" /\ loc[t].next # Null =>
       /\ Named(t, 1, loc[t].next) /\ Shown(t, 1)
       /\ Gone(loc[t].next, view[t], L) \/ Spared(t, 1, loc[t].next)
  /\ pc[t] = "value" => Guards(t, 1, loc[t].next)

HazardInv(L) == setup.hp => \A t \in Threads : HazardAt(t, L)

-----------------------------------------------------------------------------
\* The list, as memory has it.
List ==
  LET last == Newest(tail_).val
      k == Len(mem[tail_])
  IN  [j \in 1 .. (IF Len(mem[last]) = 2 THEN k + 1 ELSE k) |->
         IF j <= k THEN mem[tail_][j].val ELSE mem[last][2].val]

QueueInv(L) ==
  /\ MemInv /\ TypeInv /\ ListInv(L) /\ CarryInv(L)
  /\ \A p \in Producers : ProducerAt(p, L)
  /\ \A c \in Consumers : ConsumerAt(c, L)
  /\ GotInv(L) /\ RetiredInv(L) /\ HazardInv(L)

RAInv == QueueInv(List)
=============================================================================

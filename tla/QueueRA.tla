------------------------------ MODULE QueueRA ------------------------------
(***************************************************************************)
(* The Relacy model of the queue, model/queue_model.hpp: ms_queue_m, the   *)
(* line-parallel port of ms_queue, run by queue_suite, producers that      *)
(* enqueue K values each and consumers that dequeue until all are consumed.*)
(* Unlike MSQueue, the memory is WeakMemory, so what is checked here is    *)
(* the choice of memory orderings.                                         *)
(*                                                                         *)
(* Reclamation is leaky, as in the Relacy model, or else the queue runs    *)
(* over hp_reclaimer, which Relacy never sees it do: protect and set       *)
(* publish hazards, the guard clears, scans free.                          *)
(*                                                                         *)
(* The value of a node, producer << 8 | seq, names the node.  Every weak   *)
(* CAS may fail whatever it finds; all it then does is start over.         *)
(***************************************************************************)
EXTENDS WeakMemory, FiniteSets, SequencesExt

CONSTANTS Producers, Consumers,
          Setups,     \* the instances of the suite, see SetupType
          Dummy,      \* names the dummy node
          Null        \* nullptr

\* The values each producer enqueues, the consumers that take part, whether
\* reclamation is hp_reclaimer, and the bound on the writes to a hazard slot:
\* an operation publishes once for each iteration, and clears.
SetupType == [K : [Producers -> Nat], consumers : SUBSET Consumers,
              hp : BOOLEAN, writes : Nat]

ASSUME QueueRAAssumption ==
  /\ Setups \subseteq SetupType
  /\ Producers \cap Consumers = {} /\ Dummy \notin Producers

VARIABLES
  setup,     \* the instance this run is of
  pc,        \* pc[t]: t's next access to shared memory
  loc,       \* loc[t]: the locals n, head, tail and next of t's operation
  sent,      \* sent[p]: s of the loop over enqueue
  got,       \* got[c]: what c dequeued, in order
  junk_,     \* the nodes retired to leaky_reclaimer
  bag, todo, hz, freed,  \* hp_domain, as in HazardFence
  deleted    \* what teardown deletes, once for each delete

suiteVars == <<sent, got, junk_, deleted>>
hpVars    == <<bag, todo, hz, freed>>
vars == <<setup, memVars, pc, loc, suiteVars, hpVars>>

Threads == Producers \cup Consumers
DummyNode == <<Dummy, 0>>
Sent(k) == UNION {{p} \X (1 .. k[p]) : p \in Producers}
Total   == Cardinality(Sent(setup.K))
Nodes   == (UNION {Sent(u.K) : u \in Setups}) \cup {DummyNode}

\* nullptr names no node, and head_, tail_ and consumed are no nodes.
ASSUME NullAssumption == Null \notin Nodes \cup Producers \cup {Dummy}

\* The atomics: head_, tail_, consumed, the next of every node, and the
\* hazard slots.  Slot 1 of a producer is always null and left out.
head_    == <<Null, 0>>
tail_    == <<Null, 1>>
consumed == <<Null, 2>>
Slot(t, s) == <<t, s, Null>>
Slots    == {Slot(t, 0) : t \in Threads} \cup {Slot(c, 1) : c \in Consumers}
Locs     == Nodes \cup {head_, tail_, consumed} \cup Slots

NoLocals == [n |-> Null, head |-> Null, tail |-> Null, next |-> Null]

\* before(): init() of the queue and of the suite.
Init ==
  /\ setup \in Setups
  /\ MemInit(Threads, Locs,
             [l \in {DummyNode, head_, tail_, consumed} \cup Slots |->
                CASE l = consumed         -> 0
                  [] l \in {head_, tail_} -> DummyNode
                  [] OTHER                -> Null])
  /\ pc = [t \in Threads |-> IF \/ t \in Producers /\ setup.K[t] > 0
                              \/ t \in setup.consumers
                           THEN "idle" ELSE "done"]
  /\ loc = [t \in Threads |-> NoLocals]
  /\ sent = [p \in Producers |-> 0]
  /\ got = [c \in Consumers |-> << >>]
  /\ junk_ = {} /\ deleted = << >>
  /\ bag = [c \in Consumers |-> {}] /\ hz = [c \in Consumers |-> {}]
  /\ todo = [c \in Consumers |-> {}] /\ freed = {}

At(t, l)   == pc[t] = l
Goto(t, l) == pc' = [pc EXCEPT ![t] = l]
Set(t, x, v) == loc' = [loc EXCEPT ![t][x] = v]

\* x = l.load(mo), and then on to label to.
LoadInto(t, x, l, mo, to) ==
  \E i \in Readable(t, l) :
    Load(t, l, i, mo) /\ Set(t, x, mem[l][i].val) /\ Goto(t, to)

\* What t's operation protects first, and the local it keeps it in.
Src(t)  == IF t \in Producers THEN tail_ ELSE head_
Held(t) == IF t \in Producers THEN "tail" ELSE "head"

\* Where protect returns to, and where t goes when its operation returns.
Protected(t) == IF t \in Producers THEN "next" ELSE "dtail"
Returned(t)  == IF t \in Producers
                THEN IF sent[t] < setup.K[t] THEN "idle" ELSE "done"
                ELSE IF loc[t].n # Null THEN "count" ELSE "idle"
Return(t) == Goto(t, IF setup.hp THEN "clear0" ELSE Returned(t))

\* CAS(old, new) that succeeds.
CAS(t, l, old, new, mo) == Newest(l).val = old /\ Update(t, l, new, mo)

-----------------------------------------------------------------------------
(* An ordering that a negative variant of the Relacy model weakens         *)

RelaxedTail == "relaxed"  \* Mutant: bug_relaxed_tail_load
tail_mo == "acquire"

-----------------------------------------------------------------------------
(* guard::protect, set and the destructor                                  *)

\* Leaky: an acquire load.  hp: p = src.load(relaxed).
Protect(t) ==
  /\ At(t, "load")
  /\ IF setup.hp THEN LoadInto(t, Held(t), Src(t), "relaxed", "publish")
           ELSE LoadInto(t, Held(t), Src(t), "acquire", Protected(t))
  /\ UNCHANGED <<suiteVars, hpVars>>

\* slot[s].store(x, release).
StoreSlot(t, s, x) ==
  Len(mem[Slot(t, s)]) <= setup.writes /\ Store(t, Slot(t, s), x, "release")

Publish(t, s, x, from, to) ==
  /\ At(t, from) /\ Goto(t, to) /\ StoreSlot(t, s, x)
  /\ UNCHANGED <<loc, suiteVars, hpVars>>

PublishProtect(t) == Publish(t, 0, loc[t][Held(t)], "publish", "fence")
PublishSet(t)     == Publish(t, 1, loc[t].next, "set", "setfence")

NoFence(t) == UNCHANGED memVars  \* Mutant: hp_missing_publish_fence
publish_fence(t) == Fence(t)

Fenced(t) ==
  /\ \/ At(t, "fence") /\ Goto(t, "reload")
     \/ At(t, "setfence") /\ Goto(t, "dverify")
  /\ publish_fence(t) /\ UNCHANGED <<loc, suiteVars, hpVars>>

\* q = src.load(acquire): return p, or publish q.
Reverify(t) ==
  /\ At(t, "reload")
  /\ \E i \in Readable(t, Src(t)) :
       LET q == mem[Src(t)][i].val
       IN  /\ Load(t, Src(t), i, "acquire") /\ Set(t, Held(t), q)
           /\ Goto(t, IF q = loc[t][Held(t)] THEN Protected(t) ELSE "publish")
  /\ UNCHANGED <<suiteVars, hpVars>>

\* ~guard.
Clear(t) ==
  /\ \/ At(t, "clear0") /\ StoreSlot(t, 0, Null)
     \/ At(t, "clear1") /\ StoreSlot(t, 1, Null)
  /\ IF At(t, "clear0") /\ t \in Consumers
     THEN Goto(t, "clear1") /\ UNCHANGED loc
     ELSE Goto(t, Returned(t)) /\ loc' = [loc EXCEPT ![t] = NoLocals]
  /\ UNCHANGED <<suiteVars, hpVars>>

-----------------------------------------------------------------------------
(* enqueue                                                                 *)

\* new node(), its value and next = nullptr.
New(p) ==
  /\ At(p, "idle") /\ sent[p] < setup.K[p]
  /\ LET n == <<p, sent[p] + 1>>
     IN  /\ Store(p, n, Null, "relaxed")
         /\ Set(p, "n", n)
  /\ sent' = [sent EXCEPT ![p] = @ + 1]
  /\ Goto(p, "load")
  /\ UNCHANGED <<got, junk_, deleted, hpVars>>

ENext(p) ==
  /\ At(p, "next")
  /\ LoadInto(p, "next", loc[p].tail, "acquire", "verify")
  /\ UNCHANGED <<suiteVars, hpVars>>

\* if (tail != tail_.load()) continue, else help or link.
EVerify(p) ==
  /\ At(p, "verify")
  /\ \E i \in Readable(p, tail_) :
       /\ Load(p, tail_, i, "acquire")
       /\ Goto(p, IF mem[tail_][i].val # loc[p].tail THEN "load"
                  ELSE IF loc[p].next # Null THEN "help" ELSE "link")
  /\ UNCHANGED <<loc, suiteVars, hpVars>>

\* The helping CAS of enqueue and of try_dequeue.
Help(t) ==
  /\ At(t, "help") /\ Goto(t, "load")
  /\ \/ CAS(t, tail_, loc[t].tail, loc[t].next, "release")
     \/ UNCHANGED memVars
  /\ UNCHANGED <<loc, suiteVars, hpVars>>

Link(p) ==
  /\ At(p, "link")
  /\ \/ CAS(p, loc[p].tail, Null, loc[p].n, "release") /\ Goto(p, "swing")
     \/ UNCHANGED memVars /\ Goto(p, "load")
  /\ UNCHANGED <<loc, suiteVars, hpVars>>

\* The strong CAS fails only when it reads another tail.
Swing(p) ==
  /\ At(p, "swing") /\ Return(p)
  /\ \/ CAS(p, tail_, loc[p].tail, loc[p].n, "release")
     \/ /\ \E i \in Readable(p, tail_) : mem[tail_][i].val # loc[p].tail
        /\ UNCHANGED memVars
  /\ loc' = [loc EXCEPT ![p] = NoLocals]
  /\ UNCHANGED <<suiteVars, hpVars>>

-----------------------------------------------------------------------------
(* try_dequeue                                                             *)

\* while (consumed.load() < P * K) try_dequeue.
Loop(c) ==
  /\ At(c, "idle")
  /\ \E i \in Readable(c, consumed) :
       /\ Load(c, consumed, i, "relaxed")
       /\ Goto(c, IF mem[consumed][i].val < Total THEN "load" ELSE "done")
  /\ UNCHANGED <<loc, suiteVars, hpVars>>

DTail(c) ==
  /\ At(c, "dtail") /\ LoadInto(c, "tail", tail_, tail_mo, "dnext")
  /\ UNCHANGED <<suiteVars, hpVars>>

DNext(c) ==
  /\ At(c, "dnext")
  /\ LoadInto(c, "next", loc[c].head, "acquire",
              IF setup.hp THEN "set" ELSE "dverify")
  /\ UNCHANGED <<suiteVars, hpVars>>

\* The re-validation of head_, and what head and tail then say.
DVerify(c) ==
  /\ At(c, "dverify")
  /\ \E i \in Readable(c, head_) :
       /\ Load(c, head_, i, "acquire")
       /\ \/ mem[head_][i].val # loc[c].head /\ Goto(c, "load")
          \/ /\ mem[head_][i].val = loc[c].head
             /\ \/ loc[c].head # loc[c].tail /\ Goto(c, "value")
                \/ /\ loc[c].head = loc[c].tail
                   /\ \/ loc[c].next # Null /\ Goto(c, "help")
                      \/ loc[c].next = Null /\ Return(c)
  /\ UNCHANGED <<loc, suiteVars, hpVars>>

TakeBlind(c) == Update(c, head_, loc[c].next, "release")  \* Mutant
Take(c) == CAS(c, head_, loc[c].head, loc[c].next, "release")

\* value = next->value, the CAS of head_ that takes it, and retire(head).
Value(c) ==
  /\ At(c, "value")
  /\ \/ /\ Take(c) /\ Goto(c, IF setup.hp THEN "clear0" ELSE "count")
        /\ Set(c, "n", loc[c].next)
        /\ got' = [got EXCEPT ![c] = Append(@, loc[c].next)]
        /\ IF setup.hp THEN /\ bag' = [bag EXCEPT ![c] = @ \cup {loc[c].head}]
                      /\ UNCHANGED junk_
                 ELSE junk_' = junk_ \cup {loc[c].head} /\ UNCHANGED bag
     \/ UNCHANGED <<memVars, loc, got, junk_, bag>> /\ Goto(c, "load")
  /\ UNCHANGED <<sent, deleted, todo, hz, freed>>

\* consumed.fetch_add(1).
Count(c) ==
  /\ At(c, "count") /\ Goto(c, "idle")
  /\ Update(c, consumed, Newest(consumed).val + 1, "relaxed")
  /\ loc' = [loc EXCEPT ![c] = NoLocals]
  /\ UNCHANGED <<suiteVars, hpVars>>

-----------------------------------------------------------------------------
(* hp_domain::scan, from drain() between two operations: a suite this      *)
(* small never retires enough to scan in retire.  The records are linked.  *)

Drain(c) ==
  /\ At(c, "idle") /\ bag[c] # {} /\ Goto(c, "slots") /\ Fence(c)
  /\ todo' = [todo EXCEPT ![c] = Slots]
  /\ UNCHANGED <<loc, suiteVars, bag, hz, freed>>

ScanSlot(c) ==
  /\ At(c, "slots")
  /\ LET l == CHOOSE x \in todo[c] : TRUE
     IN  /\ \E i \in Readable(c, l) :
              /\ Load(c, l, i, "acquire")
              /\ hz' = [hz EXCEPT ![c] = @ \cup ({mem[l][i].val} \ {Null})]
         /\ todo' = [todo EXCEPT ![c] = @ \ {l}]
         /\ Goto(c, IF todo[c] = {l} THEN "free" ELSE "slots")
  /\ UNCHANGED <<loc, suiteVars, bag, freed>>

ScanFree(c) ==
  /\ At(c, "free") /\ Goto(c, "idle")
  /\ freed' = freed \cup (bag[c] \ hz[c])
  /\ bag' = [bag EXCEPT ![c] = @ \cap hz[c]]
  /\ hz' = [hz EXCEPT ![c] = {}]
  /\ UNCHANGED <<memVars, loc, suiteVars, todo>>

-----------------------------------------------------------------------------
\* The nodes from head_ on, along next.
Chain[n \in Nodes] ==
  <<n>> \o IF Newest(n).val = Null THEN << >> ELSE Chain[Newest(n).val]

Finished == \A t \in Threads : pc[t] = "done"

\* after(): the threads have been joined; teardown().
After ==
  /\ Finished /\ deleted = << >>
  /\ deleted' = Chain[Newest(head_).val] \o SetToSeq(junk_)
  /\ UNCHANGED <<memVars, pc, loc, sent, got, junk_, hpVars>>

Producer(p) == New(p) \/ ENext(p) \/ EVerify(p) \/ Link(p) \/ Swing(p)
Consumer(c) == \/ Loop(c) \/ DTail(c) \/ DNext(c) \/ DVerify(c) \/ Value(c)
               \/ Count(c) \/ Drain(c) \/ ScanSlot(c) \/ ScanFree(c)
Either(t)   == \/ Protect(t) \/ PublishProtect(t) \/ PublishSet(t)
               \/ Fenced(t) \/ Reverify(t) \/ Clear(t) \/ Help(t)

Next ==
  /\ \/ \E p \in Producers : Producer(p)
     \/ \E c \in Consumers : Consumer(c)
     \/ \E t \in Threads : Either(t)
     \/ After
  /\ UNCHANGED setup

Spec == Init /\ [][Next]_vars

-----------------------------------------------------------------------------
(* Properties                                                              *)

\* The node t's next step reads or writes through.
Deref(t) == CASE pc[t] \in {"next", "link"} -> loc[t].tail
              [] pc[t] = "dnext"            -> loc[t].head
              [] pc[t] = "value"            -> loc[t].next
              [] OTHER                      -> DummyNode

(* The invariant under test in the Relacy model: whoever follows a pointer *)
(* finds a node there, and has its producer's stores to it in its view, so *)
(* that no access races its construction; a consumer that found head_ and  *)
(* tail_ apart has a successor to read, however old the head and the tail  *)
(* are that its loads returned.                                            *)
Published ==
  \A t \in Threads : Deref(t) # Null /\ view[t][Deref(t)] >= 1

(* Over hp_reclaimer, no thread follows a pointer to a node that a scan    *)
(* has freed, an enqueuer at a tail that lags and a dequeuer at the        *)
(* successor included.                                                     *)
UseSafe ==
  \A t \in Threads :
    pc[t] \in {"next", "link", "dnext", "value"} => Deref(t) \notin freed

(* Every value is dequeued at most once, and each consumer meets the       *)
(* values of a producer in the order they were enqueued.                   *)
ExactlyOnceInOrder ==
  /\ \A c \in Consumers : \A i, j \in DOMAIN got[c] :
       i < j /\ got[c][i][1] = got[c][j][1] => got[c][i][2] < got[c][j][2]
  /\ \A c, d \in Consumers : c # d => Range(got[c]) \cap Range(got[d]) = {}

(* after(): once the threads are joined the queue is empty, every value    *)
(* was seen, and teardown deletes every node exactly once.                 *)
Drained ==
  Finished => /\ Newest(Newest(head_).val).val = Null
              /\ UNION {Range(got[c]) : c \in Consumers} = Sent(setup.K)
              /\ \/ deleted = << >>
                 \/ /\ IsInjective(deleted)
                    /\ Range(deleted) = (Sent(setup.K) \cup {DummyNode})
                                         \ (freed \cup UNION Range(bag))
=============================================================================

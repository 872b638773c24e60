------------------------------- MODULE MSQueue -------------------------------
(***************************************************************************)
(* ms_queue<T, leaky_reclaimer> of include/lfq/ms_queue.hpp: Michael and   *)
(* Scott's lock-free queue, one action per access to shared memory, so     *)
(* that threads interleave wherever the code lets them.  Memory is         *)
(* sequentially consistent here.                                           *)
(*                                                                         *)
(* A CAS the code writes as compare_exchange_weak may fail although its    *)
(* comparison holds.  The locals of a loop iteration go out of scope with  *)
(* it, so the model resets them when the code says `continue'.             *)
(***************************************************************************)
EXTENDS Naturals, Sequences

CONSTANTS Threads,  \* the threads that share the queue
          Values,   \* what clients enqueue
          Nodes,    \* the node addresses the allocator can hand out
          Dummy,    \* the node the constructor allocates
          Null,     \* nullptr
          NoValue   \* T{}, the value of the constructor's dummy

ASSUME ConstAssumption ==
  /\ Dummy \in Nodes
  /\ Null \notin Nodes
  /\ NoValue \notin Values

VARIABLES
  head_, tail_,     \* the queue's two shared pointers
  next, value,      \* the fields of every node
  heap,             \* the nodes that are allocated
  alive,            \* FALSE once the destructor runs
  p,                \* the destructor's cursor
  pc,               \* pc[t]: the next access of thread t
  n,                \* enqueue's new node
  head, tail, nx,   \* the locals head, tail and next of one iteration
  val,              \* try_dequeue's copy of the value
  chain             \* ghost: the nodes from head_ to the last one, in order

queueVars == <<head_, tail_, next, value, heap>>
localVars == <<pc, n, head, tail, nx, val>>
dtorVars  == <<alive, p>>
vars      == <<head_, tail_, next, value, heap, alive, p,
               pc, n, head, tail, nx, val, chain>>

\* enqueue before the node is linked, after it, and try_dequeue.
PreLink  == {"enqProtect", "enqNext", "enqCheck", "enqHelp", "enqLink"}
PostLink == {"enqSwing", "enqRet"}
InDeq    == {"deqProtect", "deqTail", "deqNext", "deqCheck", "deqHelp",
             "deqRead", "deqSwing", "deqRetire", "deqRet", "deqEmpty"}
Labels   == {"idle"} \cup PreLink \cup PostLink \cup InDeq

\* The one type invariant.
TypeOK ==
  /\ head_ \in Nodes /\ tail_ \in Nodes
  /\ next \in [Nodes -> Nodes \cup {Null}]
  /\ value \in [Nodes -> Values \cup {NoValue}]
  /\ heap \in SUBSET Nodes
  /\ alive \in BOOLEAN /\ p \in Nodes \cup {Null}
  /\ pc \in [Threads -> Labels]
  /\ n \in [Threads -> Nodes \cup {Null}]
  /\ head \in [Threads -> Nodes \cup {Null}]
  /\ tail \in [Threads -> Nodes \cup {Null}]
  /\ nx \in [Threads -> Nodes \cup {Null}]
  /\ val \in [Threads -> Values \cup {NoValue}]
  /\ chain \in Seq(Nodes)

\* ms_queue::ms_queue, which no other thread can observe half done.
Init ==
  /\ head_ = Dummy /\ tail_ = Dummy
  /\ next = [m \in Nodes |-> Null]
  /\ value = [m \in Nodes |-> NoValue]
  /\ heap = {Dummy}
  /\ alive = TRUE /\ p = Null
  /\ pc = [t \in Threads |-> "idle"]
  /\ n = [t \in Threads |-> Null]
  /\ head = [t \in Threads |-> Null]
  /\ tail = [t \in Threads |-> Null]
  /\ nx = [t \in Threads |-> Null]
  /\ val = [t \in Threads |-> NoValue]
  /\ chain = <<Dummy>>

-----------------------------------------------------------------------------
(* Control.                                                                *)

At(t, l)   == pc[t] = l
Goto(t, l) == pc' = [pc EXCEPT ![t] = l]

\* The iteration ends: its locals are gone and control is at l.
EndIteration(t, l) ==
  /\ Goto(t, l)
  /\ head' = [head EXCEPT ![t] = Null]
  /\ tail' = [tail EXCEPT ![t] = Null]
  /\ nx' = [nx EXCEPT ![t] = Null]
  /\ val' = [val EXCEPT ![t] = NoValue]

\* The operation returns: all locals are gone.
Return(t) == EndIteration(t, "idle") /\ n' = [n EXCEPT ![t] = Null]

\* tail_.compare_exchange_weak(tail, next): completes another enqueue.
HelpSwingTail(t) ==
  \/ tail_ = tail[t] /\ tail_' = nx[t]
  \/ UNCHANGED tail_

-----------------------------------------------------------------------------
(* enqueue                                                                 *)

\* new node(value).  The set Nodes bounds how many enqueues a run can have.
EnqCall(t, v) ==
  /\ alive /\ At(t, "idle")
  /\ \E m \in Nodes \ heap :
       /\ heap' = heap \cup {m}
       /\ next' = [next EXCEPT ![m] = Null]
       /\ value' = [value EXCEPT ![m] = v]
       /\ n' = [n EXCEPT ![t] = m]
  /\ Goto(t, "enqProtect")
  /\ UNCHANGED <<head_, tail_, dtorVars, head, tail, nx, val, chain>>

\* tail = g.protect(0, tail_); the leaky guard only loads.
EnqProtect(t) ==
  /\ At(t, "enqProtect") /\ Goto(t, "enqNext")
  /\ tail' = [tail EXCEPT ![t] = tail_]
  /\ UNCHANGED <<queueVars, dtorVars, n, head, nx, val, chain>>

EnqNext(t) ==
  /\ At(t, "enqNext") /\ Goto(t, "enqCheck")
  /\ nx' = [nx EXCEPT ![t] = next[tail[t]]]
  /\ UNCHANGED <<queueVars, dtorVars, n, head, tail, val, chain>>

\* if (tail != tail_) continue; if (next != nullptr) help, else link.
EnqCheck(t) ==
  /\ At(t, "enqCheck")
  /\ \/ tail[t] # tail_ /\ EndIteration(t, "enqProtect")
     \/ /\ tail[t] = tail_
        /\ Goto(t, IF nx[t] # Null THEN "enqHelp" ELSE "enqLink")
        /\ UNCHANGED <<head, tail, nx, val>>
  /\ UNCHANGED <<queueVars, dtorVars, n, chain>>

EnqNoHelp(t) == /\ At(t, "enqHelp") /\ EndIteration(t, "enqProtect")  \* Mutant
                /\ UNCHANGED <<queueVars, dtorVars, n, chain>>
EnqHelp(t) ==
  /\ At(t, "enqHelp") /\ EndIteration(t, "enqProtect")
  /\ HelpSwingTail(t)
  /\ UNCHANGED <<head_, next, value, heap, dtorVars, n, chain>>

AnyTail(t) == TRUE  \* Mutant
\* tail->next.compare_exchange_weak(nullptr, n) may succeed.
AtEnd(t) == next[tail[t]] = Null

\* The node becomes visible, or the iteration is tried again.
EnqLink(t) ==
  /\ At(t, "enqLink")
  /\ \/ /\ AtEnd(t)
        /\ next' = [next EXCEPT ![tail[t]] = n[t]]
        /\ chain' = Append(chain, n[t])
        /\ Goto(t, "enqSwing")
        /\ UNCHANGED <<head, tail, nx, val>>
     \/ EndIteration(t, "enqProtect") /\ UNCHANGED <<next, chain>>
  /\ UNCHANGED <<head_, tail_, value, heap, dtorVars, n>>

ToNext(t)   == IF tail_ = tail[t] THEN nx[t] ELSE tail_  \* Mutant
Stored(t)   == n[t]                                      \* Mutant
NotSwung(t) == tail_                                     \* Mutant
\* tail_.compare_exchange_strong(tail, n); failure means somebody helped.
Swung(t) == IF tail_ = tail[t] THEN n[t] ELSE tail_

EnqSwing(t) ==
  /\ At(t, "enqSwing") /\ Goto(t, "enqRet")
  /\ tail_' = Swung(t)
  /\ UNCHANGED <<head_, next, value, heap, dtorVars,
                 n, head, tail, nx, val, chain>>

EnqReturn(t) ==
  /\ At(t, "enqRet") /\ Return(t)
  /\ UNCHANGED <<queueVars, dtorVars, chain>>

-----------------------------------------------------------------------------
(* try_dequeue                                                             *)

DeqCall(t) ==
  /\ alive /\ At(t, "idle") /\ Goto(t, "deqProtect")
  /\ UNCHANGED <<queueVars, dtorVars, n, head, tail, nx, val, chain>>

DeqProtect(t) ==
  /\ At(t, "deqProtect") /\ Goto(t, "deqTail")
  /\ head' = [head EXCEPT ![t] = head_]
  /\ UNCHANGED <<queueVars, dtorVars, n, tail, nx, val, chain>>

DeqTail(t) ==
  /\ At(t, "deqTail") /\ Goto(t, "deqNext")
  /\ tail' = [tail EXCEPT ![t] = tail_]
  /\ UNCHANGED <<queueVars, dtorVars, n, head, nx, val, chain>>

AfterTail(t) == next[tail[t]]  \* Mutant
AfterHead(t) == next[head[t]]

\* next = head->next; g.set(1, next) does nothing in the leaky guard.
DeqNext(t) ==
  /\ At(t, "deqNext") /\ Goto(t, "deqCheck")
  /\ nx' = [nx EXCEPT ![t] = AfterHead(t)]
  /\ UNCHANGED <<queueVars, dtorVars, n, head, tail, val, chain>>

\* if (head != head_) continue; then empty, lagging tail, or a value.
DeqCheck(t) ==
  /\ At(t, "deqCheck")
  /\ \/ head[t] # head_ /\ EndIteration(t, "deqProtect")
     \/ /\ head[t] = head_
        /\ Goto(t, IF head[t] # tail[t] THEN "deqRead"
                   ELSE IF nx[t] = Null THEN "deqEmpty" ELSE "deqHelp")
        /\ UNCHANGED <<head, tail, nx, val>>
  /\ UNCHANGED <<queueVars, dtorVars, n, chain>>

DeqHelp(t) ==
  /\ At(t, "deqHelp") /\ EndIteration(t, "deqProtect")
  /\ HelpSwingTail(t)
  /\ UNCHANGED <<head_, next, value, heap, dtorVars, n, chain>>

\* T value = next->value, before the CAS makes next the new dummy.
DeqRead(t) ==
  /\ At(t, "deqRead") /\ Goto(t, "deqSwing")
  /\ val' = [val EXCEPT ![t] = value[nx[t]]]
  /\ UNCHANGED <<queueVars, dtorVars, n, head, tail, nx, chain>>

AnyHead(t) == TRUE  \* Mutant
\* head_.compare_exchange_weak(head, next) may succeed.
AtFront(t) == head_ = head[t]

\* The value is this thread's, or the iteration is tried again.
DeqSwing(t) ==
  /\ At(t, "deqSwing")
  /\ \/ /\ AtFront(t)
        /\ head_' = nx[t]
        /\ chain' = Tail(chain)
        /\ Goto(t, "deqRetire")
        /\ UNCHANGED <<head, tail, nx, val>>
     \/ EndIteration(t, "deqProtect") /\ UNCHANGED <<head_, chain>>
  /\ UNCHANGED <<tail_, next, value, heap, dtorVars, n>>

\* reclaimer_.retire(head): leaky_reclaimer keeps the node for ever.
DeqRetire(t) ==
  /\ At(t, "deqRetire") /\ Goto(t, "deqRet")
  /\ UNCHANGED <<queueVars, dtorVars, n, head, tail, nx, val, chain>>

DeqReturn(t) ==
  /\ pc[t] \in {"deqRet", "deqEmpty"} /\ Return(t)
  /\ UNCHANGED <<queueVars, dtorVars, chain>>

-----------------------------------------------------------------------------
(* empty() and the destructor, which the caller must quiesce.              *)

Empty == next[head_] = Null

Quiesced == \A t \in Threads : At(t, "idle")

PastDummy == next[head_]  \* Mutant
FromDummy == head_

DtorStart ==
  /\ alive /\ Quiesced
  /\ alive' = FALSE /\ p' = FromDummy
  /\ UNCHANGED <<queueVars, localVars, chain>>

\* next = p->next; delete p; p = next.
DtorStep ==
  /\ ~alive /\ p # Null
  /\ heap' = heap \ {p} /\ p' = next[p]
  /\ UNCHANGED <<head_, tail_, next, value, alive, localVars, chain>>

-----------------------------------------------------------------------------
EnqStep(t) ==
  \/ EnqProtect(t) \/ EnqNext(t) \/ EnqCheck(t) \/ EnqHelp(t)
  \/ EnqLink(t) \/ EnqSwing(t) \/ EnqReturn(t)

DeqStep(t) ==
  \/ DeqProtect(t) \/ DeqTail(t) \/ DeqNext(t) \/ DeqCheck(t) \/ DeqHelp(t)
  \/ DeqRead(t) \/ DeqSwing(t) \/ DeqRetire(t) \/ DeqReturn(t)

Next ==
  \/ \E t \in Threads :
       \/ \E v \in Values : EnqCall(t, v)
       \/ DeqCall(t)
       \/ EnqStep(t) \/ DeqStep(t)
  \/ DtorStart \/ DtorStep

Spec == Init /\ [][Next]_vars

-----------------------------------------------------------------------------
(* Properties                                                              *)

Last == chain[Len(chain)]

Live == {chain[i] : i \in 1 .. Len(chain)}

(* The list is well formed at every step of every interleaving: following  *)
(* next from head_ meets the nodes of chain, all different and allocated,  *)
(* and then nullptr; tail_ is at the last node or one behind it            *)
(* (DESIGN.md), so it never falls behind head_.                            *)
ListInv ==
  /\ Len(chain) >= 1
  /\ chain[1] = head_
  /\ \A i \in 1 .. Len(chain) - 1 : next[chain[i]] = chain[i + 1]
  /\ next[Last] = Null
  /\ \A i, j \in 1 .. Len(chain) : chain[i] = chain[j] => i = j
  /\ alive => Live \subseteq heap
  /\ tail_ = Last \/ (Len(chain) >= 2 /\ tail_ = chain[Len(chain) - 1])

(* head != tail implies next != nullptr: try_dequeue dereferences next     *)
(* without a test on that branch, relying on the order of its three loads. *)
(* The Relacy model asserts the same in model/queue_model.hpp.             *)
DerefSafe ==
  \A t \in Threads :
    /\ pc[t] \in {"deqRead", "deqSwing", "deqHelp", "enqHelp"} => nx[t] # Null
    /\ pc[t] \in {"enqNext", "enqLink"} => tail[t] \in heap
    /\ pc[t] = "deqNext" => head[t] \in heap

(* When no operation is running the tail lags behind nothing: every        *)
(* enqueue returns only after tail_ passed its node, whoever moved it, so  *)
(* empty() is exact in a quiesced state.                                   *)
QuiescedTail ==
  alive /\ Quiesced => /\ tail_ = Last
                      /\ Empty <=> (head_ = tail_)

(* The destructor deletes only allocated nodes, never twice, and leaves    *)
(* none of the live chain behind; what stays allocated was dequeued before *)
(* and belongs to the reclaimer.                                           *)
DtorInv ==
  ~alive => /\ p # Null => p \in heap
            /\ p = Null => Live \cap heap = {}

(* A next pointer that was set is never changed again: a dequeued node     *)
(* keeps its successor, which try_dequeue's choice of validating head_     *)
(* rather than head->next depends on.                                      *)
LinkedOnce == [][\A m \in heap : next[m] # Null => next'[m] = next[m]]_vars

(* The abstract queue: the values of the chain without its dummy.          *)
QueueOf == [i \in 1 .. Len(chain) - 1 |-> value[chain[i + 1]]]

(* How far thread t's operation is: the link CAS is the effect of enqueue, *)
(* the head_ CAS that of try_dequeue, and an empty answer is decided by    *)
(* the load of head->next although head_ is validated only afterwards.     *)
PendOf(t) ==
  CASE pc[t] = "idle" -> [op |-> "idle"]
    [] pc[t] \in PreLink -> [op |-> "enq", val |-> value[n[t]]]
    [] pc[t] \in PostLink -> [op |-> "enqueued"]
    [] pc[t] \in {"deqRetire", "deqRet"} -> [op |-> "dequeued", val |-> val[t]]
    [] \/ pc[t] = "deqEmpty"
       \/ pc[t] = "deqCheck" /\ head[t] = tail[t] /\ nx[t] = Null
         -> [op |-> "empty"]
    [] OTHER -> [op |-> "deq"]

Abstract == INSTANCE FIFO WITH queue <- QueueOf,
                               pend <- [t \in Threads |-> PendOf(t)]

(* The queue is a linearizable FIFO: nothing is lost, duplicated or        *)
(* reordered, and an empty answer is given only if the queue was empty     *)
(* during the call.                                                        *)
Linearizable == Abstract!Spec
=============================================================================

--------------------------- MODULE MSQueue_proofs ---------------------------
(***************************************************************************)
(* Machine-checked proofs about MSQueue, for any number of threads, nodes  *)
(* and values: IInv of MSQueueInv is an inductive invariant, hence the     *)
(* safety properties of MSQueue hold in every reachable state, next        *)
(* pointers are written once, and the queue implements FIFO.               *)
(*                                                                         *)
(* Order: facts about chain; what the invariant says about shared nodes;   *)
(* one lemma per action; the theorems; the refinement.  Then all of it     *)
(* over hp_reclaimer, where two results are put together: what is shown    *)
(* here of the queue's steps, which do not notice that nodes are freed as  *)
(* long as none is in use, and what HazardDomain_proofs shows of the       *)
(* domain's, which free no node that a slot has named since before it was  *)
(* retired.                                                                *)
(***************************************************************************)
EXTENDS MSQueueHP, MSQueueInv, SequenceTheorems, TLAPS

-----------------------------------------------------------------------------
(* The ghost sequence chain.                                               *)

\* The chain always has its dummy.
LEMMA ChainLen ==
  ASSUME TypeOK, ListInv
  PROVE  /\ Len(chain) \in Nat /\ Len(chain) >= 1
         /\ Len(chain) # 1 => Len(chain) \in 2 .. Len(chain)
         /\ Last \in Live
<1>1. Len(chain) \in Nat /\ Len(chain) >= 1
  BY DEF TypeOK, ListInv
<1>2. Len(chain) \in 1 .. Len(chain)
  BY <1>1
<1>3. Last \in Live
  BY <1>2 DEF Last, Live
<1>4. \A j \in Nat : j >= 1 => j = 1 \/ j \in 2 .. j
  OBVIOUS
<1> QED BY <1>1, <1>3, <1>4

\* Linking a node (EnqLink) appends it to chain.
LEMMA AppendChain ==
  ASSUME chain \in Seq(Nodes), NEW m \in Nodes, chain' = Append(chain, m)
  PROVE  /\ chain' \in Seq(Nodes)
         /\ Len(chain') = Len(chain) + 1
         /\ \A i \in 1 .. Len(chain) : chain'[i] = chain[i]
         /\ chain'[Len(chain) + 1] = m
         /\ Last' = m
         /\ Live' = Live \cup {m}
<1>1. /\ chain' \in Seq(Nodes) /\ Len(chain') = Len(chain) + 1
      /\ \A i \in 1 .. Len(chain) : chain'[i] = chain[i]
      /\ chain'[Len(chain) + 1] = m
  OBVIOUS
<1>2. Last' = m
  BY <1>1 DEF Last
<1>3. Live' = Live \cup {m}
  BY <1>1 DEF Live
<1> QED BY <1>1, <1>2, <1>3

\* Swinging head_ (DeqSwing) drops the first node of chain.
LEMMA TailChain ==
  ASSUME chain \in Seq(Nodes), Len(chain) >= 2, chain' = Tail(chain)
  PROVE  /\ chain' \in Seq(Nodes)
         /\ Len(chain') = Len(chain) - 1
         /\ \A i \in 1 .. Len(chain) - 1 : chain'[i] = chain[i + 1]
         /\ Last' = Last
         /\ Live' = {chain[i] : i \in 2 .. Len(chain)}
<1>1. /\ chain' \in Seq(Nodes) /\ Len(chain') = Len(chain) - 1
      /\ \A i \in 1 .. Len(chain) - 1 : chain'[i] = chain[i + 1]
  OBVIOUS
<1>2. Last' = Last
  BY <1>1 DEF Last
<1>3. Live' = {chain[i] : i \in 2 .. Len(chain)}
  <2>1. Live' = {chain[i + 1] : i \in 1 .. Len(chain) - 1}
    BY <1>1 DEF Live
  <2>2. ASSUME NEW i \in 2 .. Len(chain)
        PROVE  i - 1 \in 1 .. Len(chain) - 1 /\ chain[i] = chain[(i - 1) + 1]
    OBVIOUS
  <2> QED BY <2>1, <2>2
<1> QED BY <1>1, <1>2, <1>3

\* If tail_ has a successor, that is the last node, and tail_ may move to it.
LEMMA SwingForward ==
  ASSUME TypeOK, ListInv, next[tail_] # Null
  PROVE  /\ Len(chain) >= 2
         /\ tail_ = chain[Len(chain) - 1]
         /\ next[tail_] = Last
         /\ Last # head_ /\ Last \in Nodes
BY DEF TypeOK, ListInv, Last

-----------------------------------------------------------------------------
(* What the invariant says about the nodes threads hold.                   *)

\* A thread inside an operation proves that the destructor has not started.
LEMMA RunningAlive ==
  ASSUME IInv, NEW t \in Threads, pc[t] # "idle"
  PROVE  alive /\ NodeInv /\ EnqInv /\ DeqInv
BY DEF IInv, Quiesced, At

\* The live chain, head_ and tail_ in particular, is shared.
LEMMA LiveShared ==
  ASSUME TypeOK, ListInv, NodeInv, alive
  PROVE  Live \subseteq Shared /\ head_ \in Live /\ tail_ \in Live
<1>1. head_ \in Live /\ tail_ \in Live
  BY DEF TypeOK, ListInv, Live, Last
<1>2. Live \cap Private = {}
  BY DEF NodeInv, Private
<1> QED BY <1>1, <1>2 DEF Shared, ListInv

\* A shared node is the last one or has a successor.
LEMMA SharedNext ==
  ASSUME TypeOK, ListInv, NodeInv, alive, NEW m \in Shared
  PROVE  /\ m \in Nodes
         /\ next[m] = Null => m = Last
         /\ next[m] # Null => next[m] \in Nodes
         /\ next[m] # Null /\ m \in Live => next[m] \in Shared
<1>1. m \in Nodes /\ next[m] \in Nodes \cup {Null}
  BY DEF TypeOK, Shared
<1>2. CASE m \in Live
  <2>1. PICK i \in 1 .. Len(chain) : m = chain[i]
    BY <1>2 DEF Live
  <2>2. i # Len(chain) => i + 1 \in 1 .. Len(chain) /\ next[m] = chain[i + 1]
    BY <2>1 DEF ListInv, TypeOK
  <2>3. i # Len(chain) => next[m] \in Shared
    BY <2>2, LiveShared DEF Live
  <2>4. i = Len(chain) => m = Last /\ next[m] = Null
    BY <2>1 DEF ListInv, Last
  <2>5. i # Len(chain) => next[m] \in Nodes
    BY <2>2 DEF TypeOK
  <2> QED BY <1>1, <2>3, <2>4, <2>5, ConstAssumption
<1>3. CASE m \notin Live
  BY <1>1, <1>3, ConstAssumption DEF NodeInv, Shared, TypeOK
<1> QED BY <1>2, <1>3

\* NodeInv survives a step that changes no node and no enqueue's progress.
LEMMA NodeFrame ==
  ASSUME NodeInv, UNCHANGED <<next, value, heap, chain>>,
         \A u \in Threads : (pc'[u] \in PreLink) <=> (pc[u] \in PreLink),
         \A u \in Threads : pc[u] \in PreLink => n'[u] = n[u]
  PROVE  NodeInv' /\ Shared' = Shared /\ Private' = Private
<1>1. Private' = Private
  BY DEF Private
<1>2. Live' = Live /\ Shared' = Shared
  BY <1>1 DEF Live, Shared
<1> QED BY <1>1, <1>2 DEF NodeInv

\* ListInv survives a step that changes no part of the list.
LEMMA ListFrame ==
  ASSUME ListInv, UNCHANGED <<head_, tail_, next, heap, alive, chain>>
  PROVE  ListInv' /\ Last' = Last /\ Live' = Live
BY DEF ListInv, Last, Live

\* ListInv when tail_ moves to its successor, as helpers and linkers move it.
LEMMA TailFrame ==
  ASSUME TypeOK, ListInv, next[tail_] # Null, tail_' = next[tail_],
         UNCHANGED <<head_, next, heap, alive, chain>>
  PROVE  /\ ListInv' /\ Last' = Last /\ Live' = Live
         /\ tail_' = Last /\ Last # head_
<1>1. Last' = Last /\ Live' = Live /\ tail_' = Last /\ Last # head_
  BY SwingForward DEF Last, Live
<1> QED BY <1>1 DEF ListInv

-----------------------------------------------------------------------------
(* Steps that only touch the stepping thread's locals.                     *)

\* What such a step leaves alone.
LocalStep(t) ==
  /\ UNCHANGED <<queueVars, dtorVars, chain>>
  /\ \A u \in Threads : (pc'[u] \in PreLink) <=> (pc[u] \in PreLink)
  /\ \A u \in Threads : pc[u] \in PreLink => n'[u] = n[u]
  /\ \A u \in Threads : pc[u] = "enqSwing" =>
       pc'[u] = "enqSwing" /\ tail'[u] = tail[u] /\ n'[u] = n[u]

\* A local step keeps the part of the invariant that is about the list.
LEMMA LocalFrame ==
  ASSUME IInv, alive, NEW t \in Threads, LocalStep(t)
  PROVE  /\ TypeOK /\ ListInv /\ NodeInv /\ EnqInv /\ DeqInv /\ LagInv
         /\ ListInv' /\ NodeInv' /\ LagInv' /\ alive'
         /\ Shared' = Shared /\ Last' = Last
<1>1. TypeOK /\ ListInv /\ NodeInv /\ EnqInv /\ DeqInv /\ LagInv
  BY DEF IInv
<1>2. ListInv' /\ Last' = Last
  BY <1>1, ListFrame DEF LocalStep, queueVars, dtorVars
<1>3. NodeInv' /\ Shared' = Shared
  BY <1>1, NodeFrame DEF LocalStep, queueVars
<1>4. LagInv'
  BY <1>1, <1>2 DEF LagInv, LocalStep, queueVars
<1> QED BY <1>1, <1>2, <1>3, <1>4 DEF LocalStep, dtorVars

\* IInv is preserved by the load of tail_ that starts an enqueue iteration.
LEMMA EnqProtectInv ==
  ASSUME IInv, NEW t \in Threads, EnqProtect(t)
  PROVE  IInv'
<1> USE DEF EnqProtect, At, Goto
<1>1. alive /\ TypeOK /\ ListInv /\ NodeInv /\ EnqInv /\ DeqInv
  BY RunningAlive DEF IInv
<1>2. LocalStep(t)
  BY <1>1 DEF LocalStep, PreLink, TypeOK
<1>3. TypeOK'
  BY <1>1, ConstAssumption DEF TypeOK, Labels, PreLink, PostLink, InDeq, EnqInv, DeqInv,
       HasHead, HasTail, HasNext, Shared, queueVars, dtorVars
<1>4. EnqInv'
  BY <1>1, <1>2, LocalFrame, LiveShared DEF EnqInv, PreLink, TypeOK, queueVars
<1>5. DeqInv'
  BY <1>1, <1>2, LocalFrame, LiveShared, SharedNext, ConstAssumption
  DEF DeqInv, HasHead, HasTail, HasNext, TypeOK, ListInv, NodeInv, queueVars
<1> QED BY <1>1, <1>2, <1>3, <1>4, <1>5, LocalFrame DEF IInv

\* IInv is preserved by enqueue's load of tail->next.
LEMMA EnqNextInv ==
  ASSUME IInv, NEW t \in Threads, EnqNext(t)
  PROVE  IInv'
<1> USE DEF EnqNext, At, Goto
<1>1. alive /\ TypeOK /\ ListInv /\ NodeInv /\ EnqInv /\ DeqInv
  BY RunningAlive DEF IInv
<1>2. LocalStep(t)
  BY <1>1 DEF LocalStep, PreLink, TypeOK
<1>3. TypeOK'
  BY <1>1, ConstAssumption DEF TypeOK, Labels, PreLink, PostLink, InDeq, EnqInv, DeqInv,
       HasHead, HasTail, HasNext, Shared, queueVars, dtorVars
<1>4. EnqInv'
  BY <1>1, <1>2, LocalFrame, LiveShared DEF EnqInv, PreLink, TypeOK, queueVars
<1>5. DeqInv'
  BY <1>1, <1>2, LocalFrame, LiveShared, SharedNext, ConstAssumption
  DEF DeqInv, HasHead, HasTail, HasNext, TypeOK, ListInv, NodeInv, queueVars
<1> QED BY <1>1, <1>2, <1>3, <1>4, <1>5, LocalFrame DEF IInv

\* IInv is preserved by enqueue's recheck of tail_.
LEMMA EnqCheckInv ==
  ASSUME IInv, NEW t \in Threads, EnqCheck(t)
  PROVE  IInv'
<1> USE DEF EnqCheck, At, Goto, EndIteration
<1>1. alive /\ TypeOK /\ ListInv /\ NodeInv /\ EnqInv /\ DeqInv
  BY RunningAlive DEF IInv
<1>2. LocalStep(t)
  BY <1>1 DEF LocalStep, PreLink, TypeOK
<1>3. TypeOK'
  BY <1>1, ConstAssumption DEF TypeOK, Labels, PreLink, PostLink, InDeq, EnqInv, DeqInv,
       HasHead, HasTail, HasNext, Shared, queueVars, dtorVars
<1>4. EnqInv'
  BY <1>1, <1>2, LocalFrame, LiveShared DEF EnqInv, PreLink, TypeOK, queueVars
<1>5. DeqInv'
  BY <1>1, <1>2, LocalFrame, LiveShared, SharedNext, ConstAssumption
  DEF DeqInv, HasHead, HasTail, HasNext, TypeOK, ListInv, NodeInv, queueVars
<1> QED BY <1>1, <1>2, <1>3, <1>4, <1>5, LocalFrame DEF IInv

\* IInv is preserved by enqueue's return.
LEMMA EnqReturnInv ==
  ASSUME IInv, NEW t \in Threads, EnqReturn(t)
  PROVE  IInv'
<1> USE DEF EnqReturn, At, Goto, EndIteration, Return
<1>1. alive /\ TypeOK /\ ListInv /\ NodeInv /\ EnqInv /\ DeqInv
  BY RunningAlive DEF IInv
<1>2. LocalStep(t)
  BY <1>1 DEF LocalStep, PreLink, TypeOK
<1>3. TypeOK'
  BY <1>1, ConstAssumption DEF TypeOK, Labels, PreLink, PostLink, InDeq, EnqInv, DeqInv,
       HasHead, HasTail, HasNext, Shared, queueVars, dtorVars
<1>4. EnqInv'
  BY <1>1, <1>2, LocalFrame, LiveShared DEF EnqInv, PreLink, TypeOK, queueVars
<1>5. DeqInv'
  BY <1>1, <1>2, LocalFrame, LiveShared, SharedNext, ConstAssumption
  DEF DeqInv, HasHead, HasTail, HasNext, TypeOK, ListInv, NodeInv, queueVars
<1> QED BY <1>1, <1>2, <1>3, <1>4, <1>5, LocalFrame DEF IInv

\* IInv is preserved by the call of try_dequeue.
LEMMA DeqCallInv ==
  ASSUME IInv, NEW t \in Threads, DeqCall(t)
  PROVE  IInv'
<1> USE DEF DeqCall, At, Goto
<1>1. alive /\ TypeOK /\ ListInv /\ NodeInv /\ EnqInv /\ DeqInv
  BY DEF IInv
<1>2. LocalStep(t)
  BY <1>1 DEF LocalStep, PreLink, TypeOK
<1>3. TypeOK'
  BY <1>1, ConstAssumption DEF TypeOK, Labels, PreLink, PostLink, InDeq, EnqInv, DeqInv,
       HasHead, HasTail, HasNext, Shared, queueVars, dtorVars
<1>4. EnqInv'
  BY <1>1, <1>2, LocalFrame, LiveShared DEF EnqInv, PreLink, TypeOK, queueVars
<1>5. DeqInv'
  BY <1>1, <1>2, LocalFrame, LiveShared, SharedNext, ConstAssumption
  DEF DeqInv, HasHead, HasTail, HasNext, TypeOK, ListInv, NodeInv, queueVars
<1> QED BY <1>1, <1>2, <1>3, <1>4, <1>5, LocalFrame DEF IInv

\* IInv is preserved by the load of head_ that starts a try_dequeue iteration.
LEMMA DeqProtectInv ==
  ASSUME IInv, NEW t \in Threads, DeqProtect(t)
  PROVE  IInv'
<1> USE DEF DeqProtect, At, Goto
<1>1. alive /\ TypeOK /\ ListInv /\ NodeInv /\ EnqInv /\ DeqInv
  BY RunningAlive DEF IInv
<1>2. LocalStep(t)
  BY <1>1 DEF LocalStep, PreLink, TypeOK
<1>3. TypeOK'
  BY <1>1, ConstAssumption DEF TypeOK, Labels, PreLink, PostLink, InDeq, EnqInv, DeqInv,
       HasHead, HasTail, HasNext, Shared, queueVars, dtorVars
<1>4. EnqInv'
  BY <1>1, <1>2, LocalFrame, LiveShared DEF EnqInv, PreLink, TypeOK, queueVars
<1>5. DeqInv'
  BY <1>1, <1>2, LocalFrame, LiveShared, SharedNext, ConstAssumption
  DEF DeqInv, HasHead, HasTail, HasNext, TypeOK, ListInv, NodeInv, queueVars
<1> QED BY <1>1, <1>2, <1>3, <1>4, <1>5, LocalFrame DEF IInv

\* IInv is preserved by try_dequeue's load of tail_.
LEMMA DeqTailInv ==
  ASSUME IInv, NEW t \in Threads, DeqTail(t)
  PROVE  IInv'
<1> USE DEF DeqTail, At, Goto
<1>1. alive /\ TypeOK /\ ListInv /\ NodeInv /\ EnqInv /\ DeqInv
  BY RunningAlive DEF IInv
<1>2. LocalStep(t)
  BY <1>1 DEF LocalStep, PreLink, TypeOK
<1>3. TypeOK'
  BY <1>1, ConstAssumption DEF TypeOK, Labels, PreLink, PostLink, InDeq, EnqInv, DeqInv,
       HasHead, HasTail, HasNext, Shared, queueVars, dtorVars
<1>4. EnqInv'
  BY <1>1, <1>2, LocalFrame, LiveShared DEF EnqInv, PreLink, TypeOK, queueVars
<1>5. DeqInv'
  BY <1>1, <1>2, LocalFrame, LiveShared, SharedNext, ConstAssumption
  DEF DeqInv, HasHead, HasTail, HasNext, TypeOK, ListInv, NodeInv, queueVars
<1> QED BY <1>1, <1>2, <1>3, <1>4, <1>5, LocalFrame DEF IInv

\* IInv is preserved by try_dequeue's load of head->next.
LEMMA DeqNextInv ==
  ASSUME IInv, NEW t \in Threads, DeqNext(t)
  PROVE  IInv'
<1> USE DEF DeqNext, AfterHead, At, Goto
<1>1. alive /\ TypeOK /\ ListInv /\ NodeInv /\ EnqInv /\ DeqInv
  BY RunningAlive DEF IInv
<1>2. LocalStep(t)
  BY <1>1 DEF LocalStep, PreLink, TypeOK
<1>3. TypeOK'
  BY <1>1, ConstAssumption DEF TypeOK, Labels, PreLink, PostLink, InDeq, EnqInv, DeqInv,
       HasHead, HasTail, HasNext, Shared, queueVars, dtorVars
<1>4. EnqInv'
  BY <1>1, <1>2, LocalFrame, LiveShared DEF EnqInv, PreLink, TypeOK, queueVars
<1>5. tail[t] # head[t] => next[head[t]] # Null
  <2>1. next[head[t]] = Null => head[t] = Last
    BY <1>1, SharedNext DEF DeqInv, HasHead
  <2>2. head[t] = Last => Len(chain) = 1
    <3>1. Len(chain) # 1 => Len(chain) \in 2 .. Len(chain)
      BY <1>1, ChainLen
    <3> QED BY <1>1, <3>1 DEF DeqInv, HasHead, Last
  <2>3. Len(chain) = 1 => head_ = Last /\ tail_ = Last
    BY <1>1 DEF ListInv, Last, TypeOK
  <2> QED BY <1>1, <2>1, <2>2, <2>3 DEF DeqInv, HasTail, HasHead
<1>6. DeqInv'
  BY <1>1, <1>2, <1>5, LocalFrame DEF DeqInv, HasHead, HasTail, HasNext, TypeOK, queueVars
<1> QED BY <1>1, <1>2, <1>3, <1>4, <1>6, LocalFrame DEF IInv

\* IInv is preserved by try_dequeue's recheck of head_.
LEMMA DeqCheckInv ==
  ASSUME IInv, NEW t \in Threads, DeqCheck(t)
  PROVE  IInv'
<1> USE DEF DeqCheck, At, Goto, EndIteration
<1>1. alive /\ TypeOK /\ ListInv /\ NodeInv /\ EnqInv /\ DeqInv
  BY RunningAlive DEF IInv
<1>2. LocalStep(t)
  BY <1>1 DEF LocalStep, PreLink, TypeOK
<1>3. TypeOK'
  BY <1>1, ConstAssumption DEF TypeOK, Labels, PreLink, PostLink, InDeq, EnqInv, DeqInv,
       HasHead, HasTail, HasNext, Shared, queueVars, dtorVars
<1>4. EnqInv'
  BY <1>1, <1>2, LocalFrame, LiveShared DEF EnqInv, PreLink, TypeOK, queueVars
<1>5. DeqInv'
  BY <1>1, <1>2, LocalFrame, LiveShared, SharedNext, ConstAssumption
  DEF DeqInv, HasHead, HasTail, HasNext, TypeOK, ListInv, NodeInv, queueVars
<1> QED BY <1>1, <1>2, <1>3, <1>4, <1>5, LocalFrame DEF IInv

\* IInv is preserved by try_dequeue's copy of the value.
LEMMA DeqReadInv ==
  ASSUME IInv, NEW t \in Threads, DeqRead(t)
  PROVE  IInv'
<1> USE DEF DeqRead, At, Goto
<1>1. alive /\ TypeOK /\ ListInv /\ NodeInv /\ EnqInv /\ DeqInv
  BY RunningAlive DEF IInv
<1>2. LocalStep(t)
  BY <1>1 DEF LocalStep, PreLink, TypeOK
<1>3. TypeOK'
  BY <1>1, ConstAssumption DEF TypeOK, Labels, PreLink, PostLink, InDeq, EnqInv, DeqInv,
       HasHead, HasTail, HasNext, Shared, queueVars, dtorVars
<1>4. EnqInv'
  BY <1>1, <1>2, LocalFrame, LiveShared DEF EnqInv, PreLink, TypeOK, queueVars
<1>5. DeqInv'
  BY <1>1, <1>2, LocalFrame, LiveShared, SharedNext, ConstAssumption
  DEF DeqInv, HasHead, HasTail, HasNext, TypeOK, ListInv, NodeInv, queueVars
<1> QED BY <1>1, <1>2, <1>3, <1>4, <1>5, LocalFrame DEF IInv

\* IInv is preserved by the retirement of the old dummy.
LEMMA DeqRetireInv ==
  ASSUME IInv, NEW t \in Threads, DeqRetire(t)
  PROVE  IInv'
<1> USE DEF DeqRetire, At, Goto
<1>1. alive /\ TypeOK /\ ListInv /\ NodeInv /\ EnqInv /\ DeqInv
  BY RunningAlive DEF IInv
<1>2. LocalStep(t)
  BY <1>1 DEF LocalStep, PreLink, TypeOK
<1>3. TypeOK'
  BY <1>1, ConstAssumption DEF TypeOK, Labels, PreLink, PostLink, InDeq, EnqInv, DeqInv,
       HasHead, HasTail, HasNext, Shared, queueVars, dtorVars
<1>4. EnqInv'
  BY <1>1, <1>2, LocalFrame, LiveShared DEF EnqInv, PreLink, TypeOK, queueVars
<1>5. DeqInv'
  BY <1>1, <1>2, LocalFrame, LiveShared, SharedNext, ConstAssumption
  DEF DeqInv, HasHead, HasTail, HasNext, TypeOK, ListInv, NodeInv, queueVars
<1> QED BY <1>1, <1>2, <1>3, <1>4, <1>5, LocalFrame DEF IInv

\* IInv is preserved by try_dequeue's return.
LEMMA DeqReturnInv ==
  ASSUME IInv, NEW t \in Threads, DeqReturn(t)
  PROVE  IInv'
<1> USE DEF DeqReturn, At, Goto, EndIteration, Return
<1>1. alive /\ TypeOK /\ ListInv /\ NodeInv /\ EnqInv /\ DeqInv
  BY RunningAlive DEF IInv
<1>2. LocalStep(t)
  BY <1>1 DEF LocalStep, PreLink, TypeOK
<1>3. TypeOK'
  BY <1>1, ConstAssumption DEF TypeOK, Labels, PreLink, PostLink, InDeq, EnqInv, DeqInv,
       HasHead, HasTail, HasNext, Shared, queueVars, dtorVars
<1>4. EnqInv'
  BY <1>1, <1>2, LocalFrame, LiveShared DEF EnqInv, PreLink, TypeOK, queueVars
<1>5. DeqInv'
  BY <1>1, <1>2, LocalFrame, LiveShared, SharedNext, ConstAssumption
  DEF DeqInv, HasHead, HasTail, HasNext, TypeOK, ListInv, NodeInv, queueVars
<1> QED BY <1>1, <1>2, <1>3, <1>4, <1>5, LocalFrame DEF IInv

-----------------------------------------------------------------------------
(* Steps that change what other threads can see.                           *)

\* IInv is preserved by the call of enqueue, which allocates a node nobody
\* else knows.
LEMMA EnqCallInv ==
  ASSUME IInv, NEW t \in Threads, NEW v \in Values, EnqCall(t, v)
  PROVE  IInv'
<1> USE DEF EnqCall, At, Goto
<1>1. alive /\ TypeOK /\ ListInv /\ NodeInv /\ EnqInv /\ DeqInv /\ LagInv
  BY DEF IInv
<1>2. PICK m \in Nodes \ heap :
        /\ heap' = heap \cup {m}
        /\ next' = [next EXCEPT ![m] = Null]
        /\ value' = [value EXCEPT ![m] = v]
        /\ n' = [n EXCEPT ![t] = m]
  OBVIOUS
<1>3. TypeOK'
  BY <1>1, <1>2 DEF TypeOK, Labels, PreLink, dtorVars
<1>4. Last' = Last /\ Live' = Live /\ m \notin Live
  BY <1>1, <1>2 DEF Last, Live, ListInv
<1>5. /\ Private' = Private \cup {m} /\ Shared' = Shared
      /\ \A x \in Shared : x # m /\ next'[x] = next[x] /\ value'[x] = value[x]
  <2>1. Private \subseteq heap
    BY <1>1 DEF Private, NodeInv
  <2>2. Private' = Private \cup {m}
    BY <1>1, <1>2 DEF Private, PreLink, TypeOK
  <2>3. \A x \in Shared : x # m /\ next'[x] = next[x] /\ value'[x] = value[x]
    BY <1>1, <1>2 DEF Shared, TypeOK
  <2> QED BY <1>2, <2>1, <2>2, <2>3 DEF Shared
<1>6. ListInv'
  <2>1. \A i \in 1 .. Len(chain) : chain[i] \in Live
    BY DEF Live
  <2>2. \A i \in 1 .. Len(chain) : next'[chain[i]] = next[chain[i]]
    BY <1>1, <1>5, <2>1, LiveShared
  <2>3. Last \in Live
    BY <1>1, <2>1 DEF Last, ListInv, TypeOK
  <2> QED BY <1>1, <1>2, <1>4, <2>2, <2>3 DEF ListInv, Last, TypeOK, dtorVars
<1>7. NodeInv'
  <2>1. ASSUME NEW u \in Threads, pc'[u] \in PreLink
        PROVE  /\ n'[u] \in heap' \ Live' /\ next'[n'[u]] = Null
               /\ value'[n'[u]] \in Values
               /\ \A w \in Threads : pc'[w] \in PreLink /\ n'[w] = n'[u] => w = u
    BY <1>1, <1>2, <1>4, <2>1 DEF NodeInv, PreLink, TypeOK
  <2>2. ASSUME NEW x \in Shared' \ Live' PROVE next'[x] # Null
    BY <1>1, <1>4, <1>5 DEF NodeInv
  <2>3. \A i \in 2 .. Len(chain') : value'[chain'[i]] \in Values
    BY <1>1, <1>2, <1>4 DEF NodeInv, Live, TypeOK
  <2> QED BY <2>1, <2>2, <2>3 DEF NodeInv
<1>8. EnqInv'
  BY <1>1, <1>2, <1>4, <1>5 DEF EnqInv, PreLink, TypeOK
<1>9. DeqInv'
  BY <1>1, <1>2, <1>5, SharedNext
  DEF DeqInv, HasHead, HasTail, HasNext, PreLink, TypeOK
<1>10. LagInv'
  BY <1>1, <1>2, <1>4 DEF LagInv, TypeOK
<1> QED BY <1>1, <1>3, <1>6, <1>7, <1>8, <1>9, <1>10 DEF IInv, dtorVars

\* IInv is preserved when a thread that ends its iteration moves a lagging
\* tail_, from enqueue or from try_dequeue.
LEMMA HelpInv ==
  ASSUME IInv, NEW t \in Threads, EnqHelp(t) \/ DeqHelp(t)
  PROVE  IInv'
<1> USE DEF EnqHelp, DeqHelp, At, Goto, EndIteration, HelpSwingTail
<1>1. alive /\ TypeOK /\ ListInv /\ NodeInv /\ EnqInv /\ DeqInv /\ LagInv
  BY RunningAlive DEF IInv
<1>2. NodeInv' /\ Shared' = Shared
  BY <1>1, NodeFrame DEF PreLink, TypeOK
<1>3. TypeOK'
  <2>1. CASE UNCHANGED tail_
    BY <1>1, <2>1 DEF TypeOK, Labels, PreLink, InDeq, dtorVars
  <2>2. CASE tail_ = tail[t] /\ tail_' = nx[t]
    <3>1. nx[t] \in Nodes
      BY <1>1, <2>2 DEF TypeOK, EnqInv, DeqInv, HasHead, HasTail, HasNext
    <3> QED BY <1>1, <2>2, <3>1 DEF TypeOK, Labels, PreLink, InDeq, dtorVars
  <2> QED BY <2>1, <2>2
<1>4. /\ ListInv' /\ Last' = Last
      /\ tail_' = tail_ \/ (tail_' = Last /\ Last # head_)
  <2>1. CASE UNCHANGED tail_
    BY <1>1, <2>1, ListFrame DEF dtorVars
  <2>2. CASE tail_ = tail[t] /\ tail_' = nx[t]
    <3>1. next[tail_] # Null /\ nx[t] = next[tail_]
      BY <1>1, <2>2 DEF EnqInv, DeqInv, HasHead, HasTail, HasNext
    <3> QED BY <1>1, <2>2, <3>1, TailFrame DEF dtorVars
  <2> QED BY <2>1, <2>2
<1>5. EnqInv'
  BY <1>1, <1>2, <1>4 DEF EnqInv, PreLink, TypeOK
<1>6. DeqInv'
  BY <1>1, <1>2, <1>4 DEF DeqInv, HasHead, HasTail, HasNext, TypeOK
<1>7. LagInv'
  BY <1>1, <1>4 DEF LagInv, TypeOK
<1> QED BY <1>1, <1>2, <1>3, <1>4, <1>5, <1>6, <1>7 DEF IInv, dtorVars

\* IInv is preserved by the strong CAS that swings tail_ to the new node.
LEMMA EnqSwingInv ==
  ASSUME IInv, NEW t \in Threads, EnqSwing(t)
  PROVE  IInv'
<1> USE DEF EnqSwing, Swung, At, Goto
<1>1. alive /\ TypeOK /\ ListInv /\ NodeInv /\ EnqInv /\ DeqInv /\ LagInv
  BY RunningAlive DEF IInv
<1>2. NodeInv' /\ Shared' = Shared
  BY <1>1, NodeFrame DEF PreLink, TypeOK
<1>3. TypeOK'
  BY <1>1 DEF TypeOK, Labels, PostLink, dtorVars, EnqInv
<1>4. /\ ListInv' /\ Last' = Last
      /\ tail_' = tail_ \/ (tail_' = Last /\ Last # head_)
  <2>1. CASE tail_ # tail[t]
    BY <1>1, <2>1, ListFrame DEF dtorVars
  <2>2. CASE tail_ = tail[t]
    <3>1. next[tail_] # Null /\ n[t] = next[tail_]
      BY <1>1, <2>2 DEF EnqInv
    <3> QED BY <1>1, <2>2, <3>1, TailFrame DEF dtorVars
  <2> QED BY <2>1, <2>2
<1>5. EnqInv'
  BY <1>1, <1>2, <1>4 DEF EnqInv, PreLink, TypeOK
<1>6. DeqInv'
  BY <1>1, <1>2, <1>4 DEF DeqInv, HasHead, HasTail, HasNext, TypeOK
<1>7. LagInv'
  <2>1. tail_ = tail[t] => tail_' = Last
    BY <1>1, TailFrame DEF EnqInv, dtorVars
  <2> QED BY <1>1, <1>4, <2>1 DEF LagInv, TypeOK
<1> QED BY <1>1, <1>2, <1>3, <1>4, <1>5, <1>6, <1>7 DEF IInv, dtorVars

\* IInv is preserved by the CAS on tail->next, which publishes the node.
LEMMA EnqLinkInv ==
  ASSUME IInv, NEW t \in Threads, EnqLink(t)
  PROVE  IInv'
<1> USE DEF EnqLink, AtEnd, At, Goto
<1>1. alive /\ TypeOK /\ ListInv /\ NodeInv /\ EnqInv /\ DeqInv /\ LagInv
  BY RunningAlive DEF IInv
<1>2. pc' \in [Threads -> Labels] /\ n[t] \in Nodes
  BY <1>1 DEF TypeOK, Labels, PreLink, PostLink, NodeInv, EndIteration
<1>3. CASE EndIteration(t, "enqProtect") /\ UNCHANGED <<next, chain>>
  <2> USE <1>3 DEF EndIteration
  <2>1. LocalStep(t)
    BY <1>1 DEF LocalStep, queueVars, dtorVars, PreLink, TypeOK
  <2>2. EnqInv'
    BY <1>1, <2>1, LocalFrame DEF EnqInv, PreLink, TypeOK
  <2>3. DeqInv'
    BY <1>1, <2>1, LocalFrame DEF DeqInv, HasHead, HasTail, HasNext, TypeOK
  <2>4. TypeOK'
    BY <1>1, <1>2 DEF TypeOK, dtorVars
  <2> QED BY <1>1, <2>1, <2>2, <2>3, <2>4, LocalFrame DEF IInv
<1>4. CASE /\ next[tail[t]] = Null
           /\ next' = [next EXCEPT ![tail[t]] = n[t]]
           /\ chain' = Append(chain, n[t])
           /\ pc' = [pc EXCEPT ![t] = "enqSwing"]
           /\ UNCHANGED <<head, tail, nx, val>>
  <2> USE <1>4
  <2>1. /\ tail[t] = Last /\ tail_ = Last /\ tail[t] \in Shared
        /\ n[t] \in Nodes \ Live /\ n[t] \in heap \ Shared /\ n[t] # Null
        /\ next[n[t]] = Null /\ value[n[t]] \in Values
    <3>1. tail[t] \in Shared /\ (tail[t] = Last => tail_ = Last)
      BY <1>1 DEF EnqInv, PreLink
    <3>2. n[t] \in heap \ Live /\ next[n[t]] = Null /\ value[n[t]] \in Values
      BY <1>1 DEF NodeInv, PreLink
    <3>3. n[t] \in Private
      BY DEF Private, PreLink
    <3> QED BY <1>1, <3>1, <3>2, <3>3, SharedNext, ConstAssumption
            DEF Shared, TypeOK
  <2>2. /\ chain' \in Seq(Nodes)
        /\ Len(chain') = Len(chain) + 1
        /\ \A i \in 1 .. Len(chain) : chain'[i] = chain[i]
        /\ chain'[Len(chain) + 1] = n[t]
        /\ Last' = n[t]
        /\ Live' = Live \cup {n[t]}
    BY <1>1, <2>1, AppendChain DEF TypeOK
  <2>3. Private' = Private \ {n[t]} /\ Shared' = Shared \cup {n[t]}
    <3>1. Private' = Private \ {n[t]}
      BY <1>1 DEF Private, PreLink, NodeInv, TypeOK
    <3> QED BY <2>1, <3>1 DEF Shared
  <2>4. \A x \in Nodes : x # Last => next'[x] = next[x]
    BY <1>1, <2>1 DEF TypeOK
  <2>5. ListInv'
    <3>1. next'[Last] = n[t] /\ next'[n[t]] = Null
      BY <1>1, <2>1 DEF TypeOK, Shared
    <3>2. ASSUME NEW i \in 1 .. Len(chain') - 1
          PROVE  next'[chain'[i]] = chain'[i + 1]
      <4>1. CASE i = Len(chain)
        BY <2>2, <3>1, <4>1 DEF Last
      <4>2. CASE i \in 1 .. Len(chain) - 1
        BY <1>1, <2>2, <2>4, <4>2 DEF ListInv, Last, TypeOK
      <4> QED BY <1>1, <2>2, <4>1, <4>2 DEF TypeOK
    <3>3. ASSUME NEW i \in 1 .. Len(chain'), NEW j \in 1 .. Len(chain'),
                 chain'[i] = chain'[j]
          PROVE  i = j
      BY <1>1, <2>1, <2>2, <3>3 DEF ListInv, Live, TypeOK
    <3>4. chain'[1] = head_' /\ Len(chain') >= 2
      BY <1>1, <2>2 DEF ListInv, TypeOK
    <3>5. tail_' = chain'[Len(chain') - 1]
      BY <1>1, <2>1, <2>2 DEF ListInv, Last, TypeOK
    <3>6. Live' \subseteq heap'
      BY <1>1, <2>1, <2>2 DEF ListInv
    <3> QED BY <2>2, <3>1, <3>2, <3>3, <3>4, <3>5, <3>6 DEF ListInv
  <2>6. NodeInv'
    <3>1. ASSUME NEW u \in Threads, pc'[u] \in PreLink
          PROVE  /\ n'[u] \in heap' \ Live' /\ next'[n'[u]] = Null
                 /\ value'[n'[u]] \in Values
                 /\ \A w \in Threads :
                      pc'[w] \in PreLink /\ n'[w] = n'[u] => w = u
      <4>1. pc[u] \in PreLink /\ u # t
        BY <1>1, <3>1 DEF PreLink, TypeOK
      <4>2. n[u] # n[t] /\ n[u] \in Private /\ n[u] # Last
        BY <1>1, <2>1, <4>1 DEF NodeInv, PreLink, Private, Shared
      <4> QED BY <1>1, <2>2, <2>4, <3>1, <4>1, <4>2
              DEF NodeInv, PreLink, TypeOK
    <3>2. ASSUME NEW x \in Shared' \ Live' PROVE next'[x] # Null
      <4>1. x \in Shared \ Live /\ x \in Nodes /\ Last \in Live
        BY <1>1, <2>2, <2>3, ChainLen, SharedNext
      <4> QED BY <1>1, <2>3, <2>4, <4>1 DEF NodeInv
    <3>3. ASSUME NEW i \in 2 .. Len(chain') PROVE value'[chain'[i]] \in Values
      BY <1>1, <2>1, <2>2 DEF NodeInv, TypeOK
    <3> QED BY <3>1, <3>2, <3>3 DEF NodeInv
  <2>7. EnqInv'
    BY <1>1, <2>1, <2>2, <2>3, <2>4 DEF EnqInv, PreLink, TypeOK, Shared
  <2>8. DeqInv'
    <3>1. \A u \in Threads : pc'[u] \in HasHead =>
            /\ pc[u] = pc'[u] /\ u # t /\ head[u] \in Shared /\ head[u] \in Nodes
            /\ \A i \in 2 .. Len(chain') : head[u] # chain'[i]
      BY <1>1, <2>1, <2>2 DEF DeqInv, HasHead, TypeOK, Shared
    <3>2. \A u \in Threads : pc'[u] \in HasHead =>
            next[head[u]] = Null \/ next'[head[u]] = next[head[u]]
      BY <2>1, <2>4, <3>1
    <3> QED BY <1>1, <2>3, <3>1, <3>2 DEF DeqInv, HasHead, HasTail, HasNext, TypeOK
  <2>9. LagInv'
    BY <1>1, <2>1, <2>2 DEF LagInv, TypeOK
  <2>10. TypeOK'
    BY <1>1, <1>2, <2>2 DEF TypeOK, dtorVars
  <2> QED BY <1>1, <2>5, <2>6, <2>7, <2>8, <2>9, <2>10 DEF IInv, dtorVars
<1> QED BY <1>3, <1>4

\* IInv is preserved by the CAS on head_, which makes the dequeue visible.
LEMMA DeqSwingInv ==
  ASSUME IInv, NEW t \in Threads, DeqSwing(t)
  PROVE  IInv'
<1> USE DEF DeqSwing, AtFront, At, Goto
<1>1. alive /\ TypeOK /\ ListInv /\ NodeInv /\ EnqInv /\ DeqInv /\ LagInv
  BY RunningAlive DEF IInv
<1>2. pc' \in [Threads -> Labels]
  BY <1>1 DEF TypeOK, Labels, InDeq, EndIteration
<1>3. CASE EndIteration(t, "deqProtect") /\ UNCHANGED <<head_, chain>>
  <2> USE <1>3 DEF EndIteration
  <2>1. LocalStep(t)
    BY <1>1 DEF LocalStep, queueVars, dtorVars, PreLink, TypeOK
  <2>2. EnqInv'
    BY <1>1, <2>1, LocalFrame DEF EnqInv, PreLink, TypeOK
  <2>3. DeqInv'
    BY <1>1, <2>1, LocalFrame DEF DeqInv, HasHead, HasTail, HasNext, TypeOK
  <2>4. TypeOK'
    BY <1>1, <1>2 DEF TypeOK, dtorVars
  <2> QED BY <1>1, <2>1, <2>2, <2>3, <2>4, LocalFrame DEF IInv
<1>4. CASE /\ head_ = head[t] /\ head_' = nx[t]
           /\ chain' = Tail(chain)
           /\ pc' = [pc EXCEPT ![t] = "deqRetire"]
           /\ UNCHANGED <<head, tail, nx, val>>
  <2> USE <1>4
  <2>1. /\ tail_ # head_ /\ nx[t] = next[head_] /\ nx[t] # Null
        /\ val[t] = value[nx[t]]
    BY <1>1 DEF DeqInv, HasHead, HasTail, HasNext
  <2>2. Len(chain) \in Nat /\ Len(chain) >= 2 /\ nx[t] = chain[2]
    BY <1>1, <2>1, ChainLen DEF ListInv, Last
  <2>3. /\ chain' \in Seq(Nodes)
        /\ Len(chain') = Len(chain) - 1
        /\ \A i \in 1 .. Len(chain) - 1 : chain'[i] = chain[i + 1]
        /\ Last' = Last
        /\ Live' = {chain[i] : i \in 2 .. Len(chain)}
    BY <1>1, <2>2, TailChain DEF TypeOK
  <2>4. Live = Live' \cup {head_} /\ head_ \notin Live'
    <3>1. 1 \in 1 .. Len(chain) /\ chain[1] = head_
      BY <1>1, <2>2 DEF ListInv
    <3>2. \A i \in 1 .. Len(chain) : i = 1 \/ i \in 2 .. Len(chain)
      BY <2>2
    <3>3. \A i \in 2 .. Len(chain) : i \in 1 .. Len(chain) /\ chain[i] # chain[1]
      BY <1>1, <2>2, <3>1 DEF ListInv
    <3>4. head_ \notin Live'
      BY <2>3, <3>1, <3>3
    <3>5. Live \subseteq Live' \cup {head_}
      BY <2>3, <3>1, <3>2 DEF Live
    <3>6. Live' \cup {head_} \subseteq Live
      BY <2>3, <3>1, <3>3 DEF Live
    <3> QED BY <3>4, <3>5, <3>6
  <2>5. Private' = Private /\ Shared' = Shared
    <3>1. Private' = Private
      BY <1>1 DEF Private, PreLink, TypeOK
    <3> QED BY <3>1 DEF Shared
  <2>6. ListInv'
    <3>1. chain'[1] = head_' /\ Len(chain') >= 1
      BY <2>2, <2>3
    <3>2. ASSUME NEW i \in 1 .. Len(chain') - 1
          PROVE  next'[chain'[i]] = chain'[i + 1]
      BY <1>1, <2>2, <2>3 DEF ListInv
    <3>3. ASSUME NEW i \in 1 .. Len(chain'), NEW j \in 1 .. Len(chain'),
                 chain'[i] = chain'[j]
          PROVE  i = j
      BY <1>1, <2>2, <2>3, <3>3 DEF ListInv
    <3>4. \/ tail_ = Last
          \/ Len(chain') >= 2 /\ tail_ = chain'[Len(chain') - 1]
      BY <1>1, <2>1, <2>2, <2>3 DEF ListInv
    <3>5. next'[Last'] = Null /\ Live' \subseteq heap'
      BY <1>1, <2>3, <2>4 DEF ListInv
    <3> QED BY <2>3, <3>1, <3>2, <3>3, <3>4, <3>5 DEF ListInv
  <2>7. NodeInv'
    <3>1. ASSUME NEW u \in Threads, pc'[u] \in PreLink
          PROVE  /\ n'[u] \in heap' \ Live' /\ next'[n'[u]] = Null
                 /\ value'[n'[u]] \in Values
                 /\ \A w \in Threads :
                      pc'[w] \in PreLink /\ n'[w] = n'[u] => w = u
      BY <1>1, <2>4, <3>1 DEF NodeInv, PreLink, TypeOK
    <3>2. ASSUME NEW x \in Shared' \ Live' PROVE next'[x] # Null
      <4>1. CASE x = head_
        BY <1>1, <2>1, <2>5, <4>1, LiveShared, SharedNext
      <4>2. CASE x # head_
        BY <1>1, <2>4, <2>5, <4>2 DEF NodeInv
      <4> QED BY <4>1, <4>2
    <3>3. ASSUME NEW i \in 2 .. Len(chain') PROVE value'[chain'[i]] \in Values
      BY <1>1, <2>2, <2>3 DEF NodeInv
    <3> QED BY <3>1, <3>2, <3>3 DEF NodeInv
  <2>8. EnqInv'
    BY <1>1, <2>3, <2>5 DEF EnqInv, PreLink, TypeOK
  <2>9. DeqInv'
    <3>1. val[t] \in Values
      BY <1>1, <2>1, <2>2 DEF NodeInv
    <3>2. \A u \in Threads : pc'[u] \in HasHead =>
            /\ pc[u] = pc'[u] /\ u # t /\ head[u] # head_'
            /\ \A i \in 2 .. Len(chain') : head[u] # chain'[i]
      <4>1. \A u \in Threads : pc'[u] \in HasHead => pc[u] = pc'[u] /\ u # t
        BY <1>1 DEF HasHead, TypeOK
      <4>2. \A u \in Threads : pc[u] \in HasHead =>
              \A i \in 2 .. Len(chain) : head[u] # chain[i]
        BY <1>1 DEF DeqInv
      <4>3. \A i \in 2 .. Len(chain') :
              chain'[i] = chain[i + 1] /\ i + 1 \in 2 .. Len(chain)
        BY <2>2, <2>3
      <4> QED BY <2>2, <4>1, <4>2, <4>3
    <3> QED BY <1>1, <2>5, <3>1, <3>2
            DEF DeqInv, HasHead, HasTail, HasNext, TypeOK
  <2>10. LagInv'
    BY <1>1, <2>3 DEF LagInv, TypeOK
  <2>11. TypeOK'
    BY <1>1, <1>2, <2>2, <2>3 DEF TypeOK, dtorVars
  <2> QED BY <1>1, <2>6, <2>7, <2>8, <2>9, <2>10, <2>11 DEF IInv, dtorVars
<1> QED BY <1>3, <1>4

-----------------------------------------------------------------------------
(* The destructor.                                                         *)

\* IInv is preserved when the destructor starts at head_.
LEMMA DtorStartInv ==
  ASSUME IInv, DtorStart
  PROVE  IInv'
<1> USE DEF DtorStart, FromDummy
<1>1. alive /\ TypeOK /\ ListInv /\ LagInv
  BY DEF IInv
<1>2. ListInv' /\ LagInv' /\ Quiesced'
  BY <1>1 DEF ListInv, LagInv, Last, Live, Quiesced, At, queueVars, localVars
<1>3. TypeOK'
  BY <1>1 DEF TypeOK, queueVars, localVars
<1>4. CursorInv'
  <2>1. Live' = Live /\ heap' = heap /\ chain' = chain /\ p' = chain[1]
    BY <1>1 DEF Live, ListInv, queueVars
  <2>2. Live \cap heap = {chain[j] : j \in 1 .. Len(chain)}
    BY <1>1 DEF Live, ListInv
  <2>3. p' # Null /\ 1 \in 1 .. Len(chain)
    BY <1>1, ConstAssumption, ChainLen DEF TypeOK
  <2> QED BY <2>1, <2>2, <2>3 DEF CursorInv
<1> QED BY <1>2, <1>3, <1>4 DEF IInv

\* IInv is preserved when the destructor deletes one node and moves on.
LEMMA DtorStepInv ==
  ASSUME IInv, DtorStep
  PROVE  IInv'
<1> USE DEF DtorStep
<1>1. ~alive /\ TypeOK /\ ListInv /\ LagInv /\ Quiesced /\ CursorInv
  BY DEF IInv
<1>2. ListInv' /\ LagInv' /\ Quiesced'
  BY <1>1 DEF ListInv, LagInv, Last, Live, Quiesced, At, localVars
<1>3. PICK i \in 1 .. Len(chain) :
        /\ p = chain[i]
        /\ Live \cap heap = {chain[j] : j \in i .. Len(chain)}
  BY <1>1 DEF CursorInv
<1>4. Len(chain) \in Nat /\ chain[i] \in Nodes
  BY <1>1 DEF TypeOK
<1>5. TypeOK'
  BY <1>1, <1>3, <1>4 DEF TypeOK, localVars
<1>6. Live' \cap heap' = {chain[j] : j \in i + 1 .. Len(chain)}
  <2>1. Live' = Live
    BY DEF Live
  <2>2. \A j \in i + 1 .. Len(chain) : j \in i .. Len(chain) /\ chain[j] # chain[i]
    BY <1>1, <1>4 DEF ListInv
  <2>3. \A j \in i .. Len(chain) : j = i \/ j \in i + 1 .. Len(chain)
    BY <1>4
  <2> QED BY <1>3, <2>1, <2>2, <2>3
<1>7. CursorInv'
  <2>1. CASE i = Len(chain)
    <3>1. p' = Null
      BY <1>1, <1>3, <2>1 DEF ListInv, Last
    <3> QED BY <1>4, <1>6, <2>1, <3>1 DEF CursorInv
  <2>2. CASE i # Len(chain)
    <3>1. i + 1 \in 1 .. Len(chain) /\ p' = chain[i + 1] /\ p' # Null
      BY <1>1, <1>3, <1>4, <2>2, ConstAssumption DEF ListInv, TypeOK
    <3> QED BY <1>6, <3>1 DEF CursorInv
  <2> QED BY <2>1, <2>2
<1> QED BY <1>1, <1>2, <1>5, <1>7 DEF IInv

-----------------------------------------------------------------------------
(* The theorems.                                                           *)

\* The constructor establishes the invariant.
LEMMA InitInv == Init => IInv
<1> SUFFICES ASSUME Init PROVE IInv
  OBVIOUS
<1> USE ConstAssumption DEF Init
<1>1. Len(chain) = 1 /\ Last = Dummy /\ Live = {Dummy}
  BY DEF Last, Live
<1>2. TypeOK
  BY DEF TypeOK, Labels
<1>3. ListInv
  BY <1>1 DEF ListInv
<1>4. NodeInv
  <2>1. Private = {}
    BY DEF Private, PreLink
  <2> QED BY <1>1, <2>1 DEF NodeInv, Shared, PreLink
<1>5. EnqInv /\ DeqInv /\ LagInv
  BY <1>1 DEF EnqInv, DeqInv, LagInv, PreLink, HasHead, HasTail, HasNext
<1> QED BY <1>2, <1>3, <1>4, <1>5 DEF IInv

\* Every step of enqueue, try_dequeue or the destructor preserves it.
LEMMA NextInv == IInv /\ [Next]_vars => IInv'
<1> SUFFICES ASSUME IInv, [Next]_vars PROVE IInv'
  OBVIOUS
<1>1. CASE UNCHANGED vars
  BY <1>1 DEF vars, IInv, TypeOK, ListInv, NodeInv, EnqInv, DeqInv, LagInv,
       CursorInv, Quiesced, At, Last, Live, Shared, Private
<1>2. ASSUME NEW t \in Threads, NEW v \in Values, EnqCall(t, v) PROVE IInv'
  BY <1>2, EnqCallInv
<1>3. ASSUME NEW t \in Threads, EnqStep(t) PROVE IInv'
  BY <1>3, EnqProtectInv, EnqNextInv, EnqCheckInv, HelpInv, EnqLinkInv,
     EnqSwingInv, EnqReturnInv DEF EnqStep
<1>4. ASSUME NEW t \in Threads, DeqCall(t) \/ DeqStep(t) PROVE IInv'
  BY <1>4, DeqCallInv, DeqProtectInv, DeqTailInv, DeqNextInv, DeqCheckInv,
     HelpInv, DeqReadInv, DeqSwingInv, DeqRetireInv, DeqReturnInv DEF DeqStep
<1>5. CASE DtorStart \/ DtorStep
  BY <1>5, DtorStartInv, DtorStepInv
<1> QED BY <1>1, <1>2, <1>3, <1>4, <1>5 DEF Next

\* IInv holds in every reachable state of ms_queue.
THEOREM Invariance == Spec => []IInv
BY InitInv, NextInv, PTL DEF Spec

\* The variables of ms_queue keep their types.
THEOREM TypeCorrect == Spec => []TypeOK
<1>1. IInv => TypeOK
  BY DEF IInv
<1> QED BY <1>1, Invariance, PTL

\* The list that head_, tail_ and the next pointers form is well formed at
\* every step of every interleaving of enqueue and try_dequeue.
THEOREM ListCorrect == Spec => []ListInv
<1>1. IInv => ListInv
  BY DEF IInv
<1> QED BY <1>1, Invariance, PTL

\* What the invariant says of the nodes that are dereferenced.
LEMMA DerefFrom ==
  ASSUME IInv
  PROVE  DerefSafe
<1>1. ASSUME NEW t \in Threads, pc[t] # "idle"
      PROVE  EnqInv /\ DeqInv
  BY <1>1, RunningAlive
<1> QED BY <1>1 DEF DerefSafe, EnqInv, DeqInv, PreLink, HasHead, HasTail,
         HasNext, Shared

\* try_dequeue and enqueue dereference no null and no unallocated pointer.
THEOREM DerefCorrect == Spec => []DerefSafe
BY DerefFrom, Invariance, PTL

\* What it says when no operation runs.
LEMMA QuiescedFrom ==
  ASSUME IInv
  PROVE  QuiescedTail
<1> SUFFICES ASSUME alive, Quiesced
             PROVE  tail_ = Last /\ (Empty <=> head_ = tail_)
  BY DEF QuiescedTail
<1>1. TypeOK /\ ListInv /\ NodeInv /\ LagInv
  BY DEF IInv
<1>2. tail_ = Last
  BY <1>1 DEF LagInv, Quiesced, At
<1>3. next[head_] = Null => head_ = Last
  BY <1>1, LiveShared, SharedNext
<1> QED BY <1>1, <1>2, <1>3 DEF Empty, ListInv

\* Once all operations have returned, tail_ is at the last node and empty()
\* is exact.
THEOREM QuiescedTailCorrect == Spec => []QuiescedTail
BY QuiescedFrom, Invariance, PTL

\* What it says of the destructor.
LEMMA DtorFrom ==
  ASSUME IInv
  PROVE  DtorInv
<1> SUFFICES ASSUME ~alive
             PROVE  /\ p # Null => p \in heap
                    /\ p = Null => Live \cap heap = {}
  BY DEF DtorInv
<1>1. CursorInv /\ Len(chain) \in Nat
  BY ChainLen DEF IInv
<1>2. CASE p = Null
  BY <1>1, <1>2 DEF CursorInv
<1>3. CASE p # Null
  <2>1. PICK i \in 1 .. Len(chain) :
          p = chain[i] /\ Live \cap heap = {chain[j] : j \in i .. Len(chain)}
    BY <1>1, <1>3 DEF CursorInv
  <2>2. i \in i .. Len(chain)
    BY <1>1
  <2> QED BY <1>3, <2>1, <2>2
<1> QED BY <1>2, <1>3

\* The destructor deletes the live chain exactly once.
THEOREM DtorCorrect == Spec => []DtorInv
BY DtorFrom, Invariance, PTL

\* A next pointer that was set is never written again.
THEOREM LinkedOnceCorrect == Spec => LinkedOnce
<1>1. ASSUME IInv, [Next]_vars
      PROVE  [\A m \in heap : next[m] # Null => next'[m] = next[m]]_vars
  <2> SUFFICES ASSUME Next, NEW m \in heap, next[m] # Null
               PROVE  next'[m] = next[m]
    BY <1>1
  <2>1. TypeOK /\ m \in Nodes
    BY <1>1 DEF IInv, TypeOK
  <2>2. ASSUME NEW t \in Threads, EnqLink(t) PROVE next'[m] = next[m]
    BY <2>1, <2>2 DEF EnqLink, AtEnd, TypeOK
  <2>3. ASSUME NEW t \in Threads, NEW v \in Values, EnqCall(t, v)
        PROVE  next'[m] = next[m]
    BY <2>1, <2>3 DEF EnqCall, TypeOK
  <2>4. ASSUME NEW t \in Threads, EnqStep(t) PROVE next'[m] = next[m]
    BY <2>2, <2>4 DEF EnqStep, EnqProtect, EnqNext, EnqCheck, EnqHelp,
         EnqSwing, Swung, EnqReturn, queueVars
  <2>5. ASSUME NEW t \in Threads, DeqCall(t) \/ DeqStep(t)
        PROVE  next'[m] = next[m]
    BY <2>5 DEF DeqCall, DeqStep, DeqProtect, DeqTail, DeqNext, AfterHead, DeqCheck,
         DeqHelp, DeqRead, DeqSwing, AtFront, DeqRetire, DeqReturn, queueVars
  <2>6. CASE DtorStart \/ DtorStep
    BY <2>6 DEF DtorStart, FromDummy, DtorStep, queueVars
  <2> QED BY <2>3, <2>4, <2>5, <2>6 DEF Next
<1> QED BY <1>1, Invariance, PTL DEF Spec, LinkedOnce

-----------------------------------------------------------------------------
(* The refinement: every step of the queue is a step of FIFO or leaves the *)
(* abstract queue unchanged.  The abstract effect of enqueue is the CAS on *)
(* tail->next, that of try_dequeue the CAS on head_, and an empty answer   *)
(* takes effect at the load of head->next.                                 *)

\* The abstract pend.
PendMap == [t \in Threads |-> PendOf(t)]

-----------------------------------------------------------------------------
(* The stage of a thread at each label.                                    *)

\* PendOf by cases on the label, so that no later proof opens its CASE.
LEMMA PendCases ==
  ASSUME NEW t \in Threads
  PROVE  /\ pc[t] = "idle" => PendOf(t) = Abstract!Idle
         /\ pc[t] \in PreLink => PendOf(t) = Abstract!Enq(value[n[t]])
         /\ pc[t] \in PostLink => PendOf(t) = Abstract!Enqueued
         /\ pc[t] \in {"deqRetire", "deqRet"} =>
              PendOf(t) = Abstract!Dequeued(val[t])
         /\ pc[t] = "deqEmpty" => PendOf(t) = Abstract!SawEmpty
         /\ pc[t] = "deqCheck" /\ head[t] = tail[t] /\ nx[t] = Null =>
              PendOf(t) = Abstract!SawEmpty
         /\ pc[t] = "deqCheck" /\ ~(head[t] = tail[t] /\ nx[t] = Null) =>
              PendOf(t) = Abstract!Deq
         /\ pc[t] \in {"deqProtect", "deqTail", "deqNext", "deqHelp",
                       "deqRead", "deqSwing"} => PendOf(t) = Abstract!Deq
BY DEF PendOf, PreLink, PostLink, Abstract!Idle, Abstract!Enq,
       Abstract!Enqueued, Abstract!Deq, Abstract!SawEmpty, Abstract!Dequeued

\* The same in the state after a step.
LEMMA PendCasesNext ==
  ASSUME NEW t \in Threads
  PROVE  /\ pc'[t] = "idle" => PendOf(t)' = Abstract!Idle
         /\ pc'[t] \in PreLink => PendOf(t)' = Abstract!Enq(value'[n'[t]])
         /\ pc'[t] \in PostLink => PendOf(t)' = Abstract!Enqueued
         /\ pc'[t] \in {"deqRetire", "deqRet"} =>
              PendOf(t)' = Abstract!Dequeued(val'[t])
         /\ pc'[t] = "deqEmpty" => PendOf(t)' = Abstract!SawEmpty
         /\ pc'[t] = "deqCheck" /\ head'[t] = tail'[t] /\ nx'[t] = Null =>
              PendOf(t)' = Abstract!SawEmpty
         /\ pc'[t] = "deqCheck" /\ ~(head'[t] = tail'[t] /\ nx'[t] = Null) =>
              PendOf(t)' = Abstract!Deq
         /\ pc'[t] \in {"deqProtect", "deqTail", "deqNext", "deqHelp",
                        "deqRead", "deqSwing"} => PendOf(t)' = Abstract!Deq
BY DEF PendOf, PreLink, PostLink, Abstract!Idle, Abstract!Enq,
       Abstract!Enqueued, Abstract!Deq, Abstract!SawEmpty, Abstract!Dequeued

-----------------------------------------------------------------------------
(* Frames.                                                                 *)

\* Only thread t moves, and no node another thread is about to link changes.
Moves(t) ==
  \A u \in Threads \ {t} :
    /\ pc'[u] = pc[u] /\ head'[u] = head[u] /\ tail'[u] = tail[u]
    /\ nx'[u] = nx[u] /\ val'[u] = val[u] /\ n'[u] = n[u]
    /\ pc[u] \in PreLink => value'[n[u]] = value[n[u]]

\* A step of t changes the abstract stage of t only.
LEMMA PendMoves ==
  ASSUME NEW t \in Threads, Moves(t)
  PROVE  PendMap' = [PendMap EXCEPT ![t] = PendOf(t)']
<1>1. \A u \in Threads \ {t} : PendOf(u)' = PendOf(u)
  BY DEF Moves, PendOf
<1> QED BY <1>1 DEF PendMap

\* The abstract queue depends on the chain and the values in it only.
LEMMA QueueFrame ==
  ASSUME chain' = chain, \A i \in 2 .. Len(chain) : value'[chain[i]] = value[chain[i]],
         Len(chain) \in Nat
  PROVE  QueueOf' = QueueOf
<1>1. \A i \in 1 .. Len(chain) - 1 : i + 1 \in 2 .. Len(chain)
  OBVIOUS
<1> QED BY <1>1 DEF QueueOf

\* A step of t that changes neither its stage nor the queue is a stutter.
LEMMA Stutter ==
  ASSUME NEW t \in Threads, Moves(t), PendOf(t)' = PendOf(t),
         QueueOf' = QueueOf
  PROVE  [Abstract!Next]_(Abstract!fifoVars)
<1>1. PendMap' = PendMap
  BY PendMoves DEF PendMap
<1> QED BY <1>1 DEF Abstract!fifoVars, PendMap

\* A step that takes t from stage a to stage b is the abstract Stage(t, a, b).
LEMMA StageStep ==
  ASSUME NEW t \in Threads, Moves(t), NEW a, NEW b,
         PendOf(t) = a, PendOf(t)' = b
  PROVE  Abstract!Stage(t, a, b)
<1>1. PendMap' = [PendMap EXCEPT ![t] = b] /\ PendMap[t] = a
  BY PendMoves DEF PendMap
<1> QED BY <1>1 DEF Abstract!Stage, PendMap

-----------------------------------------------------------------------------
(* One lemma per kind of step.                                             *)

\* The call of enqueue.
LEMMA EnqCallRefines ==
  ASSUME IInv, NEW t \in Threads, NEW v \in Values, EnqCall(t, v)
  PROVE  Abstract!CallEnqueue(t, v)
<1> USE DEF EnqCall, At, Goto
<1>1. TypeOK /\ ListInv /\ NodeInv
  BY DEF IInv
<1>2. PICK m \in Nodes \ heap :
        /\ value' = [value EXCEPT ![m] = v]
        /\ n' = [n EXCEPT ![t] = m]
  OBVIOUS
<1>3. Moves(t)
  BY <1>1, <1>2 DEF Moves, NodeInv, TypeOK
<1>4. QueueOf' = QueueOf
  <2>1. \A i \in 2 .. Len(chain) : chain[i] \in heap
    BY <1>1, ChainLen DEF ListInv, Live
  <2> QED BY <1>1, <1>2, <2>1, ChainLen, QueueFrame DEF TypeOK
<1>5. PendOf(t) = Abstract!Idle /\ PendOf(t)' = Abstract!Enq(v)
  <2>1. pc'[t] \in PreLink /\ value'[n'[t]] = v
    BY <1>1, <1>2 DEF TypeOK, PreLink
  <2> QED BY <2>1, PendCases, PendCasesNext
<1> QED BY <1>3, <1>4, <1>5, StageStep DEF Abstract!CallEnqueue

\* The CAS that links the node appends its value to the abstract queue.
LEMMA EnqLinkRefines ==
  ASSUME IInv, NEW t \in Threads, EnqLink(t)
  PROVE  \/ UNCHANGED <<QueueOf, PendMap>>
         \/ \E v \in Values : Abstract!DoEnqueue(t, v)
<1> USE DEF EnqLink, AtEnd, At, Goto
<1>1. alive /\ TypeOK /\ ListInv /\ NodeInv
  BY RunningAlive DEF IInv
<1>2. Moves(t)
  BY <1>1 DEF Moves, EndIteration, TypeOK
<1>3. PendOf(t) = Abstract!Enq(value[n[t]])
  BY PendCases DEF PreLink
<1>4. CASE EndIteration(t, "enqProtect") /\ UNCHANGED <<next, chain>>
  <2>1. pc'[t] \in PreLink
    BY <1>1, <1>4 DEF EndIteration, TypeOK, PreLink
  <2>2. PendOf(t)' = PendOf(t)
    BY <1>3, <2>1, PendCasesNext
  <2>3. QueueOf' = QueueOf
    BY <1>4 DEF QueueOf
  <2> QED BY <1>2, <2>2, <2>3, PendMoves DEF PendMap
<1>5. CASE chain' = Append(chain, n[t]) /\ pc' = [pc EXCEPT ![t] = "enqSwing"]
  <2>1. value[n[t]] \in Values /\ n[t] \in Nodes
    BY <1>1 DEF NodeInv, PreLink, TypeOK
  <2>2. PendOf(t)' = Abstract!Enqueued
    <3>1. pc'[t] \in PostLink
      BY <1>1, <1>5 DEF TypeOK, PostLink
    <3> QED BY <3>1, PendCasesNext
  <2>3. /\ chain' \in Seq(Nodes) /\ Len(chain') = Len(chain) + 1
        /\ \A i \in 1 .. Len(chain) : chain'[i] = chain[i]
        /\ chain'[Len(chain) + 1] = n[t]
    BY <1>1, <1>5, <2>1, AppendChain DEF TypeOK
  <2>4. Len(chain) \in Nat /\ Len(chain) >= 1
    BY <1>1, ChainLen
  <2>5. QueueOf' = Append(QueueOf, value[n[t]])
    <3>1. QueueOf \in Seq(Values) /\ Len(QueueOf) = Len(chain) - 1
      BY <1>1, <2>4 DEF QueueOf, NodeInv
    <3>2. QueueOf' = [i \in 1 .. Len(chain) |-> value[chain'[i + 1]]]
      BY <2>3, <2>4 DEF QueueOf
    <3>3. Append(QueueOf, value[n[t]]) =
            [i \in 1 .. Len(chain) |->
               IF i = Len(chain) THEN value[n[t]] ELSE QueueOf[i]]
      BY <2>1, <2>4, <3>1
    <3>4. \A i \in 1 .. Len(chain) :
            value[chain'[i + 1]]
              = IF i = Len(chain) THEN value[n[t]] ELSE QueueOf[i]
      BY <2>3, <2>4 DEF QueueOf
    <3> QED BY <3>2, <3>3, <3>4
  <2> QED BY <1>2, <1>3, <2>1, <2>2, <2>5, StageStep DEF Abstract!DoEnqueue
<1> QED BY <1>4, <1>5

\* The other steps of enqueue before and after the link, up to its return.
LEMMA EnqRestRefines ==
  ASSUME IInv, NEW t \in Threads,
         EnqProtect(t) \/ EnqNext(t) \/ EnqCheck(t) \/ EnqHelp(t) \/ EnqSwing(t)
  PROVE  UNCHANGED <<QueueOf, PendMap>>
<1> USE DEF EnqProtect, EnqNext, EnqCheck, EnqHelp, EnqSwing, Swung, At, Goto,
        EndIteration, queueVars
<1>1. TypeOK
  BY DEF IInv
<1>2. Moves(t)
  BY <1>1 DEF Moves, TypeOK
<1>3. QueueOf' = QueueOf
  BY DEF QueueOf
<1>4. /\ value' = value /\ n' = n
      /\ \/ pc[t] \in PreLink /\ pc'[t] \in PreLink
         \/ pc[t] \in PostLink /\ pc'[t] \in PostLink
  BY <1>1 DEF TypeOK, PreLink, PostLink
<1>5. PendOf(t)' = PendOf(t)
  BY <1>4, PendCases, PendCasesNext
<1> QED BY <1>2, <1>3, <1>5, PendMoves DEF PendMap

\* The return of enqueue.
LEMMA EnqReturnRefines ==
  ASSUME IInv, NEW t \in Threads, EnqReturn(t)
  PROVE  Abstract!ReturnEnqueue(t)
<1> USE DEF EnqReturn, At, Goto, EndIteration, Return, queueVars
<1>1. TypeOK
  BY DEF IInv
<1>2. Moves(t) /\ pc[t] \in PostLink /\ pc'[t] = "idle"
  BY <1>1 DEF Moves, TypeOK, PostLink
<1>3. QueueOf' = QueueOf
  BY DEF QueueOf
<1> QED BY <1>2, <1>3, PendCases, PendCasesNext, StageStep
        DEF Abstract!ReturnEnqueue

\* The call of try_dequeue.
LEMMA DeqCallRefines ==
  ASSUME IInv, NEW t \in Threads, DeqCall(t)
  PROVE  Abstract!CallDequeue(t)
<1> USE DEF DeqCall, At, Goto, queueVars
<1>1. TypeOK
  BY DEF IInv
<1>2. Moves(t) /\ pc[t] = "idle" /\ pc'[t] = "deqProtect"
  BY <1>1 DEF Moves, TypeOK
<1>3. QueueOf' = QueueOf
  BY DEF QueueOf
<1> QED BY <1>2, <1>3, PendCases, PendCasesNext, StageStep
        DEF Abstract!CallDequeue

\* The loads of head_ and tail_, helping, the copy of the value and the
\* retirement have no abstract effect.
LEMMA DeqRestRefines ==
  ASSUME IInv, NEW t \in Threads,
         \/ DeqProtect(t) \/ DeqTail(t) \/ DeqHelp(t) \/ DeqRead(t)
         \/ DeqRetire(t)
  PROVE  UNCHANGED <<QueueOf, PendMap>>
<1> USE DEF DeqProtect, DeqTail, DeqHelp, DeqRead, DeqRetire, At, Goto,
        EndIteration, queueVars
<1>1. TypeOK
  BY DEF IInv
<1>2. Moves(t)
  BY <1>1 DEF Moves, TypeOK
<1>3. QueueOf' = QueueOf
  BY DEF QueueOf
<1> DEFINE D == {"deqProtect", "deqTail", "deqNext", "deqHelp", "deqRead",
                 "deqSwing"}
<1>4. \/ pc[t] \in D /\ pc'[t] \in D
      \/ /\ pc[t] \in {"deqRetire", "deqRet"} /\ val'[t] = val[t]
         /\ pc'[t] \in {"deqRetire", "deqRet"}
  BY <1>1 DEF TypeOK
<1>5. PendOf(t)' = PendOf(t)
  BY <1>4, PendCases, PendCasesNext
<1> QED BY <1>2, <1>3, <1>5, PendMoves DEF PendMap

\* The load of head->next decides an empty answer: if it finds no successor
\* of a head that was also the tail, the queue is empty at that moment.
LEMMA DeqNextRefines ==
  ASSUME IInv, NEW t \in Threads, DeqNext(t)
  PROVE  UNCHANGED <<QueueOf, PendMap>> \/ Abstract!ObserveEmpty(t)
<1> USE DEF DeqNext, AfterHead, At, Goto, queueVars
<1>1. alive /\ TypeOK /\ ListInv /\ NodeInv /\ DeqInv
  BY RunningAlive DEF IInv
<1>2. /\ Moves(t) /\ pc'[t] = "deqCheck"
      /\ head'[t] = head[t] /\ tail'[t] = tail[t] /\ nx'[t] = next[head[t]]
  BY <1>1 DEF Moves, TypeOK
<1>3. QueueOf' = QueueOf
  BY DEF QueueOf
<1>4. PendOf(t) = Abstract!Deq
  BY PendCases
<1>5. CASE head[t] = tail[t] /\ next[head[t]] = Null
  <2>1. head[t] = Last
    BY <1>1, <1>5, SharedNext DEF DeqInv, HasHead
  <2>2. Len(chain) = 1
    BY <1>1, <2>1, ChainLen DEF DeqInv, HasHead, Last
  <2>3. QueueOf = <<>>
    BY <2>2 DEF QueueOf
  <2>4. PendOf(t)' = Abstract!SawEmpty
    BY <1>2, <1>5, PendCasesNext
  <2> QED BY <1>2, <1>3, <1>4, <2>3, <2>4, StageStep
          DEF Abstract!ObserveEmpty
<1>6. CASE ~(head[t] = tail[t] /\ next[head[t]] = Null)
  <2>1. PendOf(t)' = PendOf(t)
    BY <1>2, <1>4, <1>6, PendCasesNext
  <2> QED BY <1>2, <1>3, <2>1, PendMoves DEF PendMap
<1> QED BY <1>5, <1>6

\* The recheck of head_ keeps an empty answer or gives it up.
LEMMA DeqCheckRefines ==
  ASSUME IInv, NEW t \in Threads, DeqCheck(t)
  PROVE  UNCHANGED <<QueueOf, PendMap>> \/ Abstract!Forget(t)
<1> USE DEF DeqCheck, At, Goto, queueVars, EndIteration
<1>1. TypeOK
  BY DEF IInv
<1>2. Moves(t)
  BY <1>1 DEF Moves, TypeOK
<1>3. QueueOf' = QueueOf
  BY DEF QueueOf
<1>4. CASE head[t] = tail[t] /\ nx[t] = Null
  <2>1. PendOf(t) = Abstract!SawEmpty
    BY <1>4, PendCases
  <2>2. CASE head[t] # head_
    <3>1. pc'[t] = "deqProtect"
      BY <1>1, <2>2 DEF TypeOK
    <3>2. PendOf(t)' = Abstract!Deq
      BY <3>1, PendCasesNext
    <3> QED BY <1>2, <1>3, <2>1, <3>2, StageStep DEF Abstract!Forget
  <2>3. CASE head[t] = head_
    <3>1. pc'[t] = "deqEmpty"
      BY <1>1, <1>4, <2>3 DEF TypeOK
    <3>2. PendOf(t)' = PendOf(t)
      BY <2>1, <3>1, PendCasesNext
    <3> QED BY <1>2, <1>3, <3>2, PendMoves DEF PendMap
  <2> QED BY <2>2, <2>3
<1>5. CASE ~(head[t] = tail[t] /\ nx[t] = Null)
  <2>1. pc'[t] \in {"deqProtect", "deqRead", "deqHelp"}
    BY <1>1, <1>5 DEF TypeOK
  <2>2. PendOf(t)' = PendOf(t)
    BY <1>5, <2>1, PendCases, PendCasesNext
  <2> QED BY <1>2, <1>3, <2>2, PendMoves DEF PendMap
<1> QED BY <1>4, <1>5

\* The CAS on head_ removes the oldest value, the one the thread copied.
LEMMA DeqSwingRefines ==
  ASSUME IInv, NEW t \in Threads, DeqSwing(t)
  PROVE  UNCHANGED <<QueueOf, PendMap>> \/ Abstract!DoDequeue(t)
<1> USE DEF DeqSwing, AtFront, At, Goto
<1>1. alive /\ TypeOK /\ ListInv /\ NodeInv /\ DeqInv
  BY RunningAlive DEF IInv
<1>2. Moves(t)
  BY <1>1 DEF Moves, TypeOK, EndIteration
<1>3. PendOf(t) = Abstract!Deq
  BY PendCases
<1>4. CASE EndIteration(t, "deqProtect") /\ UNCHANGED <<head_, chain>>
  <2>1. pc'[t] = "deqProtect"
    BY <1>1, <1>4 DEF EndIteration, TypeOK
  <2>2. PendOf(t)' = PendOf(t)
    BY <1>3, <2>1, PendCasesNext
  <2>3. QueueOf' = QueueOf
    BY <1>4 DEF QueueOf
  <2> QED BY <1>2, <2>2, <2>3, PendMoves DEF PendMap
<1>5. CASE /\ head_ = head[t] /\ head_' = nx[t] /\ chain' = Tail(chain)
           /\ pc' = [pc EXCEPT ![t] = "deqRetire"] /\ val' = val
  <2>1. /\ tail_ # head_ /\ nx[t] = next[head_] /\ nx[t] # Null
        /\ val[t] = value[nx[t]]
    BY <1>1, <1>5 DEF DeqInv, HasHead, HasTail, HasNext
  <2>2. Len(chain) \in Nat /\ Len(chain) >= 2 /\ nx[t] = chain[2]
    BY <1>1, <2>1, ChainLen DEF ListInv, Last
  <2>3. /\ Len(chain') = Len(chain) - 1
        /\ \A i \in 1 .. Len(chain) - 1 : chain'[i] = chain[i + 1]
    BY <1>1, <1>5, <2>2, TailChain DEF TypeOK
  <2>4. QueueOf \in Seq(Values) /\ Len(QueueOf) = Len(chain) - 1
    BY <1>1, <2>2 DEF QueueOf, NodeInv
  <2>5. QueueOf # <<>> /\ Head(QueueOf) = val[t]
    <3>1. QueueOf[1] = val[t]
      BY <2>1, <2>2 DEF QueueOf
    <3>2. ASSUME NEW q \in Seq(Values), Len(q) >= 1
          PROVE  q # <<>> /\ Head(q) = q[1]
      BY <3>2
    <3>3. Len(QueueOf) >= 1
      BY <2>2, <2>4
    <3> QED BY <2>4, <3>1, <3>2, <3>3
  <2>6. QueueOf' = Tail(QueueOf)
    <3>1. QueueOf' = [i \in 1 .. Len(chain) - 2 |-> value[chain'[i + 1]]]
      BY <2>2, <2>3 DEF QueueOf
    <3>2. Tail(QueueOf) = [i \in 1 .. Len(chain) - 2 |-> QueueOf[i + 1]]
      <4>1. /\ Tail(QueueOf) \in Seq(Values)
            /\ Len(Tail(QueueOf)) = Len(QueueOf) - 1
            /\ \A i \in 1 .. Len(QueueOf) - 1 :
                 Tail(QueueOf)[i] = QueueOf[i + 1]
        BY <2>4, <2>5, HeadTailProperties
      <4>2. Len(QueueOf) - 1 = Len(chain) - 2
        BY <2>2, <2>4
      <4>3. \A q \in Seq(Values) : q = [i \in 1 .. Len(q) |-> q[i]]
        OBVIOUS
      <4> QED BY <4>1, <4>2, <4>3
    <3>3. \A i \in 1 .. Len(chain) - 2 : value[chain'[i + 1]] = QueueOf[i + 1]
      BY <2>2, <2>3 DEF QueueOf
    <3> QED BY <3>1, <3>2, <3>3
  <2>7. PendOf(t)' = Abstract!Dequeued(Head(QueueOf))
    <3>1. pc'[t] = "deqRetire" /\ val'[t] = val[t]
      BY <1>1, <1>5 DEF TypeOK
    <3> QED BY <2>5, <3>1, PendCasesNext
  <2> QED BY <1>2, <1>3, <2>5, <2>6, <2>7, StageStep DEF Abstract!DoDequeue
<1> QED BY <1>4, <1>5

\* The return of try_dequeue, with a value or empty.
LEMMA DeqReturnRefines ==
  ASSUME IInv, NEW t \in Threads, DeqReturn(t)
  PROVE  Abstract!ReturnEmpty(t) \/ Abstract!ReturnValue(t)
<1> USE DEF DeqReturn, At, Goto, EndIteration, Return, queueVars
<1>1. TypeOK /\ DeqInv
  BY RunningAlive DEF IInv
<1>2. Moves(t) /\ pc'[t] = "idle"
  BY <1>1 DEF Moves, TypeOK
<1>3. QueueOf' = QueueOf
  BY DEF QueueOf
<1>4. CASE pc[t] = "deqEmpty"
  BY <1>2, <1>3, <1>4, PendCases, PendCasesNext, StageStep
  DEF Abstract!ReturnEmpty
<1>5. CASE pc[t] = "deqRet"
  <2>1. val[t] \in Values
    BY <1>1, <1>5 DEF DeqInv
  <2>2. Abstract!Stage(t, Abstract!Dequeued(val[t]), Abstract!Idle)
    BY <1>2, <1>5, PendCases, PendCasesNext, StageStep
  <2> QED BY <1>3, <2>1, <2>2 DEF Abstract!ReturnValue
<1> QED BY <1>4, <1>5

-----------------------------------------------------------------------------
(* The theorem.                                                            *)

\* The constructed queue maps to the empty abstract queue.
LEMMA InitRefines == Init => Abstract!Init
<1> SUFFICES ASSUME Init PROVE Abstract!Init
  OBVIOUS
<1>1. QueueOf = <<>>
  BY DEF Init, QueueOf
<1>2. \A t \in Threads : PendOf(t) = Abstract!Idle
  BY PendCases DEF Init
<1> QED BY <1>1, <1>2 DEF Abstract!Init

\* Every step maps to a step of FIFO or to a stutter.
LEMMA NextRefines ==
  IInv /\ [Next]_vars => [Abstract!Next]_(Abstract!fifoVars)
<1> SUFFICES ASSUME IInv, [Next]_vars
             PROVE  \/ UNCHANGED <<QueueOf, PendMap>> \/ Abstract!Next
  BY DEF Abstract!fifoVars, PendMap
<1>1. CASE UNCHANGED vars
  BY <1>1 DEF vars, QueueOf, PendMap, PendOf
<1>2. ASSUME NEW t \in Threads, NEW v \in Values, EnqCall(t, v)
      PROVE  Abstract!Next
  BY <1>2, EnqCallRefines DEF Abstract!Next
<1>3. ASSUME NEW t \in Threads, EnqStep(t)
      PROVE  UNCHANGED <<QueueOf, PendMap>> \/ Abstract!Next
  BY <1>3, EnqLinkRefines, EnqRestRefines, EnqReturnRefines
  DEF EnqStep, Abstract!Next
<1>4. ASSUME NEW t \in Threads, DeqCall(t)
      PROVE  Abstract!Next
  BY <1>4, DeqCallRefines DEF Abstract!Next
<1>5. ASSUME NEW t \in Threads, DeqStep(t)
      PROVE  UNCHANGED <<QueueOf, PendMap>> \/ Abstract!Next
  BY <1>5, DeqRestRefines, DeqNextRefines, DeqCheckRefines, DeqSwingRefines,
     DeqReturnRefines DEF DeqStep, Abstract!Next
<1>6. CASE DtorStart \/ DtorStep
  BY <1>6 DEF DtorStart, FromDummy, DtorStep, queueVars, localVars, QueueOf, PendMap, PendOf
<1> QED BY <1>1, <1>2, <1>3, <1>4, <1>5, <1>6 DEF Next

\* ms_queue is a linearizable FIFO queue.
THEOREM Refinement == Spec => Linearizable
BY InitRefines, NextRefines, Invariance, PTL
DEF Spec, Linearizable, Abstract!Spec

-----------------------------------------------------------------------------
(* Over hp_reclaimer: the inductive invariant.                             *)

D == INSTANCE HazardDomain_proofs

\* Slot s of t's record names m, and every scan that could free m sees it.
Names(t, s, m) ==
  /\ rec[t] # 0 /\ slot[rec[t]][s] = m
  /\ \A u \in Threads : D!Spares(u, rec[t], s, m)

\* The labels at which enqueue holds tail and try_dequeue holds next.
HoldsTail == {"enqNext", "enqCheck", "enqHelp", "enqLink", "enqSwing"}
HoldsNext == {"deqHelp", "deqRead", "deqSwing"}

\* The guard of t's operation: slot 0 names what protect returned, slot 1
\* the successor, once head_ was found unchanged.
GuardInv(t) ==
  /\ pc[t] \in HoldsTail => Names(t, 0, tail[t])
  /\ pc[t] \in HasHead => Names(t, 0, head[t])
  /\ pc[t] \in HoldsNext => Names(t, 1, nx[t])

\* How the calls of an operation nest in the domain's steps.
CallInv(t) ==
  /\ pc[t] = "idle" =>
       dpc[t] \notin {"walk", "link", "publish", "verify", "check"}
  /\ pc[t] \in {"enqProtect", "deqProtect"} =>
       dpc[t] \in {"ready", "walk", "link", "publish", "verify"}
  /\ pc[t] = "deqRet" =>
       dpc[t] \in {"ready", "check", "adopt", "snap", "slots", "free"}
  /\ pc[t] \notin {"idle", "enqProtect", "deqProtect", "deqRet"} =>
       dpc[t] = "ready"
  /\ pc[t] # "idle" => ~exiting[t]
  /\ pc[t] # "idle" /\ dpc[t] \notin {"walk", "link"} => rec[t] # 0
  /\ dpc[t] \in {"publish", "verify"} => k[t] = 0
  /\ dpc[t] = "verify" => slot[rec[t]][0] = ptr[t]

\* The nodes that were dequeued and are about to be retired.
Unlinked == {head[t] : t \in {u \in Threads : pc[u] = "deqRetire"}}

\* A node that waits to be freed is allocated and out of the list; while the
\* queue lives, no other operation has it either, and none is lost.
OwnInv ==
  /\ D!Waiting \subseteq heap /\ D!Waiting \cap Live = {}
  /\ alive =>
       /\ D!Waiting \cap Private = {}
       /\ \A t \in Threads : pc[t] = "deqRetire" =>
            /\ head[t] \in heap
            /\ head[t] \notin D!Waiting \cup Live \cup Private
            /\ \A u \in Threads :
                 pc[u] = "deqRetire" /\ head[u] = head[t] => u = t
       /\ heap \subseteq Live \cup Private \cup Unlinked \cup D!Waiting

HPInv ==
  /\ IInv
  /\ D!CoreInv /\ D!BagsInv
  /\ \A t \in Threads : CallInv(t) /\ GuardInv(t)
  /\ OwnInv

-----------------------------------------------------------------------------
(* The domain's operations.                                                *)

\* What the domain assumes of its constants.
LEMMA Assumed == D!DomainAssumption
<1>1. D!IsFiniteSet(Threads)
  BY HPAssumption, Zenon DEF IsFiniteSet, D!IsFiniteSet
<1> QED BY <1>1, ConstAssumption, HPAssumption DEF D!DomainAssumption

\* The first two slots.
LEMMA TwoSlots == 0 \in D!Slots /\ 1 \in D!Slots
BY HPAssumption DEF D!Slots

\* The actions MSQueueHP takes from HazardDomain are those the domain's
\* lemmas are about.
LEMMA SameOps ==
  ASSUME NEW t \in Threads, NEW s, NEW m
  PROVE  /\ HP!AcqStart(t) => D!AcqStart(t)
         /\ HP!ProtectLoad(t, s, m) => D!ProtectLoad(t, s, m)
         /\ HP!ProtectReturn(t, m) => D!ProtectReturn(t, m)
         /\ HP!ProtectRetry(t, m) => D!ProtectRetry(t, m)
         /\ HP!SetSlot(t, s, m) => D!SetSlot(t, s, m)
         /\ HP!GuardEnd(t) => D!GuardEnd(t)
         /\ HP!Retire(t, m) => D!Retire(t, m)
         /\ HP!ScanFree(t, m) => D!ScanFree(t, m)
         /\ HP!Drain(t) => D!Drain(t)
         /\ HP!ThreadExit(t) => D!ThreadExit(t)
<1> USE DEF HP!DAt, D!DAt, HP!DGoto, D!DGoto, HP!sharedVars, D!sharedVars
<1>1. /\ HP!AcqStart(t) => D!AcqStart(t)
      /\ HP!GuardEnd(t) => D!GuardEnd(t)
  BY DEF HP!AcqStart, D!AcqStart, HP!GuardEnd, D!GuardEnd
<1>2. /\ HP!Drain(t) => D!Drain(t)
      /\ HP!ThreadExit(t) => D!ThreadExit(t)
  BY DEF HP!Drain, D!Drain, HP!ThreadExit, D!ThreadExit
<1>3. HP!ProtectLoad(t, s, m) => D!ProtectLoad(t, s, m)
  BY DEF HP!ProtectLoad, D!ProtectLoad
<1>4. /\ HP!ProtectReturn(t, m) => D!ProtectReturn(t, m)
      /\ HP!ProtectRetry(t, m) => D!ProtectRetry(t, m)
  BY DEF HP!ProtectReturn, D!ProtectReturn, HP!ProtectRetry, D!ProtectRetry,
    HP!Verified, D!Verified
<1>5. HP!SetSlot(t, s, m) => D!SetSlot(t, s, m)
  BY DEF HP!SetSlot, D!SetSlot, HP!threadVars, D!threadVars
<1>6. /\ HP!Retire(t, m) => D!Retire(t, m)
      /\ HP!ScanFree(t, m) => D!ScanFree(t, m)
  BY DEF HP!Retire, D!Retire, HP!ScanFree, D!ScanFree
<1> QED BY <1>1, <1>2, <1>3, <1>4, <1>5, <1>6

\* The same for the steps inside the domain.
LEMMA SameSteps ==
  ASSUME NEW t \in Threads, HP!DomainStep(t)
  PROVE  D!DomainStep(t)
<1> USE DEF HP!DAt, D!DAt, HP!DGoto, D!DGoto, HP!sharedVars, D!sharedVars
<1>1. HP!AcqTry(t) => D!AcqTry(t)
  BY DEF HP!AcqTry, D!AcqTry, HP!Released, D!Released
<1>2. /\ HP!AcqNew(t) => D!AcqNew(t)
      /\ HP!AcqLink(t) => D!AcqLink(t)
  BY DEF HP!AcqNew, D!AcqNew, HP!AcqLink, D!AcqLink, HP!Slots, D!Slots
<1>3. HP!ProtectPublish(t) => D!ProtectPublish(t)
  BY DEF HP!ProtectPublish, D!ProtectPublish
<1>4. /\ HP!GuardClear(t) => D!GuardClear(t)
      /\ HP!ExitClear(t) => D!ExitClear(t)
  BY DEF HP!GuardClear, D!GuardClear, HP!ExitClear, D!ExitClear,
    HP!ClearSlot, D!ClearSlot, HP!LastSlot, D!LastSlot
<1>5. HP!RetireCheck(t) => D!RetireCheck(t)
  <2>1. HP!Full(t) <=> D!Full(t)
    BY DEF HP!Full, D!Full, HP!scan_threshold, D!scan_threshold,
      HP!Cardinality, D!Cardinality
  <2> QED BY <2>1 DEF HP!RetireCheck, D!RetireCheck
<1>6. /\ HP!ScanAdopt(t) => D!ScanAdopt(t)
      /\ HP!ScanEnd(t) => D!ScanEnd(t)
  BY DEF HP!ScanAdopt, D!ScanAdopt, HP!ScanEnd, D!ScanEnd, HP!Exchanged,
    D!Exchanged, HP!AfterScan, D!AfterScan, HP!FreedNow, D!FreedNow
<1>7. HP!ScanStart(t) => D!ScanStart(t)
  BY DEF HP!ScanStart, D!ScanStart
<1>8. HP!ScanSlot(t) => D!ScanSlot(t)
  BY DEF HP!ScanSlot, D!ScanSlot, HP!LastSlot, D!LastSlot
<1>9. \A m \in Nodes : HP!PushOrphan(t, m) => D!PushOrphan(t, m)
  BY DEF HP!PushOrphan, D!PushOrphan, HP!Pushed, D!Pushed
<1>10. /\ HP!OrphansDone(t) => D!OrphansDone(t)
       /\ HP!ReleaseRecord(t) => D!ReleaseRecord(t)
  BY DEF HP!OrphansDone, D!OrphansDone, HP!ReleaseRecord, D!ReleaseRecord,
    HP!Inactive, D!Inactive
<1> QED BY <1>1, <1>2, <1>3, <1>4, <1>5, <1>6, <1>7, <1>8, <1>9, <1>10
      DEF HP!DomainStep, D!DomainStep

-----------------------------------------------------------------------------
(* What a step leaves alone.                                               *)

\* The domain takes one operation of t, or none.
DomainMove(t) == D!DomainOp(t) \/ UNCHANGED domainVars

\* Nothing moves in the domain.
LEMMA DomainSame ==
  ASSUME D!CoreInv, D!BagsInv, UNCHANGED domainVars
  PROVE  D!CoreInv' /\ D!BagsInv' /\ D!Waiting' = D!Waiting
BY DEF D!CoreInv, D!BagsInv, D!Waiting, D!DomainTypeOK, D!RecordInv,
  D!ControlInv, D!CountInv, D!Below, D!Linking, domainVars

\* A name stays one as long as its slot is left alone.
LEMMA NamesKeep ==
  ASSUME D!CoreInv, NEW t \in Threads, DomainMove(t),
         NEW u \in Threads, NEW s \in D!Slots, NEW m \in Nodes, Names(u, s, m),
         rec'[u] = rec[u], slot'[rec[u]][s] = slot[rec[u]][s]
  PROVE  Names(u, s, m)'
<1>1. /\ rec[u] \in 1 .. nlinked /\ rec[u] # 0 /\ slot[rec[u]][s] = m
      /\ \A v \in Threads : D!Spares(v, rec[u], s, m)
  BY DEF Names, D!CoreInv, D!RecordInv, D!DomainTypeOK
<1>2. ASSUME NEW v \in Threads, D!DomainOp(t)
      PROVE  \A r \in 1 .. nlinked :
               slot[r][s] = m /\ D!Spares(v, r, s, m) => D!Spares(v, r, s, m)'
  BY <1>2, D!SparesKeep, Assumed
<1>3. CASE D!DomainOp(t)
  BY <1>1, <1>2, <1>3 DEF Names
<1>4. CASE UNCHANGED domainVars
  BY <1>1, <1>4 DEF Names, D!Spares, domainVars
<1> QED BY <1>3, <1>4 DEF DomainMove

\* What an operation holds is a node.
LEMMA HeldNodes ==
  ASSUME IInv, NEW t \in Threads
  PROVE  /\ pc[t] \in HoldsTail => tail[t] \in Nodes
         /\ pc[t] \in HasHead => head[t] \in Nodes
         /\ pc[t] \in HoldsNext => nx[t] \in Nodes
<1>1. Shared \subseteq Nodes
  BY DEF IInv, TypeOK, Shared
<1>2. pc[t] # "idle" => EnqInv /\ DeqInv
  BY RunningAlive
<1> QED BY <1>1, <1>2 DEF EnqInv, DeqInv, PreLink, HoldsTail, HasHead, HoldsNext

\* Thread u's queue locals are left alone.
LocalsKeep(u) ==
  /\ pc'[u] = pc[u] /\ head'[u] = head[u] /\ tail'[u] = tail[u]
  /\ nx'[u] = nx[u]

\* What u holds stays named while its locals and its slots are left alone.
LEMMA GuardKeeps ==
  ASSUME HPInv, NEW t \in Threads, DomainMove(t),
         NEW u \in Threads, LocalsKeep(u),
         rec'[u] = rec[u], rec[u] # 0 => slot'[rec[u]] = slot[rec[u]]
  PROVE  GuardInv(u)'
<1>1. IInv /\ D!CoreInv /\ GuardInv(u)
  BY DEF HPInv
<1>2. ASSUME NEW s \in D!Slots, NEW m \in Nodes, Names(u, s, m)
      PROVE  Names(u, s, m)'
  BY <1>1, <1>2, NamesKeep DEF Names
<1>3. pc[u] \in HoldsTail => Names(u, 0, tail[u])'
  <2>1. pc[u] \in HoldsTail => tail[u] \in Nodes /\ Names(u, 0, tail[u])
    BY <1>1, HeldNodes DEF GuardInv
  <2> QED BY <1>2, <2>1, TwoSlots DEF LocalsKeep
<1>4. pc[u] \in HasHead => Names(u, 0, head[u])'
  <2>1. pc[u] \in HasHead => head[u] \in Nodes /\ Names(u, 0, head[u])
    BY <1>1, HeldNodes DEF GuardInv
  <2> QED BY <1>2, <2>1, TwoSlots DEF LocalsKeep
<1>5. pc[u] \in HoldsNext => Names(u, 1, nx[u])'
  <2>1. pc[u] \in HoldsNext => nx[u] \in Nodes /\ Names(u, 1, nx[u])
    BY <1>1, HeldNodes DEF GuardInv
  <2> QED BY <1>2, <2>1, TwoSlots DEF LocalsKeep
<1> QED BY <1>3, <1>4, <1>5 DEF GuardInv, LocalsKeep

\* Other threads' calls and guards.
LEMMA OthersKeep ==
  ASSUME HPInv, NEW t \in Threads, DomainMove(t),
         NEW u \in Threads, u # t, LocalsKeep(u)
  PROVE  CallInv(u)' /\ GuardInv(u)'
<1>1. D!CoreInv /\ CallInv(u)
  BY DEF HPInv
<1>2. /\ rec'[u] = rec[u] /\ dpc'[u] = dpc[u] /\ k'[u] = k[u]
      /\ ptr'[u] = ptr[u] /\ exiting'[u] = exiting[u]
      /\ rec[u] # 0 => slot'[rec[u]] = slot[rec[u]]
  <2>1. CASE D!DomainOp(t)
    BY <1>1, <2>1, D!OthersSlots, Assumed
  <2>2. CASE UNCHANGED domainVars
    BY <2>2 DEF domainVars
  <2> QED BY <2>1, <2>2 DEF DomainMove
<1>3. dpc[u] = "verify" => rec[u] # 0
  BY <1>1 DEF D!CoreInv, D!ControlInv
<1>4. CallInv(u)'
  BY <1>1, <1>2, <1>3 DEF CallInv, LocalsKeep
<1> QED BY <1>2, <1>4, GuardKeeps

\* The invariant apart from the list's.
RestInv ==
  /\ D!CoreInv /\ D!BagsInv
  /\ \A t \in Threads : CallInv(t) /\ GuardInv(t)
  /\ OwnInv

\* A step of t keeps it if t's own calls and guard and the owners are kept.
LEMMA RestFrom ==
  ASSUME HPInv, NEW t \in Threads, DomainMove(t),
         \A u \in Threads \ {t} : LocalsKeep(u),
         CallInv(t)', GuardInv(t)', D!BagsInv', OwnInv'
  PROVE  RestInv'
<1>1. D!CoreInv'
  <2>1. CASE D!DomainOp(t)
    BY <2>1, D!CoreKeeps, Assumed DEF HPInv
  <2>2. CASE UNCHANGED domainVars
    BY <2>2, DomainSame DEF HPInv
  <2> QED BY <2>1, <2>2 DEF DomainMove
<1>2. \A u \in Threads : CallInv(u)' /\ GuardInv(u)'
  BY OthersKeep
<1> QED BY <1>1, <1>2 DEF RestInv

\* The owners of the nodes do not change.
OwnersKeep ==
  /\ heap' = heap /\ alive' = alive /\ Live' = Live /\ Private' = Private
  /\ \A u \in Threads : (pc'[u] = "deqRetire") <=> (pc[u] = "deqRetire")
  /\ \A u \in Threads : pc[u] = "deqRetire" => head'[u] = head[u]

\* What they then say stays true.
LEMMA OwnFrame ==
  ASSUME OwnInv, OwnersKeep, D!Waiting' = D!Waiting
  PROVE  OwnInv'
<1>1. Unlinked' = Unlinked
  BY DEF Unlinked, OwnersKeep
<1> QED BY <1>1 DEF OwnInv, OwnersKeep

\* Steps of the queue after which every node is where it was.
StillStep(t) ==
  \/ DeqCall(t) \/ EnqProtect(t) \/ EnqNext(t) \/ EnqCheck(t) \/ EnqHelp(t)
  \/ EnqSwing(t) \/ EnqReturn(t) \/ DeqProtect(t) \/ DeqTail(t) \/ DeqNext(t)
  \/ DeqCheck(t) \/ DeqHelp(t) \/ DeqRead(t) \/ DeqReturn(t)

\* Such a step changes no owner.
LEMMA StillKeeps ==
  ASSUME TypeOK, NEW t \in Threads, StillStep(t)
  PROVE  OwnersKeep
<1> USE DEF At, Goto, EndIteration, Return, queueVars, dtorVars
<1>1. /\ heap' = heap /\ alive' = alive /\ chain' = chain
      /\ \A u \in Threads : (pc'[u] = "deqRetire") <=> (pc[u] = "deqRetire")
      /\ \A u \in Threads : (pc'[u] \in PreLink) <=> (pc[u] \in PreLink)
  BY DEF StillStep, DeqCall, EnqProtect, EnqNext, EnqCheck, EnqHelp, EnqSwing,
    EnqReturn, DeqProtect, DeqTail, DeqNext, DeqCheck, DeqHelp, DeqRead,
    DeqReturn, PreLink, TypeOK
<1>2. /\ \A u \in Threads : pc[u] = "deqRetire" => head'[u] = head[u]
      /\ \A u \in Threads : pc[u] \in PreLink => n'[u] = n[u]
  BY DEF StillStep, DeqCall, EnqProtect, EnqNext, EnqCheck, EnqHelp, EnqSwing,
    EnqReturn, DeqProtect, DeqTail, DeqNext, DeqCheck, DeqHelp, DeqRead,
    DeqReturn, PreLink, TypeOK
<1>3. Private' = Private
  BY <1>1, <1>2 DEF Private
<1>4. Live' = Live
  BY <1>1 DEF Live
<1> QED BY <1>1, <1>2, <1>3, <1>4 DEF OwnersKeep

\* Nothing moves in the queue.
LEMMA SameKeeps ==
  ASSUME UNCHANGED vars
  PROVE  OwnersKeep /\ \A u \in Threads : LocalsKeep(u)
BY DEF OwnersKeep, LocalsKeep, Live, Private, vars

\* A step of the queue is a step of one thread.
LEMMA QueueLocals ==
  ASSUME TypeOK, NEW t \in Threads,
         \/ StillStep(t) \/ EnqLink(t) \/ DeqSwing(t) \/ DeqRetire(t)
         \/ \E v \in Values : EnqCall(t, v)
  PROVE  \A u \in Threads \ {t} : LocalsKeep(u)
<1> USE DEF At, Goto, EndIteration, Return
<1>1. CASE StillStep(t)
  BY <1>1 DEF LocalsKeep, StillStep, DeqCall, EnqProtect, EnqNext, EnqCheck,
    EnqHelp, EnqSwing, EnqReturn, DeqProtect, DeqTail, DeqNext, DeqCheck,
    DeqHelp, DeqRead, DeqReturn, TypeOK
<1>2. CASE ~StillStep(t)
  BY <1>2 DEF LocalsKeep, EnqLink, DeqSwing, DeqRetire, EnqCall, TypeOK
<1> QED BY <1>1, <1>2

-----------------------------------------------------------------------------
(* Steps inside the domain, the queue standing still.                      *)

\* Nothing is retired and nothing freed.
LEMMA BagsStay ==
  ASSUME HPInv, NEW t \in Threads, D!DomainOp(t), retired' = retired,
         ~(dpc[t] = "free" /\ dpc'[t] = "free")
  PROVE  D!BagsInv' /\ D!Waiting' = D!Waiting
<1>1. D!DomainTypeOK /\ D!BagsInv
  BY DEF HPInv, D!CoreInv
<1>2. \A m \in Nodes : ~D!Retire(t, m)
  BY <1>1 DEF D!Retire, D!DomainTypeOK
<1>3. \A m \in Nodes : ~D!ScanFree(t, m)
  BY DEF D!ScanFree, D!DAt
<1> QED BY <1>1, <1>2, <1>3, D!StepBags, Assumed

\* The domain's own steps.
LEMMA StepFrame ==
  ASSUME D!DomainTypeOK, NEW t \in Threads, D!DomainStep(t)
  PROVE  /\ D!DomainOp(t) /\ retired' = retired /\ dpc[t] # "ready"
         /\ ~(dpc[t] = "free" /\ dpc'[t] = "free")
<1> USE DEF D!DAt, D!DGoto, D!sharedVars
<1>1. D!DomainOp(t)
  BY DEF D!DomainStep, D!DomainOp, D!LocalOp, D!SlotOp, D!RecordOp, D!BagOp
<1>2. retired' = retired /\ dpc[t] # "ready"
  BY DEF D!DomainStep, D!AcqTry, D!AcqNew, D!AcqLink, D!ProtectPublish,
    D!GuardClear, D!ClearSlot, D!RetireCheck, D!ScanAdopt, D!ScanStart,
    D!ScanSlot, D!ScanEnd, D!PushOrphan, D!OrphansDone, D!ExitClear,
    D!ReleaseRecord
<1>3. ~(dpc[t] = "free" /\ dpc'[t] = "free")
  BY DEF D!DomainStep, D!AcqTry, D!AcqNew, D!AcqLink, D!ProtectPublish,
    D!GuardClear, D!ClearSlot, D!RetireCheck, D!ScanAdopt, D!ScanStart,
    D!ScanSlot, D!ScanEnd, D!PushOrphan, D!OrphansDone, D!ExitClear,
    D!ReleaseRecord, D!AfterScan, D!DomainTypeOK
<1> QED BY <1>1, <1>2, <1>3

\* An operation that is inside the domain holds nothing.
LEMMA InsideHoldsNothing ==
  ASSUME NEW t \in Threads, CallInv(t), dpc[t] # "ready"
  PROVE  /\ pc[t] \in {"idle", "enqProtect", "deqProtect", "deqRet"}
         /\ pc[t] \notin HoldsTail \cup HasHead \cup HoldsNext
BY DEF CallInv, HoldsTail, HasHead, HoldsNext

\* Where the calls of t are after a step of its own inside the domain.
LEMMA StepCalls ==
  ASSUME D!CoreInv, NEW t \in Threads, CallInv(t), D!DomainStep(t),
         pc'[t] = pc[t]
  PROVE  CallInv(t)'
<1> USE DEF D!DAt, D!DGoto, D!sharedVars
<1>0. D!DomainTypeOK /\ D!ControlInv /\ D!CountInv
  BY DEF D!CoreInv
<1>1. CASE D!AcqTry(t) \/ D!AcqNew(t)
  BY <1>0, <1>1 DEF D!AcqTry, D!AcqNew, D!DomainTypeOK, CallInv
<1>2. CASE D!AcqLink(t)
  BY <1>0, <1>2 DEF D!AcqLink, D!DomainTypeOK, CallInv
<1>3. CASE D!ProtectPublish(t)
  <2>1. /\ rec[t] \in D!Records /\ k[t] = 0 /\ 0 \in D!Slots
        /\ dpc[t] = "publish" /\ dpc'[t] = "verify"
        /\ rec' = rec /\ k' = k /\ ptr' = ptr /\ exiting' = exiting
        /\ slot' = [slot EXCEPT ![rec[t]][k[t]] = ptr[t]]
    BY <1>0, <1>3, TwoSlots
    DEF D!ProtectPublish, D!DomainTypeOK, D!ControlInv, D!Records, CallInv
  <2>2. slot'[rec[t]][0] = ptr[t]
    BY <1>0, <2>1 DEF D!DomainTypeOK
  <2> QED BY <2>1, <2>2 DEF CallInv
<1>4. CASE D!GuardClear(t)
  BY <1>0, <1>4 DEF D!GuardClear, D!ClearSlot, D!DomainTypeOK, CallInv
<1>5. CASE D!RetireCheck(t) \/ D!ScanAdopt(t) \/ D!ScanStart(t)
             \/ D!ScanSlot(t) \/ D!ScanEnd(t)
  <2>1. /\ rec' = rec /\ exiting' = exiting
        /\ dpc[t] \in {"check", "adopt", "snap", "slots", "free"}
        /\ \/ dpc'[t] \in {"ready", "adopt", "snap", "slots", "free"}
           \/ dpc'[t] = "orphan" /\ exiting[t]
    BY <1>0, <1>5 DEF D!RetireCheck, D!ScanAdopt, D!ScanStart, D!ScanSlot,
      D!ScanEnd, D!AfterScan, D!DomainTypeOK
  <2> QED BY <2>1 DEF CallInv
<1>6. CASE \/ D!OrphansDone(t) \/ D!ExitClear(t) \/ D!ReleaseRecord(t)
           \/ \E m \in Nodes : D!PushOrphan(t, m)
  <2>1. /\ dpc[t] \in {"orphan", "wipe", "release"}
        /\ dpc'[t] \in {"orphan", "wipe", "release", "ready"}
    BY <1>0, <1>6 DEF D!OrphansDone, D!ExitClear, D!ClearSlot,
      D!ReleaseRecord, D!PushOrphan, D!DomainTypeOK
  <2> QED BY <2>1 DEF CallInv
<1> QED BY <1>1, <1>2, <1>3, <1>4, <1>5, <1>6 DEF D!DomainStep

\* A step of t inside the domain.
LEMMA InsideRest ==
  ASSUME HPInv, NEW t \in Threads, HP!DomainStep(t), UNCHANGED vars
  PROVE  RestInv' /\ DomainMove(t)
<1>0. /\ D!DomainStep(t) /\ D!CoreInv /\ D!DomainTypeOK /\ OwnInv /\ CallInv(t)
      /\ OwnersKeep /\ \A u \in Threads : LocalsKeep(u)
  BY SameSteps, SameKeeps DEF HPInv, D!CoreInv
<1>1. /\ D!DomainOp(t) /\ retired' = retired /\ dpc[t] # "ready"
      /\ ~(dpc[t] = "free" /\ dpc'[t] = "free")
  BY <1>0, StepFrame
<1>2. D!BagsInv' /\ OwnInv'
  BY <1>0, <1>1, BagsStay, OwnFrame
<1>3. CallInv(t)'
  BY <1>0, StepCalls DEF LocalsKeep
<1>4. GuardInv(t)'
  BY <1>0, <1>1, InsideHoldsNothing DEF GuardInv, LocalsKeep
<1> QED BY <1>0, <1>1, <1>2, <1>3, <1>4, RestFrom DEF DomainMove

\* drain() and thread exit.
LEMMA OutsideRest ==
  ASSUME HPInv, NEW t \in Threads, Outside(t)
  PROVE  RestInv' /\ DomainMove(t)
<1> USE DEF D!DAt, D!DGoto, D!sharedVars, At
<1>0. /\ D!DomainTypeOK /\ OwnInv /\ CallInv(t) /\ pc[t] = "idle"
      /\ OwnersKeep /\ \A u \in Threads : LocalsKeep(u)
  BY SameKeeps DEF HPInv, D!CoreInv, Outside
<1>1. D!Drain(t) \/ D!ThreadExit(t)
  BY SameOps DEF Outside
<1>2. /\ D!DomainOp(t) /\ retired' = retired
      /\ dpc[t] = "ready" /\ dpc'[t] \in {"adopt", "orphan"}
  BY <1>0, <1>1
  DEF D!DomainOp, D!LocalOp, D!Drain, D!ThreadExit, D!DomainTypeOK
<1>3. D!BagsInv' /\ OwnInv'
  BY <1>0, <1>2, BagsStay, OwnFrame
<1>4. CallInv(t)' /\ GuardInv(t)'
  BY <1>0, <1>2 DEF CallInv, GuardInv, LocalsKeep, HoldsTail, HasHead, HoldsNext
<1> QED BY <1>0, <1>2, <1>3, <1>4, RestFrom DEF DomainMove

\* The loads and retries of protect.
LEMMA ProtectRest ==
  ASSUME HPInv, NEW t \in Threads, pc[t] \in {"enqProtect", "deqProtect"},
         NEW v \in Nodes, ProtectFrom(t, v)
  PROVE  RestInv' /\ DomainMove(t)
<1> USE DEF D!DAt, D!DGoto, D!sharedVars
<1>0. /\ D!DomainTypeOK /\ OwnInv /\ CallInv(t)
      /\ OwnersKeep /\ \A u \in Threads : LocalsKeep(u)
  BY SameKeeps DEF HPInv, D!CoreInv, ProtectFrom
<1>1. D!ProtectLoad(t, 0, v) \/ D!ProtectRetry(t, v)
  BY SameOps DEF ProtectFrom
<1>2. /\ D!DomainOp(t) /\ retired' = retired /\ dpc[t] \in {"ready", "verify"}
      /\ dpc'[t] = "publish" /\ k'[t] = 0 /\ rec' = rec /\ exiting' = exiting
  BY <1>0, <1>1, TwoSlots
  DEF D!DomainOp, D!LocalOp, D!ProtectLoad, D!ProtectRetry, D!DomainTypeOK, CallInv
<1>3. D!BagsInv' /\ OwnInv'
  BY <1>0, <1>2, BagsStay, OwnFrame
<1>4. CallInv(t)' /\ GuardInv(t)'
  BY <1>0, <1>2 DEF CallInv, GuardInv, LocalsKeep, HoldsTail, HasHead, HoldsNext
<1> QED BY <1>0, <1>2, <1>3, <1>4, RestFrom DEF DomainMove

\* set(1, next) leaves slot 0 alone.
LEMMA SetRest ==
  ASSUME HPInv, NEW t \in Threads, pc[t] = "deqCheck",
         HP!SetSlot(t, 1, nx[t]), UNCHANGED vars
  PROVE  RestInv' /\ DomainMove(t)
<1> USE DEF D!DAt, D!DGoto, D!threadVars
<1>0. /\ D!DomainTypeOK /\ OwnInv /\ CallInv(t) /\ GuardInv(t) /\ IInv
      /\ OwnersKeep /\ \A u \in Threads : LocalsKeep(u) /\ D!CoreInv
  BY SameKeeps DEF HPInv, D!CoreInv
<1>1. D!SetSlot(t, 1, nx[t]) /\ nx[t] \in Nodes \cup {Null}
  BY <1>0, SameOps DEF IInv, TypeOK
<1>2. /\ D!DomainOp(t) /\ retired' = retired /\ dpc[t] = "ready" /\ dpc' = dpc
      /\ rec' = rec /\ exiting' = exiting /\ rec[t] # 0
      /\ slot' = [slot EXCEPT ![rec[t]][1] = nx[t]]
  BY <1>0, <1>1, TwoSlots
  DEF D!DomainOp, D!SlotOp, D!SetSlot, D!DomainTypeOK, CallInv
<1>3. D!BagsInv' /\ OwnInv'
  BY <1>0, <1>2, BagsStay, OwnFrame
<1>4. CallInv(t)'
  BY <1>0, <1>2 DEF CallInv, LocalsKeep
<1>5. GuardInv(t)'
  <2>1. slot'[rec[t]][0] = slot[rec[t]][0]
    <3>1. rec[t] \in D!Records
      BY <1>0, <1>2 DEF D!DomainTypeOK, D!Records
    <3> QED BY <1>0, <1>2, <3>1, TwoSlots DEF D!DomainTypeOK
  <2>2. head[t] \in Nodes /\ Names(t, 0, head[t])
    BY <1>0, HeldNodes DEF GuardInv, HasHead
  <2>3. ASSUME NEW m \in Nodes, Names(t, 0, m)
        PROVE  Names(t, 0, m)'
    BY <1>0, <1>2, <2>1, <2>3, TwoSlots, NamesKeep DEF DomainMove
  <2> QED BY <1>0, <2>2, <2>3 DEF GuardInv, LocalsKeep, HoldsTail, HoldsNext
<1> QED BY <1>0, <1>2, <1>3, <1>4, <1>5, RestFrom DEF DomainMove

-----------------------------------------------------------------------------
(* Calls and returns.                                                      *)

\* The guard is constructed: the domain fetches a record or begins to.
LEMMA OpenMove ==
  ASSUME HPInv, NEW t \in Threads, OpenGuard(t)
  PROVE  /\ DomainMove(t) /\ D!BagsInv' /\ D!Waiting' = D!Waiting
         /\ dpc'[t] \in {"ready", "walk"} /\ exiting'[t] = exiting[t]
         /\ ~exiting[t]
         /\ dpc'[t] = "ready" => rec'[t] # 0
<1> USE DEF D!DAt, D!DGoto, D!sharedVars
<1>0. /\ D!DomainTypeOK /\ D!CoreInv /\ D!BagsInv /\ dpc[t] = "ready"
      /\ ~exiting[t]
  BY DEF HPInv, D!CoreInv, D!ControlInv, OpenGuard, Ready
<1>1. CASE HP!AcqStart(t)
  <2>1. D!AcqStart(t)
    BY <1>1, SameOps
  <2>2. /\ D!DomainOp(t) /\ retired' = retired /\ dpc'[t] = "walk"
        /\ exiting' = exiting
    BY <1>0, <2>1 DEF D!DomainOp, D!RecordOp, D!AcqStart, D!DomainTypeOK
  <2> QED BY <1>0, <2>2, BagsStay DEF DomainMove
<1>2. CASE rec[t] # 0 /\ UNCHANGED domainVars
  <2>1. D!BagsInv' /\ D!Waiting' = D!Waiting
    BY <1>0, <1>2, DomainSame
  <2> QED BY <1>0, <1>2, <2>1 DEF domainVars, DomainMove
<1> QED BY <1>1, <1>2 DEF OpenGuard

\* try_dequeue is called.
LEMMA DeqCallRest ==
  ASSUME HPInv, NEW t \in Threads, DeqCall(t), OpenGuard(t)
  PROVE  RestInv' /\ DomainMove(t)
<1>0. TypeOK /\ StillStep(t) /\ OwnInv
  BY DEF HPInv, IInv, StillStep
<1>1. pc'[t] = "deqProtect"
  BY <1>0 DEF DeqCall, Goto, TypeOK
<1>2. OwnInv' /\ \A u \in Threads \ {t} : LocalsKeep(u)
  BY <1>0, OpenMove, StillKeeps, OwnFrame, QueueLocals
<1>3. CallInv(t)' /\ GuardInv(t)'
  BY <1>1, OpenMove DEF CallInv, GuardInv, HoldsTail, HasHead, HoldsNext
<1> QED BY <1>2, <1>3, OpenMove, RestFrom

\* enqueue is called: its new node was not allocated, so it waits nowhere.
LEMMA EnqCallRest ==
  ASSUME HPInv, NEW t \in Threads, NEW v \in Values, EnqCall(t, v), OpenGuard(t)
  PROVE  RestInv' /\ DomainMove(t)
<1> USE DEF EnqCall, At, Goto
<1>0. TypeOK /\ OwnInv /\ alive /\ ListInv
  BY DEF HPInv, IInv
<1>1. PICK m \in Nodes \ heap :
        heap' = heap \cup {m} /\ n' = [n EXCEPT ![t] = m]
  OBVIOUS
<1>2. /\ pc[t] = "idle" /\ pc' = [pc EXCEPT ![t] = "enqProtect"]
      /\ head' = head /\ chain' = chain /\ alive'
  BY <1>0 DEF dtorVars
<1>3. /\ Private' = Private \cup {m} /\ Live' = Live /\ Unlinked' = Unlinked
  <2>1. Live' = Live
    BY <1>2 DEF Live
  <2>2. Unlinked' = Unlinked
    BY <1>0, <1>2 DEF Unlinked, TypeOK
  <2>3. ASSUME NEW x
        PROVE  x \in Private' <=> x \in Private \cup {m}
    <3>1. x \in Private' <=> \E u \in Threads : pc'[u] \in PreLink /\ x = n'[u]
      BY DEF Private
    <3>2. x \in Private <=> \E u \in Threads : pc[u] \in PreLink /\ x = n[u]
      BY DEF Private
    <3>3. \A u \in Threads \ {t} : pc'[u] = pc[u] /\ n'[u] = n[u]
      BY <1>0, <1>1, <1>2 DEF TypeOK
    <3>4. /\ pc[t] \notin PreLink /\ pc'[t] \in PreLink /\ n'[t] = m
      BY <1>0, <1>1, <1>2 DEF TypeOK, PreLink
    <3> QED BY <3>1, <3>2, <3>3, <3>4
  <2> QED BY <2>1, <2>2, <2>3
<1>4. m \notin D!Waiting /\ m \notin Live
  <2>1. Live \subseteq heap
    BY <1>0 DEF ListInv
  <2> QED BY <1>0, <2>1 DEF OwnInv
<1>5. \A u \in Threads : pc'[u] = "deqRetire" => pc[u] = "deqRetire"
  BY <1>0, <1>2 DEF TypeOK
<1>6. OwnInv'
  BY <1>0, <1>1, <1>2, <1>3, <1>4, <1>5, OpenMove DEF OwnInv
<1>7. \A u \in Threads \ {t} : LocalsKeep(u)
  BY <1>0, QueueLocals
<1>8. pc'[t] = "enqProtect"
  BY <1>0, <1>2 DEF TypeOK
<1>9. CallInv(t)' /\ GuardInv(t)'
  BY <1>8, OpenMove DEF CallInv, GuardInv, HoldsTail, HasHead, HoldsNext
<1> QED BY <1>6, <1>7, <1>9, OpenMove, RestFrom

\* ~guard runs when an operation returns.
LEMMA ReturnRest ==
  ASSUME HPInv, NEW t \in Threads, EnqReturn(t) \/ DeqReturn(t), HP!GuardEnd(t)
  PROVE  RestInv' /\ DomainMove(t)
<1> USE DEF D!DAt, D!DGoto, D!sharedVars
<1>0. TypeOK /\ StillStep(t) /\ OwnInv /\ D!DomainTypeOK
  BY DEF HPInv, IInv, StillStep, D!CoreInv
<1>1. D!GuardEnd(t)
  BY SameOps
<1>2. /\ D!DomainOp(t) /\ retired' = retired /\ dpc[t] = "ready"
      /\ dpc'[t] = "clear"
  BY <1>0, <1>1 DEF D!DomainOp, D!LocalOp, D!GuardEnd, D!DomainTypeOK
<1>3. pc'[t] = "idle"
  BY <1>0 DEF EnqReturn, DeqReturn, Return, EndIteration, Goto, TypeOK
<1>4. D!BagsInv' /\ OwnInv' /\ \A u \in Threads \ {t} : LocalsKeep(u)
  BY <1>0, <1>2, BagsStay, StillKeeps, OwnFrame, QueueLocals
<1>5. CallInv(t)' /\ GuardInv(t)'
  BY <1>2, <1>3 DEF CallInv, GuardInv, HoldsTail, HasHead, HoldsNext
<1> QED BY <1>2, <1>4, <1>5, RestFrom DEF DomainMove

-----------------------------------------------------------------------------
(* protect returns, and retire.                                            *)

\* A node of the list is not retired.
LEMMA LiveSpared ==
  ASSUME HPInv, NEW m \in Live
  PROVE  \A u \in Threads : \A r, s : D!Spares(u, r, s, m)
<1>1. m \notin D!Waiting
  BY DEF HPInv, OwnInv
<1> QED BY <1>1, D!SparesFresh, Assumed

\* protect has published ptr and then found it in the shared pointer, which
\* names a node of the list: no scan under way can free it any more.
LEMMA VerifiedNames ==
  ASSUME HPInv, NEW t \in Threads, NEW m \in Live, D!ProtectReturn(t, m)
  PROVE  /\ Names(t, 0, m)' /\ D!DomainOp(t) /\ retired' = retired
         /\ dpc[t] = "verify" /\ dpc'[t] = "ready"
         /\ rec' = rec /\ rec[t] # 0 /\ exiting' = exiting
<1> USE DEF D!DAt, D!DGoto, D!sharedVars
<1>0. /\ D!DomainTypeOK /\ D!ControlInv /\ D!CoreInv /\ CallInv(t) /\ m \in Nodes
  BY DEF HPInv, D!CoreInv, IInv, TypeOK, Live
<1>1. /\ D!DomainOp(t) /\ retired' = retired /\ dpc[t] = "verify"
      /\ dpc'[t] = "ready" /\ rec' = rec /\ exiting' = exiting /\ slot' = slot
      /\ m = ptr[t]
  BY <1>0
  DEF D!DomainOp, D!LocalOp, D!ProtectReturn, D!Verified, D!DomainTypeOK
<1>2. rec[t] # 0 /\ slot[rec[t]][0] = m
  BY <1>0, <1>1 DEF D!ControlInv, CallInv
<1>3. Names(t, 0, m)
  BY <1>2, LiveSpared DEF Names
<1>4. Names(t, 0, m)'
  BY <1>0, <1>1, <1>3, NamesKeep, TwoSlots DEF DomainMove
<1> QED BY <1>1, <1>2, <1>4

\* tail_ and head_ are in the list.
LEMMA EndsLive ==
  ASSUME IInv
  PROVE  head_ \in Live /\ tail_ \in Live
BY DEF IInv, TypeOK, ListInv, Live, Last

\* enqueue's protect returns.
LEMMA EnqProtectRest ==
  ASSUME HPInv, NEW t \in Threads, EnqProtect(t), HP!ProtectReturn(t, tail_)
  PROVE  RestInv' /\ DomainMove(t)
<1>0. TypeOK /\ StillStep(t) /\ OwnInv /\ CallInv(t) /\ IInv
  BY DEF HPInv, IInv, StillStep
<1>1. D!ProtectReturn(t, tail_) /\ tail_ \in Live
  BY <1>0, SameOps, EndsLive
<1>2. ASSUME NEW m \in Live, m = tail_
      PROVE  /\ Names(t, 0, m)' /\ D!DomainOp(t) /\ retired' = retired
             /\ dpc[t] = "verify" /\ dpc'[t] = "ready"
             /\ rec' = rec /\ rec[t] # 0 /\ exiting' = exiting
  BY <1>1, <1>2, VerifiedNames
<1>3. /\ pc[t] = "enqProtect" /\ pc'[t] = "enqNext" /\ tail'[t] = tail_
  BY <1>0 DEF EnqProtect, At, Goto, TypeOK
<1>4. D!BagsInv' /\ OwnInv' /\ \A u \in Threads \ {t} : LocalsKeep(u)
  BY <1>0, <1>1, <1>2, BagsStay, StillKeeps, OwnFrame, QueueLocals
<1>5. CallInv(t)'
  BY <1>0, <1>1, <1>2, <1>3 DEF CallInv
<1>6. GuardInv(t)'
  BY <1>1, <1>2, <1>3 DEF GuardInv, HasHead, HoldsNext
<1> QED BY <1>1, <1>2, <1>4, <1>5, <1>6, RestFrom DEF DomainMove

\* try_dequeue's protect returns.
LEMMA DeqProtectRest ==
  ASSUME HPInv, NEW t \in Threads, DeqProtect(t), HP!ProtectReturn(t, head_)
  PROVE  RestInv' /\ DomainMove(t)
<1>0. TypeOK /\ StillStep(t) /\ OwnInv /\ CallInv(t) /\ IInv
  BY DEF HPInv, IInv, StillStep
<1>1. D!ProtectReturn(t, head_) /\ head_ \in Live
  BY <1>0, SameOps, EndsLive
<1>2. ASSUME NEW m \in Live, m = head_
      PROVE  /\ Names(t, 0, m)' /\ D!DomainOp(t) /\ retired' = retired
             /\ dpc[t] = "verify" /\ dpc'[t] = "ready"
             /\ rec' = rec /\ rec[t] # 0 /\ exiting' = exiting
  BY <1>1, <1>2, VerifiedNames
<1>3. /\ pc[t] = "deqProtect" /\ pc'[t] = "deqTail" /\ head'[t] = head_
  BY <1>0 DEF DeqProtect, At, Goto, TypeOK
<1>4. D!BagsInv' /\ OwnInv' /\ \A u \in Threads \ {t} : LocalsKeep(u)
  BY <1>0, <1>1, <1>2, BagsStay, StillKeeps, OwnFrame, QueueLocals
<1>5. CallInv(t)'
  BY <1>0, <1>1, <1>2, <1>3 DEF CallInv
<1>6. GuardInv(t)'
  BY <1>1, <1>2, <1>3 DEF GuardInv, HoldsTail, HoldsNext
<1> QED BY <1>1, <1>2, <1>4, <1>5, <1>6, RestFrom DEF DomainMove

\* retire(head) hands the unlinked node over to the domain.
LEMMA RetireRest ==
  ASSUME HPInv, NEW t \in Threads, DeqRetire(t), HP!Retire(t, head[t])
  PROVE  RestInv' /\ DomainMove(t)
<1> USE DEF D!DAt, D!DGoto, D!sharedVars
<1>0. /\ TypeOK /\ OwnInv /\ CallInv(t) /\ D!DomainTypeOK /\ D!CoreInv
      /\ D!BagsInv /\ pc[t] = "deqRetire" /\ alive
  BY RunningAlive DEF HPInv, IInv, D!CoreInv, DeqRetire, At
<1>1. D!Retire(t, head[t]) /\ head[t] \in Nodes /\ head[t] \in heap
  BY <1>0, SameOps DEF OwnInv, TypeOK
<1>2. /\ D!DomainOp(t) /\ dpc[t] = "ready" /\ dpc'[t] = "check"
      /\ rec' = rec /\ exiting' = exiting
  BY <1>0, <1>1 DEF D!DomainOp, D!BagOp, D!Retire, D!DomainTypeOK
<1>3. D!BagsInv' /\ D!Waiting' = D!Waiting \cup {head[t]}
  BY <1>0, <1>1, D!RetireBags, Assumed DEF OwnInv
<1>4. /\ pc' = [pc EXCEPT ![t] = "deqRet"] /\ head' = head /\ n' = n
      /\ heap' = heap /\ chain' = chain /\ alive' = alive
  BY DEF DeqRetire, Goto, queueVars, dtorVars
<1>5. Live' = Live /\ Private' = Private
  BY <1>0, <1>4 DEF Live, Private, PreLink, TypeOK
<1>6. \A u \in Threads : /\ pc'[u] = "deqRetire" => pc[u] = "deqRetire" /\ u # t
                         /\ pc[u] = "deqRetire" /\ u # t => pc'[u] = "deqRetire"
  BY <1>0, <1>4 DEF TypeOK
<1>7. Unlinked \subseteq Unlinked' \cup {head[t]}
  BY <1>4, <1>6 DEF Unlinked
<1>8. OwnInv'
  <2>1. \A u \in Threads : pc'[u] = "deqRetire" => head[u] # head[t]
    BY <1>0, <1>6 DEF OwnInv
  <2>2. D!Waiting' \subseteq heap' /\ D!Waiting' \cap Live' = {}
    BY <1>0, <1>1, <1>3, <1>4, <1>5 DEF OwnInv
  <2>3. /\ D!Waiting' \cap Private' = {}
        /\ heap' \subseteq Live' \cup Private' \cup Unlinked' \cup D!Waiting'
    BY <1>0, <1>3, <1>4, <1>5, <1>7 DEF OwnInv
  <2>4. ASSUME NEW x \in Threads, pc'[x] = "deqRetire"
        PROVE  /\ head'[x] \in heap'
               /\ head'[x] \notin D!Waiting' \cup Live' \cup Private'
               /\ \A u \in Threads :
                    pc'[u] = "deqRetire" /\ head'[u] = head'[x] => u = x
    BY <1>0, <1>3, <1>4, <1>5, <1>6, <2>1, <2>4 DEF OwnInv
  <2> QED BY <2>2, <2>3, <2>4 DEF OwnInv
<1>9. \A u \in Threads \ {t} : LocalsKeep(u)
  BY <1>0, QueueLocals
<1>10. pc'[t] = "deqRet"
  BY <1>0, <1>4 DEF TypeOK
<1>11. CallInv(t)' /\ GuardInv(t)'
  BY <1>0, <1>2, <1>10 DEF CallInv, GuardInv, HoldsTail, HasHead, HoldsNext
<1> QED BY <1>2, <1>3, <1>8, <1>9, <1>11, RestFrom DEF DomainMove

-----------------------------------------------------------------------------
(* Steps of the queue between two calls into the domain.                   *)

\* Names depend on the domain only.
LEMMA SameNames ==
  ASSUME UNCHANGED domainVars, NEW t \in Threads, NEW s, NEW m, Names(t, s, m)
  PROVE  Names(t, s, m)'
BY DEF Names, D!Spares, domainVars

\* Wherever such a step leads, t is outside the domain and has its record.
LEMMA PlainCalls ==
  ASSUME HPInv, NEW t \in Threads, Plain(t), pc[t] # "idle"
  PROVE  CallInv(t)'
<1>1. dpc[t] = "ready" /\ rec[t] # 0 /\ ~exiting[t]
  BY DEF HPInv, CallInv, Plain, Ready
<1>2. dpc'[t] = "ready" /\ rec'[t] # 0 /\ ~exiting'[t]
  BY <1>1 DEF Plain, domainVars
<1> QED BY <1>2 DEF CallInv

\* The successor of head_ is in the list.
LEMMA SuccessorLive ==
  ASSUME IInv, next[head_] # Null
  PROVE  next[head_] \in Live /\ Len(chain) \in Nat /\ Len(chain) >= 2
<1>1. TypeOK /\ ListInv /\ Len(chain) \in Nat
  BY DEF IInv, TypeOK
<1>2. Len(chain) >= 2
  BY <1>1 DEF ListInv, Last
<1>3. 1 \in 1 .. Len(chain) - 1 /\ 2 \in 1 .. Len(chain)
  BY <1>1, <1>2
<1>4. next[head_] = chain[2]
  BY <1>1, <1>3 DEF ListInv
<1> QED BY <1>1, <1>2, <1>3, <1>4 DEF Live

\* The steps that keep slot 0's node, or drop it.
PlainStep(t) ==
  \/ EnqNext(t) \/ EnqCheck(t) \/ EnqHelp(t) \/ EnqLink(t) \/ EnqSwing(t)
  \/ DeqTail(t) \/ DeqNext(t) \/ DeqHelp(t) \/ DeqRead(t) \/ DeqSwing(t)

\* What they hold afterwards is named.
LEMMA PlainGuard ==
  ASSUME HPInv, NEW t \in Threads, Plain(t), PlainStep(t)
  PROVE  GuardInv(t)' /\ pc[t] # "idle"
<1> USE DEF At, Goto, EndIteration, HoldsTail, HasHead, HoldsNext
<1>0. TypeOK /\ GuardInv(t) /\ UNCHANGED domainVars
  BY DEF HPInv, IInv, Plain
<1>1. ASSUME NEW s, NEW m, Names(t, s, m) PROVE Names(t, s, m)'
  BY <1>0, <1>1, SameNames
<1>2. CASE EnqNext(t) \/ EnqCheck(t) \/ EnqHelp(t) \/ EnqLink(t) \/ EnqSwing(t)
  <2>1. /\ pc[t] \in HoldsTail
        /\ pc'[t] \in HoldsTail => tail'[t] = tail[t]
        /\ pc'[t] \notin HasHead \cup HoldsNext
    BY <1>0, <1>2 DEF EnqNext, EnqCheck, EnqHelp, EnqLink, EnqSwing, TypeOK
  <2>2. Names(t, 0, tail[t])
    BY <1>0, <2>1 DEF GuardInv
  <2> QED BY <1>1, <2>1, <2>2 DEF GuardInv
<1>3. CASE DeqTail(t) \/ DeqNext(t) \/ DeqHelp(t) \/ DeqRead(t) \/ DeqSwing(t)
  <2>1. /\ pc[t] \in HasHead
        /\ pc'[t] \in HasHead => head'[t] = head[t]
        /\ pc'[t] \in HoldsNext => pc[t] \in HoldsNext /\ nx'[t] = nx[t]
        /\ pc'[t] \notin HoldsTail
    BY <1>0, <1>3 DEF DeqTail, DeqNext, DeqHelp, DeqRead, DeqSwing, TypeOK
  <2>2. /\ Names(t, 0, head[t])
        /\ pc[t] \in HoldsNext => Names(t, 1, nx[t])
    BY <1>0, <2>1 DEF GuardInv
  <2> QED BY <1>1, <2>1, <2>2 DEF GuardInv
<1> QED BY <1>2, <1>3 DEF PlainStep

\* try_dequeue checks that head_ is unchanged after set: next is still in
\* the list, so it was not retired before slot 1 named it.
LEMMA CheckGuard ==
  ASSUME HPInv, NEW t \in Threads, Plain(t), DeqCheck(t), NextSet(t)
  PROVE  GuardInv(t)' /\ pc[t] # "idle"
<1> USE DEF DeqCheck, At, Goto, EndIteration, HoldsTail, HasHead, HoldsNext
<1>0. TypeOK /\ GuardInv(t) /\ IInv /\ UNCHANGED domainVars /\ pc[t] = "deqCheck"
      /\ DeqInv /\ CallInv(t) /\ dpc[t] = "ready"
  BY RunningAlive DEF HPInv, IInv, Plain, Ready
<1>1. ASSUME NEW s, NEW m, Names(t, s, m) PROVE Names(t, s, m)'
  BY <1>0, <1>1, SameNames
<1>2. CASE pc'[t] = "deqProtect"
  BY <1>0, <1>2 DEF GuardInv
<1>3. CASE pc'[t] # "deqProtect"
  <2>1. /\ head[t] = head_ /\ head' = head /\ nx' = nx
        /\ pc'[t] \in {"deqRead", "deqEmpty", "deqHelp"}
        /\ pc'[t] \in HoldsNext => tail[t] # head[t] \/ nx[t] # Null
    BY <1>0, <1>3 DEF TypeOK
  <2>2. Names(t, 0, head[t])
    BY <1>0 DEF GuardInv
  <2>3. pc'[t] \in HoldsNext => Names(t, 1, nx[t])
    <3> HAVE pc'[t] \in HoldsNext
    <3>1. nx[t] # Null /\ nx[t] = next[head_]
      BY <1>0, <2>1 DEF DeqInv, HasNext, HasTail
    <3>2. nx[t] \in Live
      BY <1>0, <3>1, SuccessorLive
    <3>3. rec[t] # 0 /\ slot[rec[t]][1] = nx[t]
      BY <1>0 DEF CallInv, NextSet
    <3> QED BY <3>2, <3>3, LiveSpared DEF Names
  <2> QED BY <1>1, <2>1, <2>2, <2>3 DEF GuardInv
<1> QED BY <1>0, <1>2, <1>3

\* A new node is linked: it moves from its enqueue to the list.
LEMMA LinkOwn ==
  ASSUME HPInv, NEW t \in Threads, EnqLink(t), D!Waiting' = D!Waiting
  PROVE  OwnInv'
<1> USE DEF EnqLink, At, Goto
<1>0. TypeOK /\ OwnInv /\ IInv /\ pc[t] = "enqLink" /\ alive /\ NodeInv
  BY RunningAlive DEF HPInv, IInv
<1>1. heap' = heap /\ alive' = alive /\ n' = n
  BY DEF dtorVars
<1>2. \A u \in Threads : /\ (pc'[u] = "deqRetire") <=> (pc[u] = "deqRetire")
                         /\ pc[u] = "deqRetire" => head'[u] = head[u]
  BY <1>0 DEF TypeOK, EndIteration
<1>3. CASE EndIteration(t, "enqProtect") /\ UNCHANGED <<next, chain>>
  <2>1. \A u \in Threads : (pc'[u] \in PreLink) <=> (pc[u] \in PreLink)
    BY <1>0, <1>3 DEF TypeOK, EndIteration, PreLink
  <2>2. Private' = Private /\ Live' = Live
    BY <1>1, <1>3, <2>1 DEF Private, Live
  <2>3. OwnersKeep
    BY <1>1, <1>2, <2>2 DEF OwnersKeep
  <2> QED BY <1>0, <2>3, OwnFrame
<1>4. CASE /\ chain' = Append(chain, n[t])
           /\ pc' = [pc EXCEPT ![t] = "enqSwing"]
  <2>1. n[t] \in Nodes /\ n[t] \in Private
    BY <1>0 DEF NodeInv, TypeOK, Private, PreLink
  <2>2. Live' = Live \cup {n[t]}
    BY <1>0, <1>4, <2>1, AppendChain DEF TypeOK
  <2>3. ASSUME NEW x PROVE x \in Private' <=> x \in Private /\ x # n[t]
    <3>1. x \in Private' <=> \E u \in Threads : pc'[u] \in PreLink /\ x = n[u]
      BY <1>1 DEF Private
    <3>2. x \in Private <=> \E u \in Threads : pc[u] \in PreLink /\ x = n[u]
      BY DEF Private
    <3>3. \A u \in Threads : pc'[u] \in PreLink <=> pc[u] \in PreLink /\ u # t
      BY <1>0, <1>4 DEF TypeOK, PreLink
    <3>4. pc[t] \in PreLink
      BY <1>0 DEF PreLink
    <3>5. \A u \in Threads : pc[u] \in PreLink /\ n[u] = n[t] => u = t
      BY <1>0, <3>4 DEF NodeInv
    <3> QED BY <3>1, <3>2, <3>3, <3>5
  <2>4. Unlinked' = Unlinked
    BY <1>2 DEF Unlinked
  <2>5. /\ D!Waiting' \subseteq heap' /\ D!Waiting' \cap Live' = {}
        /\ D!Waiting' \cap Private' = {}
        /\ heap' \subseteq Live' \cup Private' \cup Unlinked' \cup D!Waiting'
    BY <1>0, <1>1, <2>1, <2>2, <2>3, <2>4 DEF OwnInv
  <2>6. ASSUME NEW x \in Threads, pc'[x] = "deqRetire"
        PROVE  /\ head'[x] \in heap'
               /\ head'[x] \notin D!Waiting' \cup Live' \cup Private'
               /\ \A u \in Threads :
                    pc'[u] = "deqRetire" /\ head'[u] = head'[x] => u = x
    BY <1>0, <1>1, <1>2, <2>1, <2>2, <2>3, <2>6 DEF OwnInv
  <2> QED BY <2>5, <2>6 DEF OwnInv
<1> QED BY <1>3, <1>4

\* A node is unlinked: it moves from the list to its dequeue.
LEMMA SwingOwn ==
  ASSUME HPInv, NEW t \in Threads, DeqSwing(t), D!Waiting' = D!Waiting
  PROVE  OwnInv'
<1> USE DEF DeqSwing, At, Goto
<1>0. /\ TypeOK /\ ListInv /\ OwnInv /\ IInv /\ pc[t] = "deqSwing" /\ alive
      /\ NodeInv /\ DeqInv
  BY RunningAlive DEF HPInv, IInv
<1>1. heap' = heap /\ alive' = alive /\ n' = n
  BY DEF dtorVars
<1>2. /\ \A u \in Threads : (pc'[u] \in PreLink) <=> (pc[u] \in PreLink)
      /\ \A u \in Threads : pc[u] = "deqRetire" =>
                              pc'[u] = "deqRetire" /\ head'[u] = head[u]
      /\ \A u \in Threads : pc'[u] = "deqRetire" /\ u # t => pc[u] = "deqRetire"
  BY <1>0 DEF TypeOK, PreLink, EndIteration
<1>3. Private' = Private
  BY <1>1, <1>2 DEF Private
<1>4. CASE EndIteration(t, "deqProtect") /\ UNCHANGED <<head_, chain>>
  <2>1. Live' = Live /\ pc'[t] # "deqRetire"
    BY <1>0, <1>4 DEF Live, EndIteration, TypeOK
  <2>2. OwnersKeep
    BY <1>0, <1>1, <1>2, <1>3, <2>1 DEF OwnersKeep
  <2> QED BY <1>0, <2>2, OwnFrame
<1>5. CASE /\ AtFront(t) /\ chain' = Tail(chain)
           /\ pc' = [pc EXCEPT ![t] = "deqRetire"] /\ head' = head
  <2>1. head[t] = head_ /\ pc'[t] = "deqRetire" /\ next[head_] # Null
    BY <1>0, <1>5 DEF AtFront, TypeOK, DeqInv, HasNext, HasTail, HasHead
  <2>2. Len(chain) \in Nat /\ Len(chain) >= 2
    BY <1>0, <2>1, SuccessorLive
  <2>3. Live' = {chain[i] : i \in 2 .. Len(chain)}
    BY <1>0, <1>5, <2>2, TailChain DEF TypeOK
  <2>4. head_ \in Live /\ Live' = Live \ {head_}
    <3>1. head_ = chain[1] /\ 1 \in 1 .. Len(chain)
      BY <1>0, <2>2 DEF ListInv
    <3>2. \A i \in 2 .. Len(chain) : i \in 1 .. Len(chain) /\ chain[i] # head_
      BY <1>0, <2>2, <3>1 DEF ListInv
    <3>3. \A i \in 1 .. Len(chain) : i # 1 => i \in 2 .. Len(chain)
      BY <2>2
    <3>4. ASSUME NEW x PROVE x \in Live' <=> x \in Live /\ x # head_
      BY <2>3, <3>1, <3>2, <3>3 DEF Live
    <3> QED BY <3>1, <3>4, EndsLive, <1>0
  <2>5. head[t] \in heap \ (D!Waiting \cup Private)
    <3>1. Live \subseteq Shared
      BY <1>0, LiveShared
    <3> QED BY <1>0, <2>1, <2>4, <3>1 DEF OwnInv, Shared
  <2>6. Unlinked \cup {head_} \subseteq Unlinked'
    BY <1>2, <1>5, <2>1 DEF Unlinked
  <2>7. /\ D!Waiting' \subseteq heap' /\ D!Waiting' \cap Live' = {}
        /\ D!Waiting' \cap Private' = {}
        /\ heap' \subseteq Live' \cup Private' \cup Unlinked' \cup D!Waiting'
    BY <1>0, <1>1, <1>3, <2>4, <2>6 DEF OwnInv
  <2>8. \A u \in Threads : pc[u] = "deqRetire" => head[u] # head[t]
    BY <1>0, <2>1, <2>4 DEF OwnInv
  <2>9. ASSUME NEW x \in Threads, pc'[x] = "deqRetire"
        PROVE  /\ head'[x] \in heap'
               /\ head'[x] \notin D!Waiting' \cup Live' \cup Private'
               /\ \A u \in Threads :
                    pc'[u] = "deqRetire" /\ head'[u] = head'[x] => u = x
    <3>1. CASE x = t
      BY <1>1, <1>2, <1>3, <1>5, <2>1, <2>4, <2>5, <2>8, <3>1
    <3>2. CASE x # t
      BY <1>0, <1>1, <1>2, <1>3, <1>5, <2>4, <2>8, <2>9, <3>2 DEF OwnInv
    <3> QED BY <3>1, <3>2
  <2> QED BY <2>7, <2>9 DEF OwnInv
<1> QED BY <1>4, <1>5

\* All these steps together.
LEMMA PlainRest ==
  ASSUME HPInv, NEW t \in Threads, Plain(t),
         PlainStep(t) \/ (DeqCheck(t) /\ NextSet(t))
  PROVE  RestInv' /\ DomainMove(t)
<1>0. /\ TypeOK /\ OwnInv /\ UNCHANGED domainVars /\ D!CoreInv /\ D!BagsInv
  BY DEF HPInv, IInv, Plain
<1>1. D!BagsInv' /\ D!Waiting' = D!Waiting
  BY <1>0, DomainSame
<1>2. GuardInv(t)' /\ CallInv(t)'
  BY PlainGuard, CheckGuard, PlainCalls
<1>3. StillStep(t) \/ EnqLink(t) \/ DeqSwing(t)
  BY DEF PlainStep, StillStep
<1>4. OwnInv'
  BY <1>0, <1>1, <1>3, LinkOwn, SwingOwn, StillKeeps, OwnFrame
<1>5. \A u \in Threads \ {t} : LocalsKeep(u)
  BY <1>0, <1>3, QueueLocals
<1> QED BY <1>0, <1>1, <1>2, <1>4, <1>5, RestFrom DEF DomainMove

-----------------------------------------------------------------------------
(* A node is deleted.                                                      *)

\* The nodes thread u's operation holds are not the one that is freed.
LEMMA HeldStay ==
  ASSUME HPInv, NEW t \in Threads, NEW m \in Nodes, D!ScanFree(t, m),
         NEW u \in Threads
  PROVE  /\ pc[u] \in HoldsTail => tail[u] # m
         /\ pc[u] \in HasHead => head[u] # m
         /\ pc[u] \in HoldsNext => nx[u] # m
<1>1. GuardInv(u)
  BY DEF HPInv
<1>2. ASSUME NEW s, Names(u, s, m) PROVE FALSE
  <2>1. D!Spares(t, rec[u], s, m)
    BY <1>2 DEF Names
  <2> QED BY <2>1, D!SparedNotFreed, Assumed
<1> QED BY <1>1, <1>2 DEF GuardInv

\* The queue's own invariant does not notice.
LEMMA DeleteQueue ==
  ASSUME HPInv, NEW t \in Threads, NEW m \in Nodes, D!ScanFree(t, m),
         heap' = heap \ {m},
         UNCHANGED <<head_, tail_, next, value, dtorVars, localVars, chain>>
  PROVE  IInv'
<1> USE DEF dtorVars, localVars
<1>0. TypeOK /\ ListInv /\ LagInv /\ IInv /\ OwnInv
  BY DEF HPInv, IInv
<1>1. m \in D!Waiting
  BY D!FreeBags, Assumed DEF HPInv, D!CoreInv
<1>2. m \notin Live /\ (alive => m \notin Private)
  BY <1>0, <1>1 DEF OwnInv
<1>3. Live' = Live /\ Private' = Private /\ Last' = Last /\ Shared' = Shared \ {m}
  BY DEF Live, Private, Last, Shared
<1>4. TypeOK' /\ LagInv'
  BY <1>0, <1>3 DEF TypeOK, LagInv
<1>5. ListInv'
  BY <1>0, <1>2, <1>3 DEF ListInv
<1>6. ASSUME alive PROVE NodeInv' /\ EnqInv' /\ DeqInv'
  <2>1. NodeInv /\ EnqInv /\ DeqInv
    BY <1>0, <1>6 DEF IInv
  <2>2. \A u \in Threads : pc[u] \in PreLink => n[u] # m
    BY <1>2, <1>6 DEF Private
  <2>3. NodeInv'
    BY <1>3, <2>1, <2>2 DEF NodeInv
  <2>4. \A u \in Threads : /\ pc[u] \in HoldsTail => tail[u] # m
                           /\ pc[u] \in HasHead => head[u] # m
                           /\ pc[u] \in HoldsNext => nx[u] # m
    BY HeldStay
  <2>5. EnqInv'
    BY <1>3, <2>1, <2>4 DEF EnqInv, PreLink, HoldsTail
  <2>6. DeqInv'
    BY <1>3, <2>1, <2>4 DEF DeqInv, HoldsNext
  <2> QED BY <2>3, <2>5, <2>6
<1>7. ASSUME ~alive PROVE Quiesced' /\ CursorInv'
  <2>1. Quiesced /\ CursorInv /\ Live \cap heap' = Live \cap heap
    BY <1>0, <1>2, <1>7 DEF IInv
  <2> QED BY <1>3, <2>1 DEF Quiesced, At, CursorInv
<1> QED BY <1>4, <1>5, <1>6, <1>7 DEF IInv

\* deleter(m) keeps the whole invariant.
LEMMA DeleteKeeps ==
  ASSUME HPInv, NEW t \in Threads, Delete(t)
  PROVE  HPInv'
<1> USE DEF D!DAt, D!sharedVars, dtorVars, localVars
<1>0. PICK m \in Nodes :
        /\ HP!ScanFree(t, m) /\ heap' = heap \ {m}
        /\ UNCHANGED <<head_, tail_, next, value, dtorVars, localVars, chain>>
  BY DEF Delete
<1>1. /\ D!ScanFree(t, m) /\ OwnInv /\ CallInv(t) /\ D!DomainTypeOK
  BY <1>0, SameOps DEF HPInv, D!CoreInv
<1>2. IInv'
  BY <1>0, <1>1, DeleteQueue
<1>3. D!BagsInv' /\ D!Waiting' = D!Waiting \ {m} /\ m \in D!Waiting
  BY <1>1, D!FreeBags, Assumed DEF HPInv, D!CoreInv
<1>4. D!DomainOp(t) /\ dpc[t] = "free"
  BY <1>1 DEF D!DomainOp, D!BagOp, D!ScanFree
<1>5. \A u \in Threads : LocalsKeep(u)
  BY <1>0 DEF LocalsKeep
<1>6. CallInv(t)' /\ GuardInv(t)'
  <2>1. dpc' = dpc /\ rec' = rec /\ exiting' = exiting
    BY <1>1 DEF D!ScanFree
  <2>2. CallInv(t)'
    BY <1>1, <1>4, <1>5, <2>1 DEF CallInv, LocalsKeep
  <2> QED BY <1>1, <1>4, <1>5, <2>2, InsideHoldsNothing DEF GuardInv, LocalsKeep
<1>7. OwnInv'
  <2>1. Live' = Live /\ Private' = Private /\ Unlinked' = Unlinked
    BY <1>0 DEF Live, Private, Unlinked
  <2>2. /\ D!Waiting' \subseteq heap' /\ D!Waiting' \cap Live' = {}
        /\ alive => D!Waiting' \cap Private' = {}
        /\ alive => heap' \subseteq Live' \cup Private' \cup Unlinked' \cup D!Waiting'
    BY <1>0, <1>1, <1>3, <2>1 DEF OwnInv
  <2>3. ASSUME alive, NEW x \in Threads, pc[x] = "deqRetire"
        PROVE  /\ head[x] \in heap'
               /\ head[x] \notin D!Waiting' \cup Live' \cup Private'
               /\ \A u \in Threads :
                    pc[u] = "deqRetire" /\ head[u] = head[x] => u = x
    BY <1>0, <1>1, <1>3, <2>1, <2>3 DEF OwnInv
  <2> QED BY <1>0, <2>2, <2>3 DEF OwnInv
<1>8. RestInv'
  BY <1>3, <1>4, <1>5, <1>6, <1>7, RestFrom DEF DomainMove
<1> QED BY <1>2, <1>8 DEF HPInv, RestInv

-----------------------------------------------------------------------------
(* The destructor.                                                         *)

\* Calls and guards when neither they nor the domain move.
LEMMA AllStay ==
  ASSUME HPInv, UNCHANGED domainVars, \A u \in Threads : LocalsKeep(u)
  PROVE  \A u \in Threads : CallInv(u)' /\ GuardInv(u)'
<1> SUFFICES ASSUME NEW u \in Threads PROVE CallInv(u)' /\ GuardInv(u)'
  OBVIOUS
<1>1. CallInv(u)'
  BY DEF HPInv, CallInv, LocalsKeep, domainVars
<1>2. rec'[u] = rec[u] /\ (rec[u] # 0 => slot'[rec[u]] = slot[rec[u]])
  BY DEF domainVars
<1> QED BY <1>1, <1>2, GuardKeeps DEF DomainMove

\* The nodes that wait for a scan survive the queue.
LEMMA DtorRest ==
  ASSUME HPInv, DtorStart \/ DtorStep, UNCHANGED domainVars
  PROVE  RestInv'
<1> USE DEF DtorStart, DtorStep, queueVars, localVars
<1>0. IInv /\ OwnInv /\ D!CoreInv' /\ D!BagsInv' /\ D!Waiting' = D!Waiting
  BY DomainSame DEF HPInv
<1>1. \A u \in Threads : LocalsKeep(u)
  BY DEF LocalsKeep
<1>2. ~alive' /\ Live' = Live
  BY DEF Live
<1>3. D!Waiting \subseteq heap'
  <2>1. CASE DtorStart
    BY <1>0, <2>1 DEF OwnInv
  <2>2. CASE DtorStep
    <3>1. p \in Live
      BY <1>0, <2>2 DEF IInv, CursorInv, Live
    <3> QED BY <1>0, <2>2, <3>1 DEF OwnInv
  <2> QED BY <2>1, <2>2
<1>4. OwnInv'
  BY <1>0, <1>2, <1>3 DEF OwnInv
<1> QED BY <1>0, <1>1, <1>4, AllStay DEF RestInv

-----------------------------------------------------------------------------
(* The invariant.                                                          *)

\* A step is one of the queue's own, perhaps none, or deletes a node.
LEMMA StepKinds ==
  ASSUME HPNext
  PROVE  [Next]_vars \/ \E t \in Threads : Delete(t)
<1>1. ASSUME NEW t \in Threads, HPEnq(t)
      PROVE  \/ UNCHANGED vars \/ EnqStep(t) \/ \E v \in Values : EnqCall(t, v)
  BY <1>1 DEF HPEnq, ProtectFrom, EnqStep
<1>2. ASSUME NEW t \in Threads, HPDeq(t)
      PROVE  UNCHANGED vars \/ DeqCall(t) \/ DeqStep(t)
  BY <1>2 DEF HPDeq, ProtectFrom, DeqStep
<1>3. ASSUME NEW t \in Threads, Outside(t) PROVE UNCHANGED vars
  BY <1>3 DEF Outside
<1> QED BY <1>1, <1>2, <1>3 DEF HPNext, HPThread, HPDtor, Next

\* The steps of enqueue, its calls into the domain included.
LEMMA EnqKeeps ==
  ASSUME HPInv, NEW t \in Threads, HPEnq(t)
  PROVE  RestInv' /\ DomainMove(t)
<1>1. tail_ \in Nodes
  BY DEF HPInv, IInv, TypeOK
<1>2. At(t, "enqProtect") => pc[t] \in {"enqProtect", "deqProtect"}
  BY DEF At
<1> QED BY <1>1, <1>2, EnqCallRest, ProtectRest, EnqProtectRest, PlainRest,
          ReturnRest DEF HPEnq, PlainStep

\* The steps of try_dequeue, its calls into the domain included.
LEMMA DeqKeeps ==
  ASSUME HPInv, NEW t \in Threads, HPDeq(t)
  PROVE  RestInv' /\ DomainMove(t)
<1>1. head_ \in Nodes
  BY DEF HPInv, IInv, TypeOK
<1>2. /\ At(t, "deqProtect") => pc[t] \in {"enqProtect", "deqProtect"}
      /\ At(t, "deqCheck") => pc[t] = "deqCheck"
  BY DEF At
<1> QED BY <1>1, <1>2, DeqCallRest, ProtectRest, DeqProtectRest, SetRest,
          PlainRest, RetireRest, ReturnRest DEF HPDeq, PlainStep

\* Every step keeps the invariant.
LEMMA HPNextInv == HPInv /\ [HPNext]_hpVars => HPInv'
<1> SUFFICES ASSUME HPInv, [HPNext]_hpVars PROVE HPInv'
  OBVIOUS
<1>0. IInv
  BY DEF HPInv
<1>1. CASE UNCHANGED hpVars
  <2>1. UNCHANGED vars /\ UNCHANGED domainVars
    BY <1>1 DEF hpVars
  <2>2. IInv'
    BY <1>0, <2>1, NextInv
  <2>3. OwnersKeep /\ \A u \in Threads : LocalsKeep(u)
    BY <2>1, SameKeeps
  <2>4. D!CoreInv' /\ D!BagsInv' /\ OwnInv'
    BY <2>1, <2>3, DomainSame, OwnFrame DEF HPInv
  <2> QED BY <2>1, <2>2, <2>3, <2>4, AllStay DEF HPInv
<1>2. CASE \E t \in Threads : Delete(t)
  BY <1>2, DeleteKeeps
<1>3. CASE HPNext /\ ~\E t \in Threads : Delete(t)
  <2>1. IInv'
    BY <1>0, <1>3, StepKinds, NextInv
  <2>2. RestInv'
    BY <1>3, EnqKeeps, DeqKeeps, OutsideRest, InsideRest, DtorRest
    DEF HPNext, HPThread, HPDtor
  <2> QED BY <2>1, <2>2 DEF HPInv, RestInv
<1> QED BY <1>1, <1>2, <1>3

\* It holds when the queue was constructed and nobody used the domain.
LEMMA HPInitInv == HPInit => HPInv
<1> SUFFICES ASSUME HPInit PROVE HPInv
  OBVIOUS
<1>1. IInv /\ Init
  BY InitInv DEF HPInit
<1>2. D!DomainInit
  BY DEF HPInit, HP!DomainInit, D!DomainInit, HP!Records, D!Records, HP!Slots,
    D!Slots
<1>3. D!CoreInv /\ D!BagsInv
  BY <1>2, D!CoreInit, Assumed
<1>4. \A t \in Threads : CallInv(t) /\ GuardInv(t)
  BY <1>1, <1>2 DEF Init, D!DomainInit, CallInv, GuardInv, HoldsTail, HasHead,
    HoldsNext
<1>5. OwnInv
  <2>1. D!Waiting = {}
    BY <1>2 DEF D!Waiting, D!DomainInit
  <2>2. \A t \in Threads : pc[t] # "deqRetire"
    BY <1>1 DEF Init
  <2>3. heap \subseteq Live
    BY <1>1 DEF Init, Live
  <2> QED BY <2>1, <2>2, <2>3 DEF OwnInv
<1> QED BY <1>1, <1>3, <1>4, <1>5 DEF HPInv

\* The combined invariant holds in every reachable state of ms_queue over
\* hp_reclaimer.
THEOREM HPInvariance == HPSpec => []HPInv
BY HPInitInv, HPNextInv, PTL DEF HPSpec


\* The variables of ms_queue and of the domain under it keep their types.
THEOREM HPTypeCorrect == HPSpec => []HPTypeOK
<1>1. ASSUME HPInv PROVE HPTypeOK
  <2>1. TypeOK /\ D!DomainTypeOK
    BY <1>1 DEF HPInv, IInv, D!CoreInv
  <2>2. HP!DomainTypeOK
    BY <2>1 DEF HP!DomainTypeOK, D!DomainTypeOK, HP!Records, D!Records,
      HP!Slots, D!Slots, HP!DomainLabels, D!DomainLabels
  <2> QED BY <2>1, <2>2 DEF HPTypeOK
<1> QED BY <1>1, HPInvariance, PTL

\* Over hp_reclaimer as over leaky_reclaimer, the list is well formed, no
\* null or unallocated pointer is dereferenced, a quiesced tail_ is exact and
\* the destructor deletes what is left exactly once.
THEOREM StillCorrectHP == HPSpec => []StillCorrect
<1>1. ASSUME HPInv PROVE StillCorrect
  <2>1. IInv /\ ListInv
    BY <1>1 DEF HPInv, IInv
  <2>2. DerefSafe
    BY <2>1, DerefFrom
  <2>3. QuiescedTail
    BY <2>1, QuiescedFrom
  <2>4. DtorInv
    BY <2>1, DtorFrom
  <2> QED BY <2>1, <2>2, <2>3, <2>4 DEF StillCorrect
<1> QED BY <1>1, HPInvariance, PTL

\* What an operation uses, by its label.
LEMMA InUseIs ==
  ASSUME NEW t \in Threads
  PROVE  /\ pc[t] \in HoldsTail => InUse(t) = {tail[t]}
         /\ pc[t] \in HoldsNext => InUse(t) = {head[t], nx[t]}
         /\ pc[t] \in HasHead \ HoldsNext => InUse(t) = {head[t]}
         /\ pc[t] \notin HoldsTail \cup HasHead => InUse(t) = {}
BY DEF InUse, HoldsTail, HasHead, HoldsNext

\* Every node that enqueue and try_dequeue are about to use is allocated.
THEOREM UseAllocatedHP == HPSpec => []UseAllocated
<1>1. ASSUME HPInv PROVE UseAllocated
  <2> SUFFICES ASSUME NEW t \in Threads
               PROVE  InUse(t) \subseteq heap
    BY DEF UseAllocated
  <2>1. CASE pc[t] = "idle"
    BY <2>1, InUseIs DEF HoldsTail, HasHead
  <2>2. CASE pc[t] # "idle"
    <3>1. EnqInv /\ DeqInv
      BY <1>1, <2>2, RunningAlive DEF HPInv
    <3>2. /\ pc[t] \in HoldsTail => tail[t] \in heap
          /\ pc[t] \in HasHead => head[t] \in heap
          /\ pc[t] \in HoldsNext => nx[t] \in heap
      BY <3>1 DEF EnqInv, DeqInv, Shared, PreLink, HoldsTail, HasHead, HoldsNext
    <3>3. HoldsNext \subseteq HasHead
      BY DEF HoldsNext, HasHead
    <3> QED BY <3>2, <3>3, InUseIs
  <2> QED BY <2>1, <2>2
<1> QED BY <1>1, HPInvariance, PTL

\* No node is lost and none has two owners: each allocated node is in the
\* list, with the enqueue that made it, with the dequeue that unlinked it, in
\* one retire bag or on the orphan stack.
THEOREM NodesAccountedHP == HPSpec => []NodesAccounted
<1>1. ASSUME HPInv PROVE NodesAccounted
  <2> DEFINE Bagged == UNION {bag[t] : t \in Threads}
             Parts  == <<Live, Private, Unlinked, Bagged, orphans>>
  <2>0. OwnInv /\ D!BagsInv /\ IInv
    BY <1>1 DEF HPInv
  <2>1. \A x : /\ x \in Bagged <=> \E t \in Threads : x \in bag[t]
               /\ x \in D!Waiting <=> x \in orphans \/ x \in Bagged
    BY DEF D!Waiting
  <2>2. Bagged \cap orphans = {}
    BY <2>0, <2>1 DEF D!BagsInv
  <2>3. \A t, u \in Threads : t # u => bag[t] \cap bag[u] = {}
    BY <2>0 DEF D!BagsInv
  <2>4. ASSUME alive
        PROVE  /\ heap = Live \cup Private \cup Unlinked \cup Bagged \cup orphans
               /\ Live \cap Private = {} /\ Live \cap Unlinked = {}
               /\ Live \cap Bagged = {} /\ Live \cap orphans = {}
               /\ Private \cap Unlinked = {} /\ Private \cap Bagged = {}
               /\ Private \cap orphans = {} /\ Unlinked \cap Bagged = {}
               /\ Unlinked \cap orphans = {}
    <3>1. NodeInv /\ Live \subseteq heap
      BY <2>0, <2>4 DEF IInv, ListInv
    <3>2. Private \subseteq heap /\ Live \cap Private = {}
      BY <3>1 DEF NodeInv, Private
    <3>3. /\ Unlinked \subseteq heap /\ Unlinked \cap Live = {}
          /\ Unlinked \cap D!Waiting = {} /\ Unlinked \cap Private = {}
      BY <2>0, <2>4 DEF OwnInv, Unlinked
    <3>4. /\ D!Waiting \subseteq heap /\ D!Waiting \cap Live = {}
          /\ D!Waiting \cap Private = {}
          /\ heap \subseteq Live \cup Private \cup Unlinked \cup D!Waiting
      BY <2>0, <2>4 DEF OwnInv
    <3> HIDE DEF Bagged
    <3> QED BY <2>1, <3>1, <3>2, <3>3, <3>4
  <2>5. UNION {Parts[i] : i \in 1 .. 5}
          = Live \cup Private \cup Unlinked \cup Bagged \cup orphans
    <3>1. {Parts[i] : i \in 1 .. 5} = {Live, Private, Unlinked, Bagged, orphans}
      <4> HIDE DEF Bagged
      <4>1. \A i \in 1 .. 5 : i = 1 \/ i = 2 \/ i = 3 \/ i = 4 \/ i = 5
        OBVIOUS
      <4>2. /\ Parts[1] = Live /\ Parts[2] = Private /\ Parts[3] = Unlinked
            /\ Parts[4] = Bagged /\ Parts[5] = orphans
        OBVIOUS
      <4> HIDE DEF Parts
      <4> QED BY <4>1, <4>2
    <3> HIDE DEF Bagged, Parts
    <3> QED BY <3>1
  <2>6. ASSUME alive, NEW i \in 1 .. 5, NEW j \in 1 .. 5, i # j
        PROVE  Parts[i] \cap Parts[j] = {}
    <3>1. /\ i = 1 \/ i = 2 \/ i = 3 \/ i = 4 \/ i = 5
          /\ j = 1 \/ j = 2 \/ j = 3 \/ j = 4 \/ j = 5
      OBVIOUS
    <3> HIDE DEF Bagged
    <3>2. /\ Parts[1] = Live /\ Parts[2] = Private /\ Parts[3] = Unlinked
          /\ Parts[4] = Bagged /\ Parts[5] = orphans
      OBVIOUS
    <3> HIDE DEF Parts
    <3> QED BY <2>2, <2>4, <2>6, <3>1, <3>2
  <2> QED BY <2>3, <2>4, <2>5, <2>6 DEF NodesAccounted, Private, Unlinked
<1> QED BY <1>1, HPInvariance, PTL

\* No node is deleted while an operation holds it or will compare with its
\* address: the guard's slots outlive every scan that could free it.
THEOREM FreedUnusedHP == HPSpec => FreedUnused
<1>1. ASSUME HPInv, [HPNext]_hpVars
      PROVE  [\A t \in Threads : InUse(t) \cap (heap \ heap') = {}]_hpVars
  <2> SUFFICES ASSUME HPNext, NEW t \in Threads, NEW m \in InUse(t),
                      m \in heap, m \notin heap'
               PROVE  FALSE
    BY <1>1
  <2>0. TypeOK /\ IInv
    BY <1>1 DEF HPInv, IInv
  <2>1. ASSUME NEW u \in Threads, Delete(u) PROVE FALSE
    <3>1. PICK d \in Nodes : HP!ScanFree(u, d) /\ heap' = heap \ {d}
      BY <2>1 DEF Delete
    <3>2. D!ScanFree(u, d) /\ d = m
      BY <3>1, SameOps
    <3>3. /\ pc[t] \in HoldsTail => tail[t] # d
          /\ pc[t] \in HasHead => head[t] # d
          /\ pc[t] \in HoldsNext => nx[t] # d
      BY <1>1, <3>2, HeldStay
    <3>4. HoldsNext \subseteq HasHead
      BY DEF HoldsNext, HasHead
    <3> QED BY <3>2, <3>3, <3>4, InUseIs
  <2>2. CASE DtorStep
    <3>1. pc[t] = "idle"
      BY <2>0, <2>2 DEF DtorStep, IInv, Quiesced, At
    <3> QED BY <3>1, InUseIs DEF HoldsTail, HasHead
  <2>3. CASE [Next]_vars /\ ~DtorStep
    <3>1. heap \subseteq heap'
      <4>1. ASSUME NEW u \in Threads, EnqStep(u) PROVE heap' = heap
        BY <4>1 DEF EnqStep, EnqProtect, EnqNext, EnqCheck, EnqHelp, EnqLink,
          EnqSwing, EnqReturn, queueVars
      <4>2. ASSUME NEW u \in Threads, DeqCall(u) \/ DeqStep(u) PROVE heap' = heap
        BY <4>2 DEF DeqCall, DeqStep, DeqProtect, DeqTail, DeqNext, DeqCheck,
          DeqHelp, DeqRead, DeqSwing, DeqRetire, DeqReturn, queueVars
      <4>3. ASSUME NEW u \in Threads, NEW v \in Values, EnqCall(u, v)
            PROVE  heap \subseteq heap'
        BY <4>3 DEF EnqCall
      <4>4. DtorStart \/ UNCHANGED vars => heap' = heap
        BY DEF DtorStart, queueVars, vars
      <4> QED BY <2>3, <4>1, <4>2, <4>3, <4>4 DEF Next
    <3> QED BY <3>1
  <2> QED BY <2>1, <2>2, <2>3, StepKinds
<1> QED BY <1>1, HPInvariance, PTL DEF HPSpec, FreedUnused

\* The queue over hp_reclaimer implements the atomic FIFO queue: with nodes
\* freed and their addresses allocated again, it is still linearizable.
THEOREM HPRefinement == HPSpec => Linearizable
<1>1. HPInit => Abstract!Init
  BY InitRefines DEF HPInit
<1>2. ASSUME HPInv, [HPNext]_hpVars
      PROVE  [Abstract!Next]_(Abstract!fifoVars)
  <2>1. CASE [Next]_vars
    BY <1>2, <2>1, NextRefines DEF HPInv
  <2>2. ASSUME NEW t \in Threads, Delete(t)
        PROVE  [Abstract!Next]_(Abstract!fifoVars)
    <3>1. UNCHANGED <<next, value, head_, pc, n, head, tail, nx, val, chain>>
      BY <2>2 DEF Delete, localVars
    <3>2. UNCHANGED <<QueueOf, PendMap>>
      BY <3>1 DEF QueueOf, PendMap, PendOf
    <3> QED BY <3>2 DEF Abstract!fifoVars, PendMap
  <2>3. CASE UNCHANGED hpVars
    <3>1. [Next]_vars
      BY <2>3 DEF hpVars
    <3> QED BY <2>1, <3>1
  <2> QED BY <1>2, <2>1, <2>2, <2>3, StepKinds
<1> QED BY <1>1, <1>2, HPInvariance, PTL DEF HPSpec, Linearizable, Abstract!Spec
=============================================================================

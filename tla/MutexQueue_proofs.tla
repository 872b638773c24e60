-------------------------- MODULE MutexQueue_proofs --------------------------
(***************************************************************************)
(* Machine-checked proofs about MutexQueue, for any number of threads and  *)
(* values and any capacity: the mutex is held exactly inside an operation, *)
(* the moved-from front element is never seen, and the queue implements    *)
(* FIFO, the specification the lock-free queue implements too.             *)
(***************************************************************************)
EXTENDS MutexQueue, SequenceTheorems, TLAPS

(* What a thread carries: a value while it pushes and after it took one;   *)
(* between front() and pop() the first element is the moved-from one.      *)
CarryInv ==
  \A t \in Threads :
    /\ pc[t] \in {"lockEnq", "push", "pop", "unlockDeq"} => val[t] \in Values
    /\ pc[t] = "pop" => queue_ # <<>> /\ queue_[1] = Moved

(* MutualExclusion needs the carried values to be inductive, and the other *)
(* way round.                                                              *)
IInv == TypeOK /\ MutualExclusion /\ CarryInv

-----------------------------------------------------------------------------
(* The invariant.                                                          *)

\* The constructed queue.
LEMMA InitInv == Init => IInv
BY ConstAssumption DEF Init, IInv, TypeOK, MutualExclusion, CarryInv, Labels, InLock

\* A sequence is a sequence over any set that has its elements.
LEMMA SeqOver ==
  ASSUME NEW S, NEW T, NEW q \in Seq(S), \A i \in 1 .. Len(q) : q[i] \in T
  PROVE  q \in Seq(T)
<1>1. Len(q) \in Nat /\ q \in [1 .. Len(q) -> T]
  BY LenProperties
<1> QED BY <1>1, SeqDef

\* While a thread that is not between front() and pop() has the mutex, every
\* element of the queue is a value.
LEMMA NoneMoved ==
  ASSUME IInv, \A t \in Threads : pc[t] # "pop"
  PROVE  queue_ \in Seq(Values) /\ \A i \in 1 .. Len(queue_) : queue_[i] # Moved
<1>1. queue_ \in Seq(Values \cup {Moved})
  BY DEF IInv, TypeOK
<1>2. \A i \in 1 .. Len(queue_) : queue_[i] # Moved /\ queue_[i] \in Values
  <2>1. \A i \in 1 .. Len(queue_) : queue_[i] # Moved
    BY DEF IInv, MutualExclusion
  <2>2. \A i \in 1 .. Len(queue_) : queue_[i] \in Values \cup {Moved}
    BY <1>1, ElementOfSeq
  <2> QED BY <2>1, <2>2
<1> QED BY <1>1, <1>2, SeqOver

\* The owner of the mutex is the only thread inside an operation.
LEMMA Alone ==
  ASSUME IInv, NEW t \in Threads, pc[t] \in InLock
  PROVE  \A u \in Threads : pc[u] \in InLock => u = t
BY DEF IInv, MutualExclusion

\* Steps that leave the queue alone: calls, lock, unlock and empty's read.
LEMMA ControlKeeps ==
  ASSUME IInv, NEW t \in Threads,
         \/ \E v \in Values : EnqCall(t, v)
         \/ \E l \in {"lockDeq", "lockRead"} : Call(t, l)
         \/ Lock(t, "lockEnq", "push") \/ Lock(t, "lockDeq", "front")
         \/ Lock(t, "lockRead", "read") \/ EmptyRead(t)
         \/ \E l \in {"unlockEnq", "unlockEmpty", "unlockDeq", "unlockRead"} :
              Unlock(t, l)
  PROVE  IInv'
<1> USE DEF IInv, EnqCall, Call, Lock, Available, Unlock, Unlocked, EmptyRead, Step
<1>1. TypeOK'
  BY ConstAssumption DEF TypeOK, Labels, InLock
<1>2. \A u \in Threads : pc'[u] \in InLock <=> mutex_' = u
  BY ConstAssumption DEF TypeOK, MutualExclusion, InLock
<1>3. \A u \in Threads : pc'[u] = "pop" <=> pc[u] = "pop"
  BY DEF TypeOK
<1>4. MutualExclusion'
  BY <1>2, <1>3 DEF MutualExclusion
<1>5. CarryInv'
  BY <1>3 DEF TypeOK, CarryInv
<1> QED BY <1>1, <1>4, <1>5

\* push under the mutex.
LEMMA PushKeeps ==
  ASSUME IInv, NEW t \in Threads, EnqPush(t)
  PROVE  IInv'
<1> USE DEF EnqPush, AtBack, Step
<1>1. \A u \in Threads : pc[u] # "pop" /\ pc'[u] # "pop"
  BY Alone DEF InLock, IInv, TypeOK
<1>2. queue_ \in Seq(Values) /\ val[t] \in Values
  BY <1>1, NoneMoved DEF IInv, CarryInv
<1>3. /\ queue_' \in Seq(Values) 
      /\ \A i \in 1 .. Len(queue_') : queue_'[i] \in Values
  BY <1>2
<1>4. TypeOK'
  <2>1. queue_' \in Seq(Values \cup {Moved})
    BY <1>2
  <2> QED BY <2>1 DEF IInv, TypeOK, Labels, InLock
<1>5. \A u \in Threads : pc'[u] \in InLock <=> mutex_' = u
  BY DEF IInv, TypeOK, MutualExclusion, InLock
<1>6. MutualExclusion'
  BY <1>3, <1>5, ConstAssumption DEF MutualExclusion
<1>7. CarryInv'
  BY <1>1 DEF IInv, TypeOK, CarryInv
<1> QED BY <1>4, <1>6, <1>7 DEF IInv

\* empty() and front() of try_dequeue.
LEMMA FrontKeeps ==
  ASSUME IInv, NEW t \in Threads, DeqFront(t)
  PROVE  IInv'
<1> USE DEF DeqFront, Step
<1>1. \A u \in Threads : pc[u] # "pop" /\ (u # t => pc'[u] # "pop")
  BY Alone DEF InLock, IInv, TypeOK
<1>2. queue_ \in Seq(Values)
  BY <1>1, NoneMoved DEF IInv
<1>3. \A u \in Threads : pc'[u] \in InLock <=> mutex_' = u
  BY DEF IInv, TypeOK, MutualExclusion, InLock
<1>4. CASE queue_ = <<>>
  <2>1. TypeOK'
    BY <1>4 DEF IInv, TypeOK, Labels, InLock
  <2>2. MutualExclusion' /\ CarryInv'
    BY <1>1, <1>3, <1>4 DEF IInv, TypeOK, MutualExclusion, CarryInv
  <2> QED BY <2>1, <2>2 DEF IInv
<1>5. CASE queue_ # <<>>
  <2>1. Head(queue_) \in Values /\ 1 \in 1 .. Len(queue_)
    BY <1>2, <1>5
  <2>2. /\ queue_' \in Seq(Values \cup {Moved}) /\ queue_' # <<>>
        /\ queue_'[1] = Moved
        /\ \A i \in 1 .. Len(queue_') : i # 1 => queue_'[i] \in Values
    <3>1. queue_' = [queue_ EXCEPT ![1] = Moved] /\ queue_ \in Seq(Values \cup {Moved})
      BY <1>5 DEF IInv, TypeOK
    <3>2. queue_' \in Seq(Values \cup {Moved}) /\ Len(queue_') = Len(queue_)
      BY <2>1, <3>1, ExceptSeq
    <3>3. \A i \in 1 .. Len(queue_) : queue_[i] \in Values
      BY <1>2
    <3> QED BY <2>1, <3>1, <3>2, <3>3
  <2>3. TypeOK'
    BY <1>5, <2>1, <2>2 DEF IInv, TypeOK, Labels, InLock
  <2>4. pc'[t] = "pop" /\ val'[t] \in Values
    BY <1>5, <2>1 DEF IInv, TypeOK
  <2>5. MutualExclusion'
    BY <1>3, <2>2, <2>4, ConstAssumption DEF MutualExclusion
  <2>6. CarryInv'
    BY <1>1, <2>2, <2>4 DEF IInv, TypeOK, CarryInv
  <2> QED BY <2>3, <2>5, <2>6 DEF IInv
<1> QED BY <1>4, <1>5

\* pop of try_dequeue drops the moved-from element.
LEMMA PopKeeps ==
  ASSUME IInv, NEW t \in Threads, DeqPop(t)
  PROVE  /\ IInv'
         /\ queue_' \in Seq(Values)
<1> USE DEF DeqPop, Step
<1>1. /\ queue_ # <<>> /\ queue_ \in Seq(Values \cup {Moved})
      /\ queue_[1] = Moved
  BY DEF IInv, TypeOK, CarryInv
<1>2. /\ queue_' \in Seq(Values \cup {Moved}) /\ Len(queue_') = Len(queue_) - 1
      /\ \A i \in 1 .. Len(queue_') : queue_'[i] = queue_[i + 1]
  BY <1>1
<1>3. \A i \in 1 .. Len(queue_') : queue_'[i] \in Values /\ queue_'[i] # Moved
  <2> SUFFICES ASSUME NEW i \in 1 .. Len(queue_')
               PROVE  queue_'[i] \in Values /\ queue_'[i] # Moved
    OBVIOUS
  <2>1. i + 1 \in 1 .. Len(queue_) /\ i + 1 # 1
    BY <1>1, <1>2
  <2>2. queue_[i + 1] # Moved /\ queue_[i + 1] \in Values \cup {Moved}
    BY <1>1, <2>1 DEF IInv, MutualExclusion
  <2> QED BY <1>2, <2>2
<1>4. queue_' \in Seq(Values)
  BY <1>2, <1>3, SeqOver
<1>5. \A u \in Threads : pc'[u] \in InLock <=> mutex_' = u
  BY DEF IInv, TypeOK, MutualExclusion, InLock
<1>6. \A u \in Threads : pc'[u] # "pop"
  BY Alone DEF InLock, IInv, TypeOK
<1>7. TypeOK'
  BY <1>2 DEF IInv, TypeOK, Labels, InLock
<1>8. MutualExclusion'
  BY <1>3, <1>5 DEF MutualExclusion
<1>9. CarryInv'
  BY <1>6 DEF IInv, TypeOK, CarryInv
<1> QED BY <1>4, <1>7, <1>8, <1>9 DEF IInv

\* Every step of every thread.
LEMMA NextInv == IInv /\ [Next]_vars => IInv'
<1> SUFFICES ASSUME IInv, [Next]_vars PROVE IInv'
  OBVIOUS
<1>1. CASE UNCHANGED vars
  BY <1>1 DEF vars, IInv, TypeOK, MutualExclusion, CarryInv
<1>2. ASSUME NEW t \in Threads, ThreadStep(t) PROVE IInv'
  BY <1>2, ControlKeeps, PushKeeps, FrontKeeps, PopKeeps DEF ThreadStep
<1>3. ASSUME NEW t \in Threads,
             \/ \E v \in Values : EnqCall(t, v)
             \/ Call(t, "lockDeq") \/ Call(t, "lockRead")
      PROVE  IInv'
  BY <1>3, ControlKeeps
<1> QED BY <1>1, <1>2, <1>3 DEF Next

\* The inductive invariant holds in every reachable state.
LEMMA Invariance == Spec => []IInv
BY InitInv, NextInv, PTL DEF Spec

(* The types of mutex_, queue_, the program counters and the locals.       *)
THEOREM TypeCorrect == Spec => []TypeOK
<1>1. IInv => TypeOK
  BY DEF IInv
<1> QED BY <1>1, Invariance, PTL

(* The mutex is owned by exactly the thread inside an operation, so no     *)
(* thread sees the element front() was moved from.                         *)
THEOREM MutualExclusionCorrect == Spec => []MutualExclusion
<1>1. IInv => MutualExclusion
  BY DEF IInv
<1> QED BY <1>1, Invariance, PTL

-----------------------------------------------------------------------------
(* The refinement.                                                         *)

\* The abstract pend.
PendMap == [t \in Threads |-> PendOf(t)]

\* PendOf by cases on the label.
LEMMA PendCases ==
  ASSUME NEW t \in Threads, pc[t] \in Labels
  PROVE  /\ pc[t] \in {"lockEnq", "push"} => PendOf(t) = Abstract!Enq(val[t])
         /\ pc[t] = "unlockEnq" => PendOf(t) = Abstract!Enqueued
         /\ pc[t] \in {"lockDeq", "front"} => PendOf(t) = Abstract!Deq
         /\ pc[t] \in {"pop", "unlockDeq"} =>
              PendOf(t) = Abstract!Dequeued(val[t])
         /\ pc[t] = "unlockEmpty" => PendOf(t) = Abstract!SawEmpty
         /\ pc[t] \in {"idle", "lockRead", "read", "unlockRead"} =>
              PendOf(t) = Abstract!Idle
BY DEF PendOf, Abstract!Enq, Abstract!Enqueued, Abstract!Deq,
       Abstract!Dequeued, Abstract!SawEmpty, Abstract!Idle

\* The same in the state after a step.
LEMMA PendCasesNext ==
  ASSUME NEW t \in Threads, pc'[t] \in Labels
  PROVE  /\ pc'[t] \in {"lockEnq", "push"} => PendOf(t)' = Abstract!Enq(val'[t])
         /\ pc'[t] = "unlockEnq" => PendOf(t)' = Abstract!Enqueued
         /\ pc'[t] \in {"lockDeq", "front"} => PendOf(t)' = Abstract!Deq
         /\ pc'[t] \in {"pop", "unlockDeq"} =>
              PendOf(t)' = Abstract!Dequeued(val'[t])
         /\ pc'[t] = "unlockEmpty" => PendOf(t)' = Abstract!SawEmpty
         /\ pc'[t] \in {"idle", "lockRead", "read", "unlockRead"} =>
              PendOf(t)' = Abstract!Idle
BY DEF PendOf, Abstract!Enq, Abstract!Enqueued, Abstract!Deq,
       Abstract!Dequeued, Abstract!SawEmpty, Abstract!Idle

\* Thread t goes from one label to another; nobody else moves.
Moves(t, from, to) ==
  /\ Step(t, from, to) /\ from \in Labels /\ to \in Labels
  /\ \A u \in Threads \ {t} : val'[u] = val[u]

\* A step of t changes the abstract stage of t only.
LEMMA PendMoves ==
  ASSUME TypeOK, NEW t \in Threads, NEW from, NEW to, Moves(t, from, to)
  PROVE  /\ PendMap' = [PendMap EXCEPT ![t] = PendOf(t)']
         /\ pc[t] = from /\ pc'[t] = to
         /\ pc[t] \in Labels /\ pc'[t] \in Labels
<1>1. \A u \in Threads \ {t} : PendOf(u)' = PendOf(u)
  BY DEF Moves, Step, TypeOK, PendOf
<1>2. pc[t] = from /\ pc'[t] = to
  BY DEF Moves, Step, TypeOK
<1>3. pc[t] \in Labels /\ pc'[t] \in Labels
  BY <1>2 DEF Moves
<1> QED BY <1>1, <1>2, <1>3 DEF PendMap

\* A step that takes t from stage a to stage b is the abstract Stage(t, a, b).
LEMMA StageStep ==
  ASSUME TypeOK, NEW t \in Threads, NEW from, NEW to, Moves(t, from, to),
         NEW a, NEW b, PendOf(t) = a, PendOf(t)' = b
  PROVE  Abstract!Stage(t, a, b)
<1>1. PendMap' = [PendMap EXCEPT ![t] = b] /\ PendMap[t] = a
  BY PendMoves DEF PendMap
<1> QED BY <1>1 DEF Abstract!Stage, PendMap

\* A step that keeps t's stage leaves the abstract pend alone.
LEMMA SameStage ==
  ASSUME TypeOK, NEW t \in Threads, NEW from, NEW to, Moves(t, from, to),
         PendOf(t)' = PendOf(t)
  PROVE  UNCHANGED PendMap
<1>1. PendMap' = [PendMap EXCEPT ![t] = PendOf(t)]
  BY PendMoves
<1> QED BY <1>1 DEF PendMap

\* The abstract queue when no element is moved from.
LEMMA QueueAsIs ==
  ASSUME IInv, \A t \in Threads : pc[t] # "pop"
  PROVE  QueueOf = queue_ /\ queue_ \in Seq(Values)
BY NoneMoved DEF QueueOf

-----------------------------------------------------------------------------
\* Calls, returns and the steps around the mutex.
LEMMA ControlRefines ==
  ASSUME IInv, NEW t \in Threads,
         \/ \E v \in Values : EnqCall(t, v)
         \/ \E l \in {"lockDeq", "lockRead"} : Call(t, l)
         \/ Lock(t, "lockEnq", "push") \/ Lock(t, "lockDeq", "front")
         \/ Lock(t, "lockRead", "read") \/ EmptyRead(t)
         \/ \E l \in {"unlockEnq", "unlockEmpty", "unlockDeq", "unlockRead"} :
              Unlock(t, l)
  PROVE  UNCHANGED <<QueueOf, PendMap>> \/ Abstract!Next
<1> USE DEF InLock, Labels
<1>0. TypeOK /\ UNCHANGED QueueOf
  BY DEF IInv, QueueOf, EnqCall, Call, Lock, EmptyRead, Unlock
<1>1. ASSUME NEW v \in Values, EnqCall(t, v) PROVE Abstract!CallEnqueue(t, v)
  <2>1. Moves(t, "idle", "lockEnq") /\ val'[t] = v
    BY <1>0, <1>1 DEF Moves, EnqCall, TypeOK
  <2>2. PendOf(t) = Abstract!Idle /\ PendOf(t)' = Abstract!Enq(v)
    BY <1>0, <2>1, PendMoves, PendCases, PendCasesNext
  <2> QED BY <1>0, <2>1, <2>2, StageStep DEF Abstract!CallEnqueue
<1>2. ASSUME Call(t, "lockDeq") PROVE Abstract!CallDequeue(t)
  <2>1. Moves(t, "idle", "lockDeq")
    BY <1>2 DEF Moves, Call
  <2>2. PendOf(t) = Abstract!Idle /\ PendOf(t)' = Abstract!Deq
    BY <1>0, <2>1, PendMoves, PendCases, PendCasesNext
  <2> QED BY <1>0, <2>1, <2>2, StageStep DEF Abstract!CallDequeue
<1>3. ASSUME \/ Call(t, "lockRead") \/ Lock(t, "lockRead", "read")
             \/ EmptyRead(t) \/ Unlock(t, "unlockRead")
      PROVE  UNCHANGED PendMap
  <2>1. PICK from \in {"idle", "lockRead", "read", "unlockRead"},
             to \in {"idle", "lockRead", "read", "unlockRead"} :
               Moves(t, from, to)
    BY <1>0, <1>3 DEF Moves, Call, Lock, EmptyRead, Unlock, TypeOK
  <2>2. PendOf(t)' = PendOf(t)
    BY <1>0, <2>1, PendMoves, PendCases, PendCasesNext
  <2> QED BY <1>0, <2>1, <2>2, SameStage
<1>4. ASSUME Lock(t, "lockEnq", "push") PROVE UNCHANGED PendMap
  <2>1. Moves(t, "lockEnq", "push") /\ val' = val
    BY <1>4 DEF Moves, Lock
  <2>2. PendOf(t)' = PendOf(t)
    BY <1>0, <2>1, PendMoves, PendCases, PendCasesNext
  <2> QED BY <1>0, <2>1, <2>2, SameStage
<1>5. ASSUME Lock(t, "lockDeq", "front") PROVE UNCHANGED PendMap
  <2>1. Moves(t, "lockDeq", "front")
    BY <1>5 DEF Moves, Lock
  <2>2. PendOf(t)' = PendOf(t)
    BY <1>0, <2>1, PendMoves, PendCases, PendCasesNext
  <2> QED BY <1>0, <2>1, <2>2, SameStage
<1>6. ASSUME Unlock(t, "unlockEnq") PROVE Abstract!ReturnEnqueue(t)
  <2>1. Moves(t, "unlockEnq", "idle")
    BY <1>0, <1>6 DEF Moves, Unlock, TypeOK
  <2>2. PendOf(t) = Abstract!Enqueued /\ PendOf(t)' = Abstract!Idle
    BY <1>0, <2>1, PendMoves, PendCases, PendCasesNext
  <2> QED BY <1>0, <2>1, <2>2, StageStep DEF Abstract!ReturnEnqueue
<1>7. ASSUME Unlock(t, "unlockEmpty") PROVE Abstract!ReturnEmpty(t)
  <2>1. Moves(t, "unlockEmpty", "idle")
    BY <1>0, <1>7 DEF Moves, Unlock, TypeOK
  <2>2. PendOf(t) = Abstract!SawEmpty /\ PendOf(t)' = Abstract!Idle
    BY <1>0, <2>1, PendMoves, PendCases, PendCasesNext
  <2> QED BY <1>0, <2>1, <2>2, StageStep DEF Abstract!ReturnEmpty
<1>8. ASSUME Unlock(t, "unlockDeq") PROVE Abstract!ReturnValue(t)
  <2>1. Moves(t, "unlockDeq", "idle")
    BY <1>0, <1>8 DEF Moves, Unlock, TypeOK
  <2>2. PendOf(t) = Abstract!Dequeued(val[t]) /\ PendOf(t)' = Abstract!Idle
    BY <1>0, <2>1, PendMoves, PendCases, PendCasesNext
  <2>3. val[t] \in Values
    BY <1>0, <2>1, PendMoves DEF IInv, CarryInv
  <2>4. Abstract!Stage(t, Abstract!Dequeued(val[t]), Abstract!Idle)
    BY <1>0, <2>1, <2>2, StageStep
  <2> QED BY <1>0, <2>3, <2>4 DEF Abstract!ReturnValue
<1> QED BY <1>0, <1>1, <1>2, <1>3, <1>4, <1>5, <1>6, <1>7, <1>8
        DEF Abstract!Next

\* push is the effect of enqueue.
LEMMA PushRefines ==
  ASSUME IInv, NEW t \in Threads, EnqPush(t)
  PROVE  \E v \in Values : Abstract!DoEnqueue(t, v)
<1>1. TypeOK /\ IInv' /\ val[t] \in Values
  BY PushKeeps DEF IInv, CarryInv, EnqPush, Step
<1>2. Moves(t, "push", "unlockEnq") /\ val' = val
  BY DEF Moves, EnqPush, Labels, InLock
<1>3. \A u \in Threads : pc[u] # "pop" /\ pc'[u] # "pop"
  BY Alone DEF EnqPush, Step, InLock, IInv, TypeOK
<1>4. QueueOf = queue_ /\ QueueOf' = queue_'
  BY <1>1, <1>3, NoneMoved, QueueAsIs DEF QueueOf, IInv, MutualExclusion, TypeOK
<1>5. QueueOf' = Append(QueueOf, val[t])
  BY <1>4 DEF EnqPush, AtBack
<1>6. PendOf(t) = Abstract!Enq(val[t]) /\ PendOf(t)' = Abstract!Enqueued
  BY <1>1, <1>2, PendMoves, PendCases, PendCasesNext
<1> QED BY <1>1, <1>2, <1>5, <1>6, StageStep DEF Abstract!DoEnqueue

\* Moving the front element out is the effect of try_dequeue; finding the
\* queue empty under the mutex is that of an empty answer.
LEMMA FrontRefines ==
  ASSUME IInv, NEW t \in Threads, DeqFront(t)
  PROVE  Abstract!DoDequeue(t) \/ Abstract!ObserveEmpty(t)
<1>1. TypeOK /\ pc[t] = "front"
  BY DEF IInv, DeqFront, Step
<1>2. \A u \in Threads : pc[u] # "pop"
  BY <1>1, Alone DEF InLock
<1>3. QueueOf = queue_ /\ queue_ \in Seq(Values)
  BY <1>2, QueueAsIs
<1>4. CASE queue_ = <<>>
  <2>1. Moves(t, "front", "unlockEmpty") /\ queue_' = queue_
    BY <1>4 DEF DeqFront, Moves, Labels, InLock
  <2>2. PendOf(t) = Abstract!Deq /\ PendOf(t)' = Abstract!SawEmpty
    BY <1>1, <2>1, PendMoves, PendCases, PendCasesNext
  <2>3. UNCHANGED QueueOf
    BY <2>1 DEF QueueOf
  <2> QED BY <1>1, <1>3, <1>4, <2>1, <2>2, <2>3, StageStep
          DEF Abstract!ObserveEmpty
<1>5. CASE queue_ # <<>>
  <2>1. /\ Moves(t, "front", "pop") /\ val'[t] = Head(queue_)
        /\ queue_' = [queue_ EXCEPT ![1] = Moved]
    BY <1>1, <1>5 DEF DeqFront, Moves, Labels, InLock, TypeOK
  <2>2. PendOf(t) = Abstract!Deq /\ PendOf(t)' = Abstract!Dequeued(Head(queue_))
    BY <1>1, <2>1, PendMoves, PendCases, PendCasesNext
  <2>3. QueueOf' = Tail(queue_)
    <3>1. queue_ \in Seq(Values \cup {Moved}) /\ 1 \in 1 .. Len(queue_)
      BY <1>1, <1>3, <1>5 DEF TypeOK
    <3>2. /\ queue_' \in Seq(Values \cup {Moved}) /\ Len(queue_') = Len(queue_)
          /\ \A i \in 1 .. Len(queue_) :
               queue_'[i] = IF i = 1 THEN Moved ELSE queue_[i]
      BY <2>1, <3>1, ExceptSeq
    <3>3. queue_' # <<>> /\ queue_'[1] = Moved
      BY <3>1, <3>2
    <3>4. Tail(queue_') = Tail(queue_)
      <4>1. /\ Tail(queue_) \in Seq(Values \cup {Moved})
            /\ Tail(queue_') \in Seq(Values \cup {Moved})
            /\ Len(Tail(queue_)) = Len(Tail(queue_'))
            /\ \A i \in 1 .. Len(Tail(queue_)) :
                 Tail(queue_)[i] = Tail(queue_')[i]
        BY <1>5, <3>1, <3>2, <3>3
      <4> QED BY <4>1, SeqEqual
    <3> QED BY <3>3, <3>4 DEF QueueOf
  <2>4. Abstract!Stage(t, Abstract!Deq, Abstract!Dequeued(Head(queue_)))
    BY <1>1, <2>1, <2>2, StageStep
  <2> QED BY <1>3, <1>5, <2>3, <2>4 DEF Abstract!DoDequeue
<1> QED BY <1>4, <1>5

\* pop only drops what try_dequeue has already taken.
LEMMA PopRefines ==
  ASSUME IInv, NEW t \in Threads, DeqPop(t)
  PROVE  UNCHANGED <<QueueOf, PendMap>>
<1>1. TypeOK /\ IInv' /\ queue_' \in Seq(Values)
  BY PopKeeps DEF IInv
<1>2. Moves(t, "pop", "unlockDeq") /\ val' = val /\ queue_' = Tail(queue_)
  BY DEF Moves, DeqPop, Labels, InLock
<1>3. QueueOf = Tail(queue_)
  BY <1>1, <1>2 DEF IInv, CarryInv, QueueOf, Moves, Step
<1>4. QueueOf' = queue_'
  BY <1>1, ConstAssumption DEF QueueOf
<1>5. PendOf(t)' = PendOf(t)
  BY <1>1, <1>2, PendMoves, PendCases, PendCasesNext
<1> QED BY <1>1, <1>2, <1>3, <1>4, <1>5, SameStage

\* The constructed queue maps to the empty abstract queue.
LEMMA InitRefines == Init => Abstract!Init
<1> SUFFICES ASSUME Init PROVE Abstract!Init
  OBVIOUS
<1>1. \A t \in Threads : PendOf(t) = Abstract!Idle
  BY PendCases DEF Init, Labels
<1> QED BY <1>1 DEF Init, Abstract!Init, QueueOf

\* Every step maps to a step of FIFO or to a stutter.
LEMMA NextRefines ==
  IInv /\ [Next]_vars => [Abstract!Next]_(Abstract!fifoVars)
<1> SUFFICES ASSUME IInv, [Next]_vars
             PROVE  UNCHANGED <<QueueOf, PendMap>> \/ Abstract!Next
  BY DEF Abstract!fifoVars, PendMap
<1>1. CASE UNCHANGED vars
  BY <1>1 DEF vars, QueueOf, PendMap, PendOf
<1>2. ASSUME NEW t \in Threads, ThreadStep(t)
      PROVE  UNCHANGED <<QueueOf, PendMap>> \/ Abstract!Next
  BY <1>2, ControlRefines, PushRefines, FrontRefines, PopRefines
  DEF ThreadStep, Abstract!Next
<1>3. ASSUME NEW t \in Threads,
             \/ \E v \in Values : EnqCall(t, v)
             \/ Call(t, "lockDeq") \/ Call(t, "lockRead")
      PROVE  UNCHANGED <<QueueOf, PendMap>> \/ Abstract!Next
  BY <1>3, ControlRefines
<1> QED BY <1>1, <1>2, <1>3 DEF Next

(* mutex_queue is a linearizable FIFO queue: push is the effect of         *)
(* enqueue, moving the front out that of try_dequeue.                      *)
THEOREM Refinement == Spec => Linearizable
BY InitRefines, NextRefines, Invariance, PTL
DEF Spec, Linearizable, Abstract!Spec
=============================================================================

-------------------------------- MODULE FIFO --------------------------------
(***************************************************************************)
(* What a client of any queue of this library may rely on: a linearizable  *)
(* FIFO queue with enqueue and try_dequeue, used by any number of threads. *)
(*                                                                         *)
(* Every operation is a call, one atomic effect somewhere between call and *)
(* return, and a return.  try_dequeue may answer "empty" only if the queue *)
(* was empty at some moment of the call; that moment is ObserveEmpty.  An  *)
(* implementation that looked at an empty queue may still start over       *)
(* (Forget), for instance because its snapshot failed validation.          *)
(*                                                                         *)
(* Exactly-once delivery, no loss and per-producer order (the invariants   *)
(* tests/stress_test.cpp samples) are consequences of this module.         *)
(***************************************************************************)
EXTENDS Sequences

CONSTANTS Threads,  \* the threads that use the queue
          Values    \* what is enqueued

VARIABLES queue,    \* the values in the queue, oldest first
          pend      \* pend[t]: the operation t is executing, and how far it is

fifoVars == <<queue, pend>>

Idle        == [op |-> "idle"]
Enq(v)      == [op |-> "enq", val |-> v]    \* called, no effect yet
Enqueued    == [op |-> "enqueued"]          \* effect done, not returned
Deq         == [op |-> "deq"]               \* called, no effect yet
SawEmpty    == [op |-> "empty"]             \* found the queue empty
Dequeued(v) == [op |-> "dequeued", val |-> v]

Pending == {Idle, Enqueued, Deq, SawEmpty}
             \cup {Enq(v) : v \in Values} \cup {Dequeued(v) : v \in Values}

FifoTypeOK == /\ queue \in Seq(Values)
              /\ pend \in [Threads -> Pending]

Init == /\ queue = <<>>
        /\ pend = [t \in Threads |-> Idle]

\* t's operation moves from one stage to another.
Stage(t, from, to) == /\ pend[t] = from
                      /\ pend' = [pend EXCEPT ![t] = to]

CallEnqueue(t, v) == Stage(t, Idle, Enq(v)) /\ UNCHANGED queue
DoEnqueue(t, v)   == Stage(t, Enq(v), Enqueued) /\ queue' = Append(queue, v)
ReturnEnqueue(t)  == Stage(t, Enqueued, Idle) /\ UNCHANGED queue

CallDequeue(t)  == Stage(t, Idle, Deq) /\ UNCHANGED queue
DoDequeue(t)    == /\ queue # <<>>
                   /\ Stage(t, Deq, Dequeued(Head(queue)))
                   /\ queue' = Tail(queue)
ObserveEmpty(t) == queue = <<>> /\ Stage(t, Deq, SawEmpty) /\ UNCHANGED queue
Forget(t)       == Stage(t, SawEmpty, Deq) /\ UNCHANGED queue
ReturnEmpty(t)  == Stage(t, SawEmpty, Idle) /\ UNCHANGED queue
ReturnValue(t)  == \E v \in Values :
                     Stage(t, Dequeued(v), Idle) /\ UNCHANGED queue

Next == \E t \in Threads :
          \/ \E v \in Values : CallEnqueue(t, v) \/ DoEnqueue(t, v)
          \/ ReturnEnqueue(t)
          \/ CallDequeue(t) \/ DoDequeue(t) \/ ReturnValue(t)
          \/ ObserveEmpty(t) \/ Forget(t) \/ ReturnEmpty(t)

Spec == Init /\ [][Next]_fifoVars
=============================================================================

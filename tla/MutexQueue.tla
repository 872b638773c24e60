----------------------------- MODULE MutexQueue -----------------------------
(***************************************************************************)
(* mutex_queue of include/lfq/mutex_queue.hpp, the control group of the    *)
(* benchmarks: a std::queue whose operations hold a std::mutex.  The       *)
(* lock_guard releases the mutex on every way out of an operation.         *)
(***************************************************************************)
EXTENDS Naturals, Sequences

CONSTANTS Threads,   \* the threads that share the queue
          Values,    \* what clients enqueue
          None,      \* no thread, and no value
          Moved,     \* what std::move leaves in the front element
          Capacity   \* bound on the length a run lets the queue reach

ASSUME ConstAssumption ==
  /\ None \notin Threads \cup Values
  /\ Moved \notin Values \cup {None}
  /\ Capacity \in Nat

VARIABLES
  mutex_,   \* the thread that owns the mutex, or None
  queue_,   \* the std::queue
  pc,       \* pc[t]: the next step of thread t
  val       \* the value t enqueues, or has dequeued

vars == <<mutex_, queue_, pc, val>>

InLock == {"push", "front", "pop", "read", "unlockEnq", "unlockEmpty",
           "unlockDeq", "unlockRead"}
Labels == {"idle", "lockEnq", "lockDeq", "lockRead"} \cup InLock

\* The one type invariant.
TypeOK ==
  /\ mutex_ \in Threads \cup {None}
  /\ queue_ \in Seq(Values \cup {Moved})
  /\ pc \in [Threads -> Labels]
  /\ val \in [Threads -> Values \cup {None}]

Init ==
  /\ mutex_ = None /\ queue_ = <<>>
  /\ pc = [t \in Threads |-> "idle"]
  /\ val = [t \in Threads |-> None]

Step(t, from, to) == pc[t] = from /\ pc' = [pc EXCEPT ![t] = to]

Always == TRUE  \* Mutant
Available == mutex_ = None

\* lock_guard lock(mutex_) blocks while another thread owns the mutex.
Lock(t, from, to) ==
  /\ Step(t, from, to)
  /\ Available /\ mutex_' = t
  /\ UNCHANGED <<queue_, val>>

Forgotten(from) == IF from = "unlockEmpty" THEN mutex_ ELSE None  \* Mutant
Unlocked(from) == None

\* ~lock_guard, and the return.
Unlock(t, from) ==
  /\ Step(t, from, "idle")
  /\ mutex_' = Unlocked(from)
  /\ val' = [val EXCEPT ![t] = None]
  /\ UNCHANGED queue_

-----------------------------------------------------------------------------
EnqCall(t, v) ==
  /\ Step(t, "idle", "lockEnq")
  /\ Len(queue_) < Capacity
  /\ val' = [val EXCEPT ![t] = v]
  /\ UNCHANGED <<mutex_, queue_>>

AtFront(x) == <<x>> \o queue_  \* Mutant
AtBack(x) == Append(queue_, x)

\* queue_.push(std::move(value)).
EnqPush(t) ==
  /\ Step(t, "push", "unlockEnq")
  /\ queue_' = AtBack(val[t])
  /\ UNCHANGED <<mutex_, val>>

\* Calls that take no argument: try_dequeue() and empty().
Call(t, l) == Step(t, "idle", l) /\ UNCHANGED <<mutex_, queue_, val>>

\* if (queue_.empty()) return nullopt; value(std::move(queue_.front())).
DeqFront(t) ==
  /\ \/ queue_ = <<>> /\ Step(t, "front", "unlockEmpty")
        /\ UNCHANGED <<queue_, val>>
     \/ /\ queue_ # <<>> /\ Step(t, "front", "pop")
        /\ val' = [val EXCEPT ![t] = Head(queue_)]
        /\ queue_' = [queue_ EXCEPT ![1] = Moved]
  /\ UNCHANGED mutex_

\* queue_.pop().
DeqPop(t) ==
  /\ Step(t, "pop", "unlockDeq")
  /\ queue_' = Tail(queue_)
  /\ UNCHANGED <<mutex_, val>>

\* empty() reads the queue under the mutex.
EmptyRead(t) ==
  /\ Step(t, "read", "unlockRead") /\ UNCHANGED <<mutex_, queue_, val>>

ThreadStep(t) ==
  \/ Lock(t, "lockEnq", "push") \/ EnqPush(t) \/ Unlock(t, "unlockEnq")
  \/ Lock(t, "lockDeq", "front") \/ DeqFront(t) \/ DeqPop(t)
  \/ Unlock(t, "unlockEmpty") \/ Unlock(t, "unlockDeq")
  \/ Lock(t, "lockRead", "read") \/ EmptyRead(t) \/ Unlock(t, "unlockRead")

Next == \E t \in Threads :
          \/ \E v \in Values : EnqCall(t, v)
          \/ Call(t, "lockDeq") \/ Call(t, "lockRead")
          \/ ThreadStep(t)

(* Threads that hold the mutex keep running, and a thread that waits for   *)
(* it gets it if it is free again and again.                               *)
Fairness ==
  \A t \in Threads :
    /\ WF_vars(ThreadStep(t))
    /\ SF_vars(ThreadStep(t) /\ mutex_' = t /\ mutex_ # t)

Spec == Init /\ [][Next]_vars /\ Fairness

-----------------------------------------------------------------------------
(* Exactly the thread inside an operation owns the mutex, so no thread     *)
(* sees the moved-from element between front() and pop().                  *)
MutualExclusion ==
  /\ \A t \in Threads : pc[t] \in InLock <=> mutex_ = t
  /\ \A i \in 1 .. Len(queue_) :
       queue_[i] = Moved => i = 1 /\ \E t \in Threads : pc[t] = "pop"

(* Every operation returns: the mutex is released on every path, the early *)
(* return of try_dequeue on an empty queue included.                       *)
OpsReturn == \A t \in Threads : pc[t] # "idle" ~> pc[t] = "idle"

(* push is the effect of enqueue; moving the front out that of             *)
(* try_dequeue, whose pop only drops the moved-from element.               *)
QueueOf == IF queue_ # <<>> /\ queue_[1] = Moved THEN Tail(queue_) ELSE queue_

PendOf(t) ==
  CASE pc[t] \in {"lockEnq", "push"} -> [op |-> "enq", val |-> val[t]]
    [] pc[t] = "unlockEnq" -> [op |-> "enqueued"]
    [] pc[t] \in {"lockDeq", "front"} -> [op |-> "deq"]
    [] pc[t] \in {"pop", "unlockDeq"} -> [op |-> "dequeued", val |-> val[t]]
    [] pc[t] = "unlockEmpty" -> [op |-> "empty"]
    [] OTHER -> [op |-> "idle"]

Abstract == INSTANCE FIFO WITH queue <- QueueOf,
                               pend <- [t \in Threads |-> PendOf(t)]

(* The mutex queue is a linearizable FIFO, like the lock-free one.         *)
Linearizable == Abstract!Spec
=============================================================================

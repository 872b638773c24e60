----------------------------- MODULE MSQueueInv -----------------------------
(***************************************************************************)
(* The inductive invariant behind MSQueue's properties: what each thread's *)
(* snapshot still says about the list at every point of its operation,     *)
(* however stale the snapshot has become.                                  *)
(***************************************************************************)
EXTENDS MSQueue

\* Nodes only their allocating enqueue knows, and those others may hold.
Private == {n[t] : t \in {u \in Threads : pc[u] \in PreLink}}
Shared  == heap \ Private

\* The labels at which the locals head, tail and nx of a dequeue are set.
HasHead == {"deqTail", "deqNext", "deqCheck", "deqHelp", "deqRead", "deqSwing"}
HasTail == HasHead \ {"deqTail"}
HasNext == HasTail \ {"deqNext"}

(* A node that is not yet linked is known to one enqueue only; a node that *)
(* was dequeued keeps a non-null next, so no stale enqueue can link to it. *)
NodeInv ==
  /\ \A t \in Threads : pc[t] \in PreLink =>
       /\ n[t] \in heap \ Live
       /\ next[n[t]] = Null
       /\ value[n[t]] \in Values
       /\ \A u \in Threads : pc[u] \in PreLink /\ n[u] = n[t] => u = t
  /\ \A m \in Shared \ Live : next[m] # Null
  /\ \A i \in 2 .. Len(chain) : value[chain[i]] \in Values

(* An enqueue's snapshot: tail_ has not gone back behind tail, next was    *)
(* read from tail's next field, and after the link the new node follows    *)
(* tail.                                                                   *)
EnqInv ==
  \A t \in Threads :
    /\ pc[t] \in PreLink \ {"enqProtect"} =>
         tail[t] \in Shared /\ (tail[t] = Last => tail_ = Last)
    /\ pc[t] = "enqCheck" => nx[t] \in {Null, next[tail[t]]}
    /\ pc[t] = "enqHelp" => nx[t] # Null /\ nx[t] = next[tail[t]]
    /\ pc[t] = "enqSwing" => /\ tail[t] \in Shared
                             /\ n[t] # Null /\ next[tail[t]] = n[t]

(* A dequeue's snapshot: head is the first node or was dequeued since; if  *)
(* it is still the first and tail was read ahead of it, tail_ is ahead of  *)
(* it; and then next is its successor.                                     *)
DeqInv ==
  \A t \in Threads :
    /\ pc[t] \in HasHead => /\ head[t] \in Shared
                            /\ \A i \in 2 .. Len(chain) : head[t] # chain[i]
    /\ pc[t] \in HasTail =>
         (head[t] = head_ /\ tail[t] # head[t] => tail_ # head[t])
    /\ pc[t] \in HasNext =>
         /\ nx[t] \in {Null, next[head[t]]}
         /\ tail[t] # head[t] => nx[t] # Null
    /\ pc[t] = "deqHelp" => nx[t] # Null /\ tail[t] = head[t]
    /\ pc[t] \in {"deqHelp", "deqRead", "deqSwing"} => nx[t] \in Shared
    /\ pc[t] \in {"deqRead", "deqSwing"} => tail[t] # head[t]
    /\ pc[t] = "deqSwing" => val[t] = value[nx[t]]
    /\ pc[t] \in {"deqRetire", "deqRet"} => val[t] \in Values

(* Whenever tail_ lags, the enqueue that linked the last node is about to  *)
(* swing tail_.                                                            *)
LagInv ==
  tail_ # Last => \E t \in Threads : /\ pc[t] = "enqSwing"
                                     /\ tail[t] = tail_ /\ n[t] = Last

(* The destructor has deleted exactly the chain before its cursor.         *)
CursorInv ==
  IF p = Null THEN Live \cap heap = {}
  ELSE \E i \in 1 .. Len(chain) :
         /\ p = chain[i]
         /\ Live \cap heap = {chain[j] : j \in i .. Len(chain)}

(* The inductive invariant of ms_queue's enqueue, try_dequeue and          *)
(* destructor.                                                             *)
IInv ==
  /\ TypeOK
  /\ ListInv
  /\ alive => NodeInv /\ EnqInv /\ DeqInv
  /\ LagInv
  /\ ~alive => Quiesced /\ CursorInv
=============================================================================

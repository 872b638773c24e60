-------------------------- MODULE MSQueueHPProgress --------------------------
(***************************************************************************)
(* Lock-freedom of the queue over hp_reclaimer.  A thread suspended        *)
(* between the two CASes of enqueue leaves tail_ behind; and the loops of  *)
(* the domain are to be left as well: protect publishes again for as long  *)
(* as its source changes, acquire_record walks a list, retire scans slots  *)
(* that a suspended thread never clears.                                   *)
(***************************************************************************)
EXTENDS MSQueueHP

CONSTANT Running    \* the threads that keep being scheduled

ASSUME RunningAssumption == Running \subseteq Threads

\* t is in an operation, its guard's destructor, a scan or its exit.
InCall(t) == pc[t] # "idle" \/ dpc[t] # "ready"

Step(t) ==
  /\ InCall(t)
  /\ \/ HPEnq(t) \/ HPDeq(t) \/ Delete(t)
     \/ HP!DomainStep(t) /\ UNCHANGED vars

(* A running thread takes its next step, and a weak CAS does not fail      *)
(* spuriously for ever.                                                    *)
Fairness ==
  \A t \in Running :
    /\ WF_hpVars(Step(t))
    /\ SF_hpVars(EnqLink(t) /\ next' # next /\ Step(t))
    /\ SF_hpVars(DeqSwing(t) /\ head_' # head_ /\ Step(t))
    /\ SF_hpVars((EnqHelp(t) \/ DeqHelp(t)) /\ tail_' # tail_ /\ Step(t))

(* The queue lives on: its destructor runs in no call (and MSQueueHP       *)
(* checks it).                                                             *)
FairSpec == HPInit /\ [][\E t \in Threads : HPThread(t)]_hpVars /\ Fairness

(* Whatever a running thread has called returns, although the other        *)
(* threads may be suspended for ever anywhere, with hazards published,     *)
(* with a record half acquired or inside a scan.                           *)
RunningCallsReturn == \A t \in Running : InCall(t) ~> ~InCall(t)
=============================================================================

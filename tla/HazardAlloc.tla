---------------------------- MODULE HazardAlloc ----------------------------
(***************************************************************************)
(* The hazard pointer domain when memory runs out.  bag.push_back, new     *)
(* record and the hazards vector of a scan may throw std::bad_alloc, and   *)
(* nothing in include/lfq catches it: the operation ends where it threw    *)
(* and the client goes on.  In ~tl_cache a throw ends the process, so an   *)
(* exiting thread does not throw here.                                     *)
(*                                                                         *)
(* NoUseAfterFree and NothingTwice must survive this; BooksBalance does    *)
(* not: what a failed adoption drops was retired.                          *)
(***************************************************************************)
EXTENDS HazardCells

CONSTANT MaxFaults  \* bound on the allocations that fail

ASSUME FaultsAssumption == MaxFaults \in Nat

VARIABLE faults  \* the allocations that failed

AllocInit == Init /\ faults = 0

Throw(t) == /\ faults < MaxFaults /\ faults' = faults + 1
            /\ ~exiting[t]

\* new record() in acquire_record: the guard is never constructed.
RecordThrows(t) ==
  /\ Throw(t) /\ DAt(t, "walk") /\ cur[t] = 0 /\ DGoto(t, "ready")
  /\ guarded' = [guarded EXCEPT ![t] = FALSE]
  /\ UNCHANGED <<sharedVars, rec, bag, cur, k, ptr, hz, ndel, exiting,
                 src, heap, cell, hold, mine>>

\* tl.bag.push_back in retire: nobody has the node any more.
RetireThrows(t) ==
  /\ Throw(t) /\ DAt(t, "ready") /\ mine[t] # Null
  /\ mine' = [mine EXCEPT ![t] = Null]
  /\ UNCHANGED <<domainVars, src, heap, guarded, cell, hold>>

\* bag.push_back in adopt_orphans: the stack has been taken, and only the
\* nodes of S have reached the bag.
AdoptThrows(t) ==
  /\ Throw(t) /\ DAt(t, "adopt") /\ DGoto(t, "ready")
  /\ \E S \in SUBSET orphans : S # orphans /\ bag' = [bag EXCEPT ![t] = @ \cup S]
  /\ orphans' = Exchanged
  /\ UNCHANGED <<nlinked, nrecords, active, slot, retired, freed,
                 rec, cur, k, ptr, hz, ndel, exiting, clientVars>>

FreeByPart == "free"  \* Mutant
\* Where a scan goes on when its snapshot could not be completed.
Unsnapped == "ready"

\* hazards.reserve, or push_back when records were linked since.
SnapshotThrows(t) ==
  /\ Throw(t) /\ (DAt(t, "snap") \/ DAt(t, "slots")) /\ DGoto(t, Unsnapped)
  /\ hz' = [hz EXCEPT ![t] = {}]
  /\ cur' = [cur EXCEPT ![t] = 0] /\ k' = [k EXCEPT ![t] = 0]
  /\ UNCHANGED <<sharedVars, rec, bag, ptr, ndel, exiting, clientVars>>

AllocNext ==
  \/ Next /\ UNCHANGED faults
  \/ \E t \in Threads : \/ RecordThrows(t) \/ RetireThrows(t)
                        \/ AdoptThrows(t) \/ SnapshotThrows(t)

AllocSpec == AllocInit /\ [][AllocNext]_<<vars, faults>>

(* Wherever an allocation fails and the call is abandoned, nothing that is *)
(* protected is freed, and nothing is freed twice.                         *)
MemorySafe == NoUseAfterFree /\ NothingTwice
=============================================================================

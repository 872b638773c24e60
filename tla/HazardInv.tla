----------------------------- MODULE HazardInv -----------------------------
(***************************************************************************)
(* The inductive invariants behind the hazard pointer domain's properties, *)
(* for any client that respects its contract.                              *)
(***************************************************************************)
EXTENDS HazardDomain

(* Who has which record.  An active record belongs to one thread, another  *)
(* one names nothing; a walk of the list stays inside it.                  *)
RecordInv ==
  /\ \A t \in Threads : cur[t] <= nlinked /\ rec[t] <= nlinked
  /\ \A t, u \in Threads : rec[t] = rec[u] /\ rec[t] # 0 => t = u
  /\ \A t \in Threads : rec[t] # 0 => active[rec[t]]
  /\ \A r \in 1 .. nlinked : active[r] => \E t \in Threads : rec[t] = r
  /\ \A r \in 1 .. nlinked : ~active[r] => \A s \in Slots : slot[r][s] = Null

(* What the code between two accesses relies on: a record where slots are  *)
(* written, none while one is acquired, slots cleared one after the other, *)
(* locals of a scan that are empty outside it.                             *)
ControlInv ==
  \A t \in Threads :
    /\ dpc[t] \in {"publish", "verify", "clear", "wipe", "release"} =>
         rec[t] # 0
    /\ dpc[t] \in {"walk", "link"} => rec[t] = 0
    /\ dpc[t] = "slots" => cur[t] # 0
    /\ dpc[t] \notin {"publish", "verify", "clear", "wipe", "slots"} =>
         k[t] = 0
    /\ dpc[t] \notin {"slots", "free"} => hz[t] = {}
    /\ dpc[t] # "free" => ndel[t] = 0
    /\ dpc[t] = "wipe" =>
         \A s \in Slots : s < k[t] => slot[rec[t]][s] = Null
    /\ dpc[t] = "release" => \A s \in Slots : slot[rec[t]][s] = Null
    /\ dpc[t] \in {"orphan", "wipe", "release"} => exiting[t]
    /\ exiting[t] => dpc[t] \in {"adopt", "snap", "slots", "free", "orphan",
                                "wipe", "release"}
    /\ dpc[t] \in {"wipe", "release"} => bag[t] = {}

\* The threads that own one of the first j records, or have found all later
\* ones in use: they walk at or before record j, or link a record.
Below(j) ==
  {t \in Threads : \/ rec[t] \in 1 .. j
                   \/ dpc[t] = "walk" /\ cur[t] <= j
                   \/ dpc[t] = "link"}

Linking == {t \in Threads : dpc[t] = "link"}

(* Why records are recycled so well.  A thread gets below record j + 1     *)
(* only by finding it in use, by a thread that is not below it: so at      *)
(* least as many threads stay out of Below(j) as there are later records.  *)
CountInv ==
  /\ nrecords = nlinked + Cardinality(Linking) /\ nrecords <= MaxRecords
  /\ \A j \in 0 .. nlinked :
       Cardinality(Below(j)) + (nlinked - j) <= Cardinality(Threads)

(* Retired nodes are in one bag or on the orphan stack.                    *)
BagsInv ==
  \A t \in Threads : /\ bag[t] \cap orphans = {}
                     /\ \A u \in Threads : t # u => bag[t] \cap bag[u] = {}

\* The retired nodes that no scan has freed yet.
Waiting == orphans \cup UNION {bag[t] : t \in Threads}

DomainInv ==
  DomainTypeOK /\ RecordInv /\ ControlInv /\ CountInv /\ BagsInv

\* Thread u will not free m as long as slot s of record r names it: it has
\* not begun to read the slots, has seen m, or has yet to read that slot.
Spares(u, r, s, m) ==
  m \in bag[u] => \/ dpc[u] \notin {"slots", "free"}
                  \/ m \in hz[u]
                  \/ /\ dpc[u] = "slots"
                     /\ \/ r < cur[u]
                        \/ r = cur[u] /\ k[u] <= s

\* The bag is below the threshold outside retire and scan, and a snapshot
\* has no more nodes than slots were read.
Bounded(t) ==
  /\ IsFiniteSet(bag[t]) /\ IsFiniteSet(hz[t])
  /\ dpc[t] \in {"ready", "walk", "link", "publish", "verify", "clear"} =>
       Cardinality(bag[t]) < scan_threshold
  /\ dpc[t] = "slots" => Cardinality(hz[t]) <= K * (nlinked - cur[t]) + k[t]
  /\ dpc[t] = "free" => Cardinality(hz[t]) <= K * nlinked

(* The garbage bound, for domains that scan for more nodes than the slots  *)
(* of all records can name.                                                *)
BoundInv == IsFiniteSet(orphans) /\ \A t \in Threads : Bounded(t)
=============================================================================

------------------------- MODULE HazardDomain_proofs -------------------------
(***************************************************************************)
(* Machine-checked proofs about the hazard pointer domain that hold for    *)
(* any client: every operation of HazardDomain keeps DomainInv, and no     *)
(* operation makes a scan forget a hazard that stays published.  Modules   *)
(* that say what the client does build their invariants on these lemmas.   *)
(*                                                                         *)
(* Order: counting threads; types, records and control, one lemma per kind *)
(* of operation; the bags; what scans spare.                               *)
(***************************************************************************)
EXTENDS HazardInv, FiniteSetTheorems, TLAPS

-----------------------------------------------------------------------------
(* The operations by what they touch.                                      *)

\* Only t's own program counter and locals.
LocalOp(t) ==
  \/ \E s \in Slots, v \in Nodes \cup {Null} : ProtectLoad(t, s, v)
  \/ \E v \in Nodes \cup {Null} : ProtectReturn(t, v) \/ ProtectRetry(t, v)
  \/ GuardEnd(t) \/ Drain(t) \/ RetireCheck(t) \/ ScanStart(t)
  \/ ThreadExit(t) \/ OrphansDone(t)

\* The hazard slots of t's record.
SlotOp(t) ==
  \/ ProtectPublish(t) \/ GuardClear(t) \/ ExitClear(t)
  \/ \E s \in Slots, v \in Nodes \cup {Null} : SetSlot(t, s, v)

\* The list of records.
RecordOp(t) ==
  AcqStart(t) \/ AcqTry(t) \/ AcqNew(t) \/ AcqLink(t) \/ ReleaseRecord(t)

\* The bags, the orphans and the counters.
BagOp(t) ==
  \/ ScanAdopt(t) \/ ScanSlot(t) \/ ScanEnd(t)
  \/ \E m \in Nodes : Retire(t, m) \/ ScanFree(t, m) \/ PushOrphan(t, m)

DomainOp(t) == LocalOp(t) \/ SlotOp(t) \/ RecordOp(t) \/ BagOp(t)

-----------------------------------------------------------------------------
(* Counting threads.                                                       *)

\* Sets of threads are finite, and their cardinalities natural numbers.
LEMMA ThreadSets ==
  ASSUME NEW S \in SUBSET Threads
  PROVE  /\ IsFiniteSet(S) /\ Cardinality(S) \in Nat
         /\ Cardinality(S) <= Cardinality(Threads)
         /\ Cardinality(Threads) \in Nat
<1>1. IsFiniteSet(Threads)
  BY DomainAssumption
<1>2. IsFiniteSet(S) /\ Cardinality(S) <= Cardinality(Threads)
  BY <1>1, FS_Subset
<1> QED BY <1>1, <1>2, FS_CardinalityType

\* A smaller set has fewer elements, strictly if x is missing.
LEMMA SmallerSet ==
  ASSUME NEW S \in SUBSET Threads, NEW T \in SUBSET S
  PROVE  /\ Cardinality(T) <= Cardinality(S)
         /\ \A x \in S \ T : Cardinality(T) < Cardinality(S)
<1>1. IsFiniteSet(S) /\ Cardinality(S) \in Nat /\ Cardinality(T) \in Nat
  BY ThreadSets
<1>2. Cardinality(T) <= Cardinality(S) /\ (Cardinality(S) = Cardinality(T) => S = T)
  BY <1>1, FS_Subset
<1> QED BY <1>1, <1>2

\* An operation that leaves records and acquiring threads alone leaves the
\* counts alone.
LEMMA CountFrame ==
  ASSUME DomainTypeOK, CountInv, UNCHANGED <<nlinked, nrecords, rec>>,
         \A t \in Threads :
           /\ dpc'[t] = "link" <=> dpc[t] = "link"
           /\ dpc'[t] = "walk" <=> dpc[t] = "walk"
           /\ dpc[t] = "walk" => cur'[t] = cur[t]
  PROVE  CountInv'
<1>1. Linking' = Linking
  BY DEF Linking
<1>2. \A j \in 0 .. nlinked : Below(j)' = Below(j)
  BY DEF Below
<1> QED BY <1>1, <1>2 DEF CountInv

\* A record that is being linked has its place.
LEMMA RoomToLink ==
  ASSUME DomainTypeOK, CountInv, NEW t \in Threads, dpc[t] = "link"
  PROVE  nlinked < MaxRecords
<1>1. Linking \in SUBSET Threads /\ Linking # {}
  BY DEF Linking
<1>2. Cardinality(Linking) \in Nat /\ Cardinality(Linking) # 0
  BY <1>1, ThreadSets, FS_EmptySet
<1> QED BY <1>2, DomainAssumption DEF CountInv, DomainTypeOK

-----------------------------------------------------------------------------
(* Types, records and control.                                             *)

\* What all operations rely on.
CoreInv == DomainTypeOK /\ RecordInv /\ ControlInv /\ CountInv

\* Slots are numbered from 0 to LastSlot.
LEMMA SlotNumbers ==
  /\ 0 \in Slots /\ LastSlot \in Slots
  /\ \A s \in Slots : s # LastSlot => s + 1 \in Slots
  /\ \A s \in Slots : s \in Int /\ 0 <= s /\ s <= LastSlot
BY DomainAssumption DEF Slots, LastSlot

\* Operations on t's own program counter and locals.
LEMMA LocalKeeps ==
  ASSUME CoreInv, NEW t \in Threads, LocalOp(t)
  PROVE  CoreInv'
<1> USE DEF DAt, DGoto, sharedVars
<1>0. DomainTypeOK /\ RecordInv /\ ControlInv /\ CountInv
  BY DEF CoreInv
<1>1. ASSUME NEW s \in Slots, NEW v \in Nodes \cup {Null}, ProtectLoad(t, s, v)
      PROVE  DomainTypeOK' /\ RecordInv' /\ ControlInv'
  BY <1>0, <1>1 DEF ProtectLoad, DomainTypeOK, DomainLabels, RecordInv, ControlInv
<1>2. ASSUME NEW v \in Nodes \cup {Null}, ProtectReturn(t, v)
      PROVE  DomainTypeOK' /\ RecordInv' /\ ControlInv'
  BY <1>0, <1>2, SlotNumbers
  DEF ProtectReturn, DomainTypeOK, DomainLabels, RecordInv, ControlInv
<1>3. ASSUME NEW v \in Nodes \cup {Null}, ProtectRetry(t, v)
      PROVE  DomainTypeOK' /\ RecordInv' /\ ControlInv'
  BY <1>0, <1>3 DEF ProtectRetry, DomainTypeOK, DomainLabels, RecordInv, ControlInv
<1>4. ASSUME GuardEnd(t) PROVE DomainTypeOK' /\ RecordInv' /\ ControlInv'
  BY <1>0, <1>4 DEF GuardEnd, DomainTypeOK, DomainLabels, RecordInv, ControlInv
<1>5. ASSUME Drain(t) PROVE DomainTypeOK' /\ RecordInv' /\ ControlInv'
  BY <1>0, <1>5 DEF Drain, DomainTypeOK, DomainLabels, RecordInv, ControlInv
<1>6. ASSUME RetireCheck(t) PROVE DomainTypeOK' /\ RecordInv' /\ ControlInv'
  BY <1>0, <1>6 DEF RetireCheck, DomainTypeOK, DomainLabels, RecordInv, ControlInv
<1>7. ASSUME ScanStart(t) PROVE DomainTypeOK' /\ RecordInv' /\ ControlInv'
  BY <1>0, <1>7 DEF ScanStart, DomainTypeOK, DomainLabels, RecordInv, ControlInv
<1>8. ASSUME ThreadExit(t) PROVE DomainTypeOK' /\ RecordInv' /\ ControlInv'
  BY <1>0, <1>8 DEF ThreadExit, DomainTypeOK, DomainLabels, RecordInv, ControlInv
<1>9. ASSUME OrphansDone(t) PROVE DomainTypeOK' /\ RecordInv' /\ ControlInv'
  <2>1. CASE rec[t] # 0
    <3>1. (rec[t] # 0) = TRUE
      BY <2>1
    <3>2. exiting' = [exiting EXCEPT ![t] = TRUE]
      BY <1>9, <3>1, Zenon DEF OrphansDone
    <3> QED BY <1>0, <1>9, <2>1, <3>2, SlotNumbers
            DEF OrphansDone, DomainTypeOK, DomainLabels, RecordInv, ControlInv
  <2>2. CASE rec[t] = 0
    <3>1. (rec[t] # 0) = FALSE
      BY <2>2
    <3>2. exiting' = [exiting EXCEPT ![t] = FALSE]
      BY <1>9, <3>1, Zenon DEF OrphansDone
    <3> QED BY <1>0, <1>9, <2>2, <3>2
            DEF OrphansDone, DomainTypeOK, DomainLabels, RecordInv, ControlInv
  <2> QED BY <2>1, <2>2
<1>10. CountInv'
  <2> USE DEF LocalOp, ProtectLoad, ProtectReturn, ProtectRetry, GuardEnd,
              Drain, RetireCheck, ScanStart, ThreadExit, OrphansDone
  <2>1. UNCHANGED <<nlinked, nrecords, rec>>
    OBVIOUS
  <2>2. \A u \in Threads : /\ dpc'[u] = "link" <=> dpc[u] = "link"
                           /\ dpc'[u] = "walk" <=> dpc[u] = "walk"
                           /\ dpc[u] = "walk" => cur'[u] = cur[u]
    BY <1>0 DEF DomainTypeOK
  <2> QED BY <1>0, <2>1, <2>2, CountFrame
<1> QED BY <1>1, <1>2, <1>3, <1>4, <1>5, <1>6, <1>7, <1>8, <1>9, <1>10
        DEF LocalOp, CoreInv

\* Writes to the slots of t's own record.
LEMMA SlotKeeps ==
  ASSUME CoreInv, NEW t \in Threads, SlotOp(t)
  PROVE  CoreInv'
<1> USE DEF DAt, DGoto, threadVars
<1>0. DomainTypeOK /\ RecordInv /\ ControlInv /\ CountInv
  BY DEF CoreInv
<1>1. PICK s \in Slots, v \in Nodes \cup {Null} :
        rec[t] # 0 /\ slot' = [slot EXCEPT ![rec[t]][s] = v]
  BY <1>0 DEF SlotOp, ProtectPublish, GuardClear, ExitClear, ClearSlot, SetSlot,
       DomainTypeOK, ControlInv
<1>2. /\ rec[t] \in Records /\ active[rec[t]]
      /\ slot' \in [Records -> [Slots -> Nodes \cup {Null}]]
      /\ \A r \in Records : r # rec[t] => slot'[r] = slot[r]
      /\ \A q \in Slots : q # s => slot'[rec[t]][q] = slot[rec[t]][q]
      /\ slot'[rec[t]][s] = v
  BY <1>0, <1>1, DomainAssumption DEF DomainTypeOK, RecordInv, Records
<1>3. UNCHANGED <<nlinked, nrecords, active, orphans, retired, freed, rec, bag,
                  cur, ptr, hz, ndel, exiting>>
  BY DEF SlotOp, ProtectPublish, GuardClear, ExitClear, ClearSlot, SetSlot
<1>4. RecordInv'
  <2>1. \A r \in 1 .. nlinked : r \in Records
    BY <1>0, DomainAssumption DEF DomainTypeOK, Records
  <2> QED BY <1>0, <1>2, <1>3, <2>1 DEF RecordInv
<1>5. \A u \in Threads : u # t /\ rec[u] # 0 => slot'[rec[u]] = slot[rec[u]]
  BY <1>0, <1>2, DomainAssumption DEF RecordInv, DomainTypeOK, Records
<1>6. ASSUME ProtectPublish(t) \/ \E q \in Slots, w \in Nodes \cup {Null} : SetSlot(t, q, w)
      PROVE  DomainTypeOK' /\ ControlInv'
  <2>1. DomainTypeOK'
    BY <1>0, <1>2, <1>3, <1>6 DEF ProtectPublish, SetSlot, DomainTypeOK, DomainLabels
  <2>2. ControlInv'
    BY <1>0, <1>3, <1>5, <1>6 DEF ProtectPublish, SetSlot, DomainTypeOK, ControlInv
  <2> QED BY <2>1, <2>2
<1>7. ASSUME GuardClear(t) PROVE DomainTypeOK' /\ ControlInv'
  <2>1. DomainTypeOK'
    BY <1>0, <1>2, <1>3, <1>7, SlotNumbers
    DEF GuardClear, ClearSlot, DomainTypeOK, DomainLabels
  <2>2. ControlInv'
    BY <1>0, <1>3, <1>5, <1>7 DEF GuardClear, ClearSlot, DomainTypeOK, ControlInv
  <2> QED BY <2>1, <2>2
<1>8. ASSUME ExitClear(t) PROVE DomainTypeOK' /\ ControlInv'
  <2>1. DomainTypeOK'
    BY <1>0, <1>2, <1>3, <1>8, SlotNumbers
    DEF ExitClear, ClearSlot, DomainTypeOK, DomainLabels
  <2>2. \A q \in Slots : q <= k[t] => slot'[rec[t]][q] = Null
    <3>1. slot' = [slot EXCEPT ![rec[t]][k[t]] = Null] /\ dpc[t] = "wipe"
      BY <1>8 DEF ExitClear, ClearSlot
    <3>2. \A q \in Slots : q < k[t] => slot[rec[t]][q] = Null
      BY <1>0, <3>1 DEF ControlInv
    <3>3. /\ slot'[rec[t]][k[t]] = Null
          /\ \A q \in Slots : q # k[t] => slot'[rec[t]][q] = slot[rec[t]][q]
      BY <1>0, <1>2, <3>1 DEF DomainTypeOK
    <3>4. k[t] \in Slots
      BY <1>0 DEF DomainTypeOK
    <3> QED BY <3>2, <3>3, <3>4, SlotNumbers
  <2>3. /\ dpc'[t] = "wipe" => k'[t] = k[t] + 1
        /\ dpc'[t] = "release" => k[t] = LastSlot /\ k'[t] = 0
        /\ dpc'[t] \in {"wipe", "release"} /\ dpc[t] = "wipe"
    BY <1>0, <1>8 DEF ExitClear, ClearSlot, DomainTypeOK
  <2>4. /\ dpc'[t] = "wipe" => \A q \in Slots : q < k'[t] => slot'[rec[t]][q] = Null
        /\ dpc'[t] = "release" => \A q \in Slots : slot'[rec[t]][q] = Null
    BY <1>0, <2>2, <2>3, SlotNumbers DEF DomainTypeOK
  <2>5. \A u \in Threads : u # t => dpc'[u] = dpc[u] /\ k'[u] = k[u]
    BY <1>0, <1>8 DEF ExitClear, ClearSlot, DomainTypeOK
  <2>6. ControlInv'
    BY <1>0, <1>3, <1>5, <2>3, <2>4, <2>5 DEF ControlInv
  <2> QED BY <2>1, <2>6
<1>9. CountInv'
  <2>1. \A u \in Threads : /\ dpc'[u] = "link" <=> dpc[u] = "link"
                           /\ dpc'[u] = "walk" <=> dpc[u] = "walk"
                           /\ dpc[u] = "walk" => cur'[u] = cur[u]
    BY <1>0, <1>3 DEF DomainTypeOK, SlotOp, ProtectPublish, GuardClear, ExitClear,
         ClearSlot, SetSlot
  <2> QED BY <1>0, <1>3, <2>1, CountFrame
<1> QED BY <1>4, <1>6, <1>7, <1>8, <1>9 DEF SlotOp, CoreInv

\* The walk of acquire_record begins: t has passed no record yet.
LEMMA AcqStartKeeps ==
  ASSUME CoreInv, NEW t \in Threads, AcqStart(t)
  PROVE  CoreInv'
<1> USE DEF DAt, DGoto, sharedVars
<1>0. DomainTypeOK /\ RecordInv /\ ControlInv /\ CountInv
  BY DEF CoreInv
<1>1. DomainTypeOK' /\ RecordInv' /\ ControlInv'
  BY <1>0 DEF AcqStart, DomainTypeOK, DomainLabels, RecordInv, ControlInv
<1>2. Linking' = Linking
  BY <1>0 DEF AcqStart, Linking, DomainTypeOK
<1>3. nlinked \in Nat
  BY <1>0 DEF DomainTypeOK
<1>4. ASSUME NEW j \in 0 .. nlinked
      PROVE  Cardinality(Below(j)') + (nlinked - j) <= Cardinality(Threads)
  <2>1. CASE j = nlinked
    <3>1. Below(j)' \in SUBSET Threads
      BY DEF Below
    <3> QED BY <1>3, <2>1, <3>1, ThreadSets
  <2>2. CASE j # nlinked
    <3>1. Below(j)' = Below(j)
      BY <1>0, <1>3, <2>2 DEF AcqStart, Below, DomainTypeOK
    <3> QED BY <1>0, <3>1 DEF CountInv
  <2> QED BY <2>1, <2>2
<1>5. CountInv'
  BY <1>0, <1>2, <1>4 DEF AcqStart, CountInv
<1> QED BY <1>1, <1>5 DEF CoreInv

\* The walk passes a record that is in use, or takes one that is not.
LEMMA AcqTryKeeps ==
  ASSUME CoreInv, NEW t \in Threads, AcqTry(t)
  PROVE  CoreInv'
<1> USE DEF DAt, DGoto, Released
<1>0. DomainTypeOK /\ RecordInv /\ ControlInv /\ CountInv
  BY DEF CoreInv
<1>1. /\ cur[t] \in 1 .. nlinked /\ cur[t] \in Records /\ nlinked \in Nat
      /\ rec[t] = 0 /\ dpc[t] = "walk"
  BY <1>0, DomainAssumption DEF AcqTry, DomainTypeOK, RecordInv, ControlInv, Records
<1>2. CASE ~active[cur[t]]
  <2>1. /\ active' = [active EXCEPT ![cur[t]] = TRUE]
        /\ rec' = [rec EXCEPT ![t] = cur[t]]
        /\ cur' = [cur EXCEPT ![t] = 0]
        /\ dpc' = [dpc EXCEPT ![t] = "ready"]
        /\ UNCHANGED <<nlinked, nrecords, slot, orphans, retired, freed,
                       bag, k, ptr, hz, ndel, exiting>>
    BY <1>2 DEF AcqTry
  <2>2. DomainTypeOK'
    BY <1>0, <1>1, <2>1 DEF DomainTypeOK, DomainLabels
  <2>3. \A u \in Threads : u # t => rec[u] # cur[t]
    BY <1>0, <1>1, <1>2 DEF RecordInv
  <2>4. RecordInv'
    BY <1>0, <1>1, <2>1, <2>3 DEF RecordInv, DomainTypeOK, Records
  <2>5. ControlInv'
    BY <1>0, <1>1, <2>1 DEF ControlInv, DomainTypeOK
  <2>6. Linking' = Linking /\ \A j \in 0 .. nlinked : Below(j)' = Below(j)
    BY <1>0, <1>1, <2>1 DEF Linking, Below, DomainTypeOK
  <2>7. CountInv'
    BY <1>0, <2>1, <2>6 DEF CountInv
  <2> QED BY <2>2, <2>4, <2>5, <2>7 DEF CoreInv
<1>3. CASE active[cur[t]]
  <2>1. /\ cur' = [cur EXCEPT ![t] = cur[t] - 1]
        /\ UNCHANGED <<active, rec, dpc, nlinked, nrecords, slot, orphans,
                       retired, freed, bag, k, ptr, hz, ndel, exiting>>
    BY <1>3 DEF AcqTry
  <2>2. DomainTypeOK' /\ RecordInv' /\ ControlInv'
    <3>1. DomainTypeOK'
      BY <1>0, <1>1, <2>1, DomainAssumption DEF DomainTypeOK
    <3>2. \A u \in Threads : /\ u # t => cur'[u] = cur[u]
                             /\ cur'[u] <= nlinked
      BY <1>0, <1>1, <2>1 DEF DomainTypeOK, RecordInv
    <3>3. RecordInv'
      BY <1>0, <2>1, <3>2 DEF RecordInv
    <3>4. ControlInv'
      BY <1>0, <1>1, <2>1, <3>2 DEF ControlInv
    <3> QED BY <3>1, <3>3, <3>4
  <2>3. Linking' = Linking
    BY <2>1 DEF Linking
  <2>4. ASSUME NEW j \in 0 .. nlinked
        PROVE  Cardinality(Below(j)') + (nlinked - j) <= Cardinality(Threads)
    <3>1. CASE j # cur[t] - 1
      <4>1. Below(j)' = Below(j)
        BY <1>0, <1>1, <2>1, <3>1 DEF Below, DomainTypeOK
      <4> QED BY <1>0, <4>1 DEF CountInv
    <3>2. CASE j = cur[t] - 1
      \* The owner u of the record passed is below j + 1 and not below j.
      <4>1. PICK u \in Threads : rec[u] = cur[t]
        BY <1>0, <1>1, <1>3 DEF RecordInv
      <4>2. dpc[u] \notin {"walk", "link"}
        BY <1>0, <1>1, <4>1 DEF ControlInv
      <4>3. u \in Below(j + 1) /\ u \notin Below(j)'
        BY <1>1, <2>1, <3>2, <4>1, <4>2 DEF Below
      <4>4. Below(j)' \subseteq Below(j + 1)
        BY <1>0, <1>1, <2>1, <3>2 DEF Below, DomainTypeOK
      <4>5. Below(j + 1) \in SUBSET Threads
        BY DEF Below
      <4>6. Cardinality(Below(j)') < Cardinality(Below(j + 1))
        BY <4>3, <4>4, <4>5, SmallerSet
      <4>7. /\ Cardinality(Below(j)') \in Nat /\ Cardinality(Below(j + 1)) \in Nat
            /\ Cardinality(Threads) \in Nat
        BY <4>4, <4>5, ThreadSets
      <4>8. Cardinality(Below(j + 1)) + (nlinked - (j + 1)) <= Cardinality(Threads)
        BY <1>0, <1>1, <3>2 DEF CountInv
      <4> QED BY <1>1, <4>6, <4>7, <4>8
    <3> QED BY <3>1, <3>2
  <2>5. CountInv'
    BY <1>0, <2>1, <2>3, <2>4 DEF CountInv
  <2> QED BY <2>2, <2>5 DEF CoreInv
<1> QED BY <1>2, <1>3

\* A new record is counted before it is linked.
LEMMA AcqNewKeeps ==
  ASSUME CoreInv, NEW t \in Threads, AcqNew(t)
  PROVE  CoreInv'
<1> USE DEF DAt, DGoto
<1>0. DomainTypeOK /\ RecordInv /\ ControlInv /\ CountInv
  BY DEF CoreInv
<1>1. DomainTypeOK' /\ RecordInv' /\ ControlInv'
  BY <1>0 DEF AcqNew, DomainTypeOK, DomainLabels, RecordInv, ControlInv
<1>2. Linking' = Linking \cup {t} /\ t \notin Linking
  BY <1>0 DEF AcqNew, Linking, DomainTypeOK
<1>3. Cardinality(Linking') = Cardinality(Linking) + 1
  <2>1. IsFiniteSet(Linking)
    BY ThreadSets DEF Linking
  <2> QED BY <1>2, <2>1, FS_AddElement
<1>4. \A j \in 0 .. nlinked : Below(j)' = Below(j)
  BY <1>0 DEF AcqNew, Below, DomainTypeOK
<1>5. CountInv'
  <2>1. Cardinality(Linking) \in Nat
    BY ThreadSets DEF Linking
  <2> QED BY <1>0, <1>3, <1>4, <2>1, DomainAssumption
          DEF AcqNew, CountInv, DomainTypeOK
<1> QED BY <1>1, <1>5 DEF CoreInv

\* A linked record is t's own, and later than all others.
LEMMA AcqLinkKeeps ==
  ASSUME CoreInv, NEW t \in Threads, AcqLink(t)
  PROVE  CoreInv'
<1> USE DEF DAt, DGoto
<1>0. DomainTypeOK /\ RecordInv /\ ControlInv /\ CountInv
  BY DEF CoreInv
<1>1. /\ nlinked \in Nat /\ nlinked + 1 \in 0 .. MaxRecords
      /\ nlinked + 1 \in Records
      /\ dpc[t] = "link" /\ rec[t] = 0
  BY <1>0, RoomToLink, DomainAssumption
  DEF AcqLink, DomainTypeOK, ControlInv, Records
<1>2. /\ nlinked' = nlinked + 1
      /\ rec' = [rec EXCEPT ![t] = nlinked + 1]
      /\ dpc' = [dpc EXCEPT ![t] = "ready"]
      /\ active' = [active EXCEPT ![nlinked + 1] = TRUE]
      /\ slot' = [slot EXCEPT ![nlinked + 1] = [s \in Slots |-> Null]]
      /\ UNCHANGED <<nrecords, orphans, retired, freed, bag, cur, k, ptr, hz,
                     ndel, exiting>>
  BY DEF AcqLink
<1>3. DomainTypeOK'
  BY <1>0, <1>1, <1>2 DEF DomainTypeOK, DomainLabels
<1>4. /\ \A u \in Threads : u # t => rec'[u] = rec[u] /\ rec[u] <= nlinked
      /\ rec'[t] = nlinked + 1
      /\ \A u \in Threads : rec[u] \in Nat /\ cur[u] \in Nat /\ cur[u] <= nlinked
      /\ \A r \in 1 .. nlinked : active'[r] = active[r] /\ slot'[r] = slot[r]
      /\ active'[nlinked + 1] = TRUE
  <2>1. \A r \in 1 .. nlinked : r \in Records /\ r # nlinked + 1
    BY <1>1, DomainAssumption DEF Records
  <2>2. \A r \in 1 .. nlinked : active'[r] = active[r]
    BY <1>0, <1>1, <1>2, <2>1 DEF DomainTypeOK
  <2>3. \A r \in 1 .. nlinked : slot'[r] = slot[r]
    BY <1>0, <1>1, <1>2, <2>1 DEF DomainTypeOK
  <2>4. \A u \in Threads : /\ u # t => rec'[u] = rec[u] /\ rec[u] <= nlinked
                           /\ rec[u] \in Nat /\ cur[u] \in Nat /\ cur[u] <= nlinked
    BY <1>0, <1>1, <1>2, DomainAssumption DEF RecordInv, DomainTypeOK
  <2>5. active'[nlinked + 1] = TRUE /\ rec'[t] = nlinked + 1
    BY <1>0, <1>1, <1>2 DEF DomainTypeOK
  <2> QED BY <2>2, <2>3, <2>4, <2>5
<1>5. RecordInv'
  <2>1. \A u \in Threads : cur'[u] <= nlinked' /\ rec'[u] <= nlinked'
    BY <1>1, <1>2, <1>4
  <2>2. \A u, w \in Threads : rec'[u] = rec'[w] /\ rec'[u] # 0 => u = w
    BY <1>0, <1>1, <1>4 DEF RecordInv
  <2>3. \A u \in Threads : rec'[u] # 0 => active'[rec'[u]]
    <3> SUFFICES ASSUME NEW u \in Threads, rec'[u] # 0 PROVE active'[rec'[u]]
      OBVIOUS
    <3>1. CASE u = t
      BY <1>4, <3>1
    <3>2. CASE u # t
      <4>1. rec'[u] = rec[u] /\ rec[u] \in 1 .. nlinked
        BY <1>1, <1>4, <3>2
      <4> QED BY <1>0, <1>4, <4>1 DEF RecordInv
    <3> QED BY <3>1, <3>2
  <2>4. \A r \in 1 .. nlinked' : r \in 1 .. nlinked \/ r = nlinked + 1
    BY <1>1, <1>2
  <2>5. ASSUME NEW r \in 1 .. nlinked', active'[r]
        PROVE  \E u \in Threads : rec'[u] = r
    <3>1. CASE r = nlinked + 1
      BY <1>4, <3>1
    <3>2. CASE r \in 1 .. nlinked
      <4>1. PICK u \in Threads : rec[u] = r
        BY <1>0, <1>4, <2>5, <3>2 DEF RecordInv
      <4> QED BY <1>1, <1>4, <3>2, <4>1
    <3> QED BY <2>4, <3>1, <3>2
  <2>6. \A r \in 1 .. nlinked' : ~active'[r] => \A s \in Slots : slot'[r][s] = Null
    BY <1>0, <1>4, <2>4 DEF RecordInv
  <2> QED BY <2>1, <2>2, <2>3, <2>5, <2>6 DEF RecordInv
<1>6. ControlInv'
  <2>1. \A u \in Threads : u # t /\ rec[u] # 0 => slot'[rec[u]] = slot[rec[u]]
    BY <1>1, <1>4
  <2> QED BY <1>0, <1>1, <1>2, <1>4, <2>1 DEF ControlInv, DomainTypeOK
<1>7. Cardinality(Linking') = Cardinality(Linking) - 1
  <2>1. Linking' = Linking \ {t} /\ t \in Linking
    BY <1>0, <1>1, <1>2 DEF Linking, DomainTypeOK
  <2>2. IsFiniteSet(Linking)
    BY ThreadSets DEF Linking
  <2> QED BY <2>1, <2>2, FS_RemoveElement
<1>8. ASSUME NEW j \in 0 .. nlinked'
      PROVE  Cardinality(Below(j)') + (nlinked' - j) <= Cardinality(Threads)
  <2>0. Below(j)' \in SUBSET Threads /\ Below(j) \in SUBSET Threads
    BY DEF Below
  <2>1. /\ Cardinality(Below(j)') \in Nat /\ Cardinality(Below(j)) \in Nat
        /\ Cardinality(Threads) \in Nat
        /\ Cardinality(Below(j)') <= Cardinality(Threads)
    BY <2>0, ThreadSets
  <2>2. CASE j = nlinked + 1
    BY <1>1, <1>2, <2>1, <2>2
  <2>3. CASE j \in 0 .. nlinked
    <3>1. Below(j)' \subseteq Below(j) /\ t \in Below(j) \ Below(j)'
      BY <1>0, <1>1, <1>2, <1>4, <2>3 DEF Below, DomainTypeOK
    <3>2. Cardinality(Below(j)') < Cardinality(Below(j))
      BY <2>0, <3>1, SmallerSet
    <3>3. Cardinality(Below(j)) + (nlinked - j) <= Cardinality(Threads)
      BY <1>0, <2>3 DEF CountInv
    <3> QED BY <1>1, <1>2, <2>1, <2>3, <3>2, <3>3
  <2> QED BY <1>1, <1>2, <2>2, <2>3
<1>9. CountInv'
  <2>1. Cardinality(Linking) \in Nat
    BY ThreadSets DEF Linking
  <2> QED BY <1>0, <1>1, <1>2, <1>7, <1>8, <2>1 DEF CountInv
<1> QED BY <1>3, <1>5, <1>6, <1>9 DEF CoreInv

\* A released record has clear slots and no thread.
LEMMA ReleaseKeeps ==
  ASSUME CoreInv, NEW t \in Threads, ReleaseRecord(t)
  PROVE  CoreInv'
<1> USE DEF DAt, DGoto, Inactive
<1>0. DomainTypeOK /\ RecordInv /\ ControlInv /\ CountInv
  BY DEF CoreInv
<1>1. /\ rec[t] \in 1 .. nlinked /\ rec[t] \in Records /\ nlinked \in Nat
      /\ dpc[t] = "release" /\ \A s \in Slots : slot[rec[t]][s] = Null
  BY <1>0, DomainAssumption
  DEF ReleaseRecord, DomainTypeOK, RecordInv, ControlInv, Records
<1>2. /\ active' = [active EXCEPT ![rec[t]] = FALSE]
      /\ rec' = [rec EXCEPT ![t] = 0]
      /\ exiting' = [exiting EXCEPT ![t] = FALSE]
      /\ dpc' = [dpc EXCEPT ![t] = "ready"]
      /\ UNCHANGED <<nlinked, nrecords, slot, orphans, retired, freed,
                     bag, cur, k, ptr, hz, ndel>>
  BY DEF ReleaseRecord
<1>3. DomainTypeOK'
  BY <1>0, <1>1, <1>2, DomainAssumption DEF DomainTypeOK, DomainLabels
<1>4. /\ \A u \in Threads : u # t => rec'[u] = rec[u] /\ dpc'[u] = dpc[u]
                                       /\ exiting'[u] = exiting[u]
      /\ rec'[t] = 0 /\ dpc'[t] = "ready" /\ exiting'[t] = FALSE
      /\ \A r \in 1 .. nlinked : r # rec[t] => active'[r] = active[r]
      /\ active'[rec[t]] = FALSE
  BY <1>0, <1>1, <1>2 DEF DomainTypeOK, Records
<1>5. RecordInv'
  <2>1. \A u \in Threads : u # t /\ rec[u] # 0 => rec[u] # rec[t] /\ rec[u] \in 1 .. nlinked
    BY <1>0, <1>1 DEF RecordInv, DomainTypeOK
  <2>2. \A u \in Threads : rec'[u] # 0 => active'[rec'[u]]
    BY <1>0, <1>4, <2>1 DEF RecordInv
  <2>3. \A r \in 1 .. nlinked : active'[r] => \E u \in Threads : rec'[u] = r
    BY <1>0, <1>4 DEF RecordInv
  <2>4. \A u \in Threads : cur'[u] <= nlinked' /\ rec'[u] <= nlinked'
    BY <1>0, <1>1, <1>2, <1>4 DEF RecordInv
  <2>5. \A r \in 1 .. nlinked : ~active'[r] => \A s \in Slots : slot'[r][s] = Null
    BY <1>0, <1>1, <1>2, <1>4 DEF RecordInv
  <2>6. \A u, w \in Threads : rec'[u] = rec'[w] /\ rec'[u] # 0 => u = w
    BY <1>0, <1>4 DEF RecordInv
  <2> QED BY <1>2, <2>2, <2>3, <2>4, <2>5, <2>6 DEF RecordInv
<1>6. ControlInv'
  BY <1>0, <1>1, <1>2, <1>4 DEF ControlInv
<1>7. Linking' = Linking
  BY <1>1, <1>4 DEF Linking
<1>8. ASSUME NEW j \in 0 .. nlinked
      PROVE  Cardinality(Below(j)') + (nlinked - j) <= Cardinality(Threads)
  <2>1. Below(j)' \subseteq Below(j) /\ Below(j) \in SUBSET Threads
    BY <1>1, <1>2, <1>4 DEF Below
  <2>2. Cardinality(Below(j)') <= Cardinality(Below(j))
    BY <2>1, SmallerSet
  <2>3. /\ Cardinality(Below(j)') \in Nat /\ Cardinality(Below(j)) \in Nat
        /\ Cardinality(Threads) \in Nat
    BY <2>1, ThreadSets
  <2>4. Cardinality(Below(j)) + (nlinked - j) <= Cardinality(Threads)
    BY <1>0 DEF CountInv
  <2> QED BY <1>1, <2>2, <2>3, <2>4
<1>9. CountInv'
  BY <1>0, <1>2, <1>7, <1>8 DEF CountInv
<1> QED BY <1>3, <1>5, <1>6, <1>9 DEF CoreInv

\* Operations on bags, orphans and counters.
LEMMA BagKeeps ==
  ASSUME CoreInv, NEW t \in Threads, BagOp(t)
  PROVE  CoreInv'
<1> USE DEF DAt, DGoto, sharedVars
<1>0. DomainTypeOK /\ RecordInv /\ ControlInv /\ CountInv
  BY DEF CoreInv
<1>1. ASSUME ScanAdopt(t) PROVE DomainTypeOK' /\ RecordInv' /\ ControlInv'
  BY <1>0, <1>1 DEF ScanAdopt, Exchanged, AfterScan, DomainTypeOK, DomainLabels,
       RecordInv, ControlInv
<1>2. ASSUME ScanSlot(t) PROVE DomainTypeOK' /\ RecordInv' /\ ControlInv'
  <2>0. /\ dpc[t] = "slots" /\ cur[t] \in 1 .. MaxRecords /\ cur[t] \in Records
        /\ k[t] \in Slots /\ slot[cur[t]][k[t]] \in Nodes \cup {Null}
    BY <1>0, <1>2, DomainAssumption DEF ScanSlot, DomainTypeOK, ControlInv, Records
  <2>1. DomainTypeOK'
    BY <1>0, <1>2, <2>0, SlotNumbers, DomainAssumption
    DEF ScanSlot, DomainTypeOK, DomainLabels
  <2>2. \A u \in Threads : cur'[u] <= nlinked
    BY <1>0, <1>2, <2>0 DEF ScanSlot, DomainTypeOK, RecordInv
  <2>3. RecordInv'
    BY <1>0, <1>2, <2>2 DEF ScanSlot, RecordInv
  <2>4. /\ dpc'[t] = "slots" => cur'[t] # 0
        /\ dpc'[t] \in {"slots", "free"} /\ (dpc'[t] = "free" => k'[t] = 0)
    BY <1>0, <1>2, <2>0 DEF ScanSlot, DomainTypeOK
  <2>5. ControlInv'
    BY <1>0, <1>2, <2>0, <2>4 DEF ScanSlot, DomainTypeOK, ControlInv
  <2> QED BY <2>1, <2>3, <2>5
<1>3. ASSUME ScanEnd(t) PROVE DomainTypeOK' /\ RecordInv' /\ ControlInv'
  BY <1>0, <1>3 DEF ScanEnd, FreedNow, AfterScan, DomainTypeOK, DomainLabels,
       RecordInv, ControlInv
<1>4. ASSUME NEW m \in Nodes, Retire(t, m)
      PROVE  DomainTypeOK' /\ RecordInv' /\ ControlInv'
  BY <1>0, <1>4 DEF Retire, DomainTypeOK, DomainLabels, RecordInv, ControlInv
<1>5. ASSUME NEW m \in Nodes, ScanFree(t, m)
      PROVE  DomainTypeOK' /\ RecordInv' /\ ControlInv'
  BY <1>0, <1>5 DEF ScanFree, DomainTypeOK, DomainLabels, RecordInv, ControlInv
<1>6. ASSUME NEW m \in Nodes, PushOrphan(t, m)
      PROVE  DomainTypeOK' /\ RecordInv' /\ ControlInv'
  BY <1>0, <1>6 DEF PushOrphan, Pushed, DomainTypeOK, DomainLabels,
       RecordInv, ControlInv
<1>7. CountInv'
  <2> USE DEF BagOp, ScanAdopt, ScanSlot, ScanEnd, Retire, ScanFree, PushOrphan
  <2>1. UNCHANGED <<nlinked, nrecords, rec>>
    OBVIOUS
  <2>2. \A u \in Threads : /\ dpc'[u] = "link" <=> dpc[u] = "link"
                           /\ dpc'[u] = "walk" <=> dpc[u] = "walk"
                           /\ dpc[u] = "walk" => cur'[u] = cur[u]
    BY <1>0 DEF DomainTypeOK, AfterScan
  <2> QED BY <1>0, <2>1, <2>2, CountFrame
<1> QED BY <1>1, <1>2, <1>3, <1>4, <1>5, <1>6, <1>7 DEF BagOp, CoreInv

\* Every operation keeps types, records, control and counts.
LEMMA CoreKeeps ==
  ASSUME CoreInv, NEW t \in Threads, DomainOp(t)
  PROVE  CoreInv'
BY LocalKeeps, SlotKeeps, AcqStartKeeps, AcqTryKeeps, AcqNewKeeps,
   AcqLinkKeeps, ReleaseKeeps, BagKeeps DEF DomainOp, RecordOp

\* The domain before any thread has used it.
LEMMA CoreInit == DomainInit => CoreInv /\ BagsInv
<1> SUFFICES ASSUME DomainInit PROVE CoreInv /\ BagsInv
  OBVIOUS
<1>1. DomainTypeOK
  BY SlotNumbers, DomainAssumption DEF DomainInit, DomainTypeOK, DomainLabels
<1>2. RecordInv /\ ControlInv
  BY SlotNumbers DEF DomainInit, RecordInv, ControlInv
<1>3. CountInv
  <2>1. Linking = {} /\ Below(0) \in SUBSET Threads
    BY DEF Linking, Below, DomainInit
  <2>2. Cardinality(Linking) = 0
    BY <2>1, FS_EmptySet
  <2>3. Cardinality(Below(0)) \in Nat /\ Cardinality(Below(0)) <= Cardinality(Threads)
    BY <2>1, ThreadSets
  <2>4. nlinked = 0 /\ nrecords = 0
    BY DEF DomainInit
  <2>5. \A j \in 0 .. nlinked : j = 0
    BY <2>4
  <2> QED BY <2>2, <2>3, <2>4, <2>5, DomainAssumption DEF CountInv
<1>4. BagsInv
  BY DEF DomainInit, BagsInv
<1> QED BY <1>1, <1>2, <1>3, <1>4 DEF CoreInv

-----------------------------------------------------------------------------
(* The bags.                                                               *)

\* Only these operations move retired nodes.
MovesNodes(t) ==
  \/ ScanAdopt(t)
  \/ \E m \in Nodes : Retire(t, m) \/ ScanFree(t, m) \/ PushOrphan(t, m)

\* The others leave bags and orphans alone.
LEMMA BagsFrame ==
  ASSUME NEW t \in Threads, DomainOp(t), ~MovesNodes(t)
  PROVE  UNCHANGED <<bag, orphans>>
BY DEF DomainOp, LocalOp, SlotOp, RecordOp, BagOp, MovesNodes,
   ProtectLoad, ProtectReturn, ProtectRetry, GuardEnd, Drain, RetireCheck,
   ScanStart, ThreadExit, OrphansDone, ProtectPublish, GuardClear, ExitClear,
   ClearSlot, SetSlot, AcqStart, AcqTry, AcqNew, AcqLink, ReleaseRecord,
   ScanSlot, ScanEnd, sharedVars, threadVars

\* A thread that moves nodes touches its own bag only.
LEMMA OwnBag ==
  ASSUME DomainTypeOK, NEW t \in Threads, DomainOp(t)
  PROVE  \A u \in Threads \ {t} : bag'[u] = bag[u]
<1>1. CASE MovesNodes(t)
  BY <1>1 DEF MovesNodes, ScanAdopt, Retire, ScanFree, PushOrphan, DomainTypeOK
<1>2. CASE ~MovesNodes(t)
  BY <1>2, BagsFrame
<1> QED BY <1>1, <1>2

\* Waiting by its members.
LEMMA WaitingIs ==
  /\ \A m : m \in Waiting <=> m \in orphans \/ \E u \in Threads : m \in bag[u]
  /\ \A m : m \in Waiting' <=> m \in orphans' \/ \E u \in Threads : m \in bag'[u]
BY DEF Waiting

\* adopt_orphans takes every orphan, and nothing else changes hands.
LEMMA AdoptBags ==
  ASSUME DomainTypeOK, BagsInv, NEW t \in Threads, ScanAdopt(t)
  PROVE  BagsInv' /\ Waiting' = Waiting
<1>1. /\ bag'[t] = bag[t] \cup orphans /\ orphans' = {}
      /\ \A u \in Threads \ {t} : bag'[u] = bag[u]
  BY DEF ScanAdopt, Exchanged, DomainTypeOK
<1>2. BagsInv'
  BY <1>1 DEF BagsInv
<1>3. \A m : m \in Waiting' <=> m \in Waiting
  BY <1>1, WaitingIs
<1> QED BY <1>2, <1>3

\* push_orphan moves one node from t's bag to the stack.
LEMMA OrphanBags ==
  ASSUME DomainTypeOK, BagsInv, NEW t \in Threads, NEW m \in Nodes,
         PushOrphan(t, m)
  PROVE  BagsInv' /\ Waiting' = Waiting
<1>1. /\ bag'[t] = bag[t] \ {m} /\ orphans' = orphans \cup {m} /\ m \in bag[t]
      /\ \A u \in Threads \ {t} : bag'[u] = bag[u]
  BY DEF PushOrphan, Pushed, DomainTypeOK
<1>2. BagsInv'
  BY <1>1 DEF BagsInv
<1>3. \A x : x \in Waiting' <=> x \in Waiting
  BY <1>1, WaitingIs
<1> QED BY <1>2, <1>3

\* retire adds a node that was not retired before.
LEMMA RetireBags ==
  ASSUME DomainTypeOK, BagsInv, NEW t \in Threads, NEW m \in Nodes,
         Retire(t, m), m \notin Waiting
  PROVE  BagsInv' /\ Waiting' = Waiting \cup {m}
<1>1. /\ bag'[t] = bag[t] \cup {m} /\ orphans' = orphans
      /\ \A u \in Threads \ {t} : bag'[u] = bag[u]
  BY DEF Retire, DomainTypeOK
<1>2. m \notin orphans /\ \A u \in Threads : m \notin bag[u]
  BY WaitingIs
<1>3. BagsInv'
  BY <1>1, <1>2 DEF BagsInv
<1>4. \A x : x \in Waiting' <=> x \in Waiting \cup {m}
  BY <1>1, WaitingIs
<1> QED BY <1>3, <1>4

\* A scan frees a node of its own bag, which is then nowhere.
LEMMA FreeBags ==
  ASSUME DomainTypeOK, BagsInv, NEW t \in Threads, NEW m \in Nodes,
         ScanFree(t, m)
  PROVE  BagsInv' /\ Waiting' = Waiting \ {m} /\ m \in Waiting
<1>1. /\ bag'[t] = bag[t] \ {m} /\ orphans' = orphans /\ m \in bag[t]
      /\ \A u \in Threads \ {t} : bag'[u] = bag[u]
  BY DEF ScanFree, sharedVars, DomainTypeOK
<1>2. m \notin orphans /\ \A u \in Threads \ {t} : m \notin bag[u]
  BY <1>1 DEF BagsInv
<1>3. BagsInv'
  BY <1>1 DEF BagsInv
<1>4. \A x : x \in Waiting' <=> x \in Waiting \ {m}
  BY <1>1, <1>2, WaitingIs
<1>5. m \in Waiting
  BY <1>1, WaitingIs
<1> QED BY <1>3, <1>4, <1>5

\* Steps inside the domain only move retired nodes around.
LEMMA StepBags ==
  ASSUME DomainTypeOK, BagsInv, NEW t \in Threads, DomainOp(t),
         \A m \in Nodes : ~Retire(t, m) /\ ~ScanFree(t, m)
  PROVE  BagsInv' /\ Waiting' = Waiting
<1>1. CASE MovesNodes(t)
  BY <1>1, AdoptBags, OrphanBags DEF MovesNodes
<1>2. CASE ~MovesNodes(t)
  <2>1. UNCHANGED <<bag, orphans>>
    BY <1>2, BagsFrame
  <2> QED BY <2>1 DEF BagsInv, Waiting
<1> QED BY <1>1, <1>2

-----------------------------------------------------------------------------
(* What scans spare.                                                       *)

\* A scan never forgets a hazard that was published before it read the slot:
\* whatever any thread does, a node that slot s of record r names stays
\* spared.
LEMMA SparesKeep ==
  ASSUME CoreInv, NEW t \in Threads, DomainOp(t),
         NEW u \in Threads, NEW r \in 1 .. nlinked, NEW s \in Slots,
         NEW m \in Nodes, slot[r][s] = m, Spares(u, r, s, m)
  PROVE  Spares(u, r, s, m)'
<1> USE DEF DAt, DGoto, sharedVars, threadVars
<1>0. DomainTypeOK /\ RecordInv /\ ControlInv
  BY DEF CoreInv
<1>1. CASE u # t
  <2>1. /\ bag'[u] = bag[u] /\ dpc'[u] = dpc[u] /\ hz'[u] = hz[u]
        /\ cur'[u] = cur[u] /\ k'[u] = k[u]
    <3>1. bag'[u] = bag[u]
      BY <1>0, <1>1, OwnBag
    <3>2. CASE LocalOp(t)
      BY <1>0, <1>1, <3>1, <3>2 DEF DomainTypeOK, LocalOp, ProtectLoad,
         ProtectReturn, ProtectRetry, GuardEnd, Drain, RetireCheck, ScanStart,
         ThreadExit, OrphansDone
    <3>3. CASE SlotOp(t)
      BY <1>0, <1>1, <3>1, <3>3 DEF DomainTypeOK, SlotOp, ProtectPublish,
         GuardClear, ExitClear, ClearSlot, SetSlot
    <3>4. CASE RecordOp(t)
      BY <1>0, <1>1, <3>1, <3>4 DEF DomainTypeOK, RecordOp, AcqStart, AcqTry,
         AcqNew, AcqLink, ReleaseRecord
    <3>5. CASE BagOp(t)
      BY <1>0, <1>1, <3>1, <3>5 DEF DomainTypeOK, BagOp, ScanAdopt, ScanSlot,
         ScanEnd, Retire, ScanFree, PushOrphan
    <3> QED BY <3>2, <3>3, <3>4, <3>5 DEF DomainOp
  <2> QED BY <2>1 DEF Spares
<1>2. CASE u = t
  <2>1. CASE ScanSlot(t)
    \* Reading the slot puts m into the snapshot.
    <3>0. /\ m # Null /\ cur[t] \in Nat /\ k[t] \in Slots /\ s \in Int
          /\ bag'[t] = bag[t] /\ dpc[t] = "slots"
      BY <1>0, <2>1, SlotNumbers, DomainAssumption DEF ScanSlot, DomainTypeOK
    <3>num. /\ k[t] \in Int /\ LastSlot \in Int /\ r \in Int
           /\ 0 <= k[t] /\ k[t] <= LastSlot /\ 0 <= s /\ s <= LastSlot
      <4>1. LastSlot \in Int
        BY SlotNumbers
      <4>2. k[t] \in Int /\ 0 <= k[t] /\ k[t] <= LastSlot
        BY <3>0, SlotNumbers
      <4>3. 0 <= s /\ s <= LastSlot /\ r \in Int
        BY SlotNumbers
      <4> QED BY <4>1, <4>2, <4>3
    <3>1. CASE m \in bag[t] /\ m \notin hz[t] /\ r = cur[t] /\ k[t] = s
      BY <1>0, <1>2, <2>1, <3>0, <3>1 DEF Spares, ScanSlot, DomainTypeOK
    <3>2. CASE m \in bag[t] /\ m \notin hz[t] /\ ~(r = cur[t] /\ k[t] = s)
      <4>1. r < cur[t] \/ (r = cur[t] /\ k[t] < s)
        BY <1>2, <3>0, <3>num, <3>2 DEF Spares
      <4>2. CASE r = cur[t] /\ k[t] < s
        <5>1. k[t] # LastSlot /\ k'[t] = k[t] + 1 /\ cur'[t] = cur[t] /\ dpc'[t] = "slots"
          BY <1>0, <2>1, <3>0, <4>2, SlotNumbers DEF ScanSlot, DomainTypeOK
        <5>2. k'[t] <= s
          BY <3>0, <3>num, <4>2, <5>1
        <5> QED BY <1>2, <4>2, <5>1, <5>2 DEF Spares
      <4>3. CASE r < cur[t]
        <5>1. CASE k[t] = LastSlot
          <6>1. cur[t] # 1 /\ k'[t] = 0 /\ cur'[t] = cur[t] - 1 /\ dpc'[t] = "slots"
            BY <1>0, <2>1, <3>0, <4>3, <5>1 DEF ScanSlot, DomainTypeOK
          <6>2. r < cur'[t] \/ (r = cur'[t] /\ k'[t] <= s)
            BY <3>0, <4>3, <6>1, SlotNumbers
          <6> QED BY <1>2, <6>1, <6>2 DEF Spares
        <5>2. CASE k[t] # LastSlot
          BY <1>0, <1>2, <2>1, <4>3, <5>2 DEF Spares, ScanSlot, DomainTypeOK
        <5> QED BY <5>1, <5>2
      <4> QED BY <4>1, <4>2, <4>3
    <3>3. CASE m \notin bag[t] \/ m \in hz[t]
      BY <1>0, <1>2, <2>1, <3>0, <3>3 DEF Spares, ScanSlot, DomainTypeOK
    <3> QED BY <3>1, <3>2, <3>3
  <2>2. CASE ScanStart(t)
    <3>1. /\ dpc'[t] = "slots" /\ cur'[t] = nlinked /\ k'[t] = 0
      BY <1>0, <2>2 DEF ScanStart, DomainTypeOK, ControlInv
    <3> QED BY <1>0, <1>2, <3>1, SlotNumbers DEF Spares, DomainTypeOK
  <2>3. CASE \E x \in Nodes : ScanFree(t, x)
    BY <1>0, <1>2, <2>3 DEF Spares, ScanFree, DomainTypeOK
  <2>4. CASE ~ScanSlot(t) /\ ~ScanStart(t) /\ ~\E x \in Nodes : ScanFree(t, x)
    <3>1. dpc'[t] \notin {"slots", "free"}
      <4>1. CASE LocalOp(t)
        BY <1>0, <2>4, <4>1 DEF DomainTypeOK, LocalOp, ProtectLoad,
           ProtectReturn, ProtectRetry, GuardEnd, Drain, RetireCheck,
           ThreadExit, OrphansDone
      <4>2. CASE SlotOp(t)
        BY <1>0, <4>2 DEF DomainTypeOK, SlotOp, ProtectPublish,
           GuardClear, ExitClear, ClearSlot, SetSlot
      <4>3. CASE RecordOp(t)
        BY <1>0, <4>3 DEF DomainTypeOK, RecordOp, AcqStart, AcqTry,
           AcqNew, AcqLink, ReleaseRecord
      <4>4. CASE BagOp(t)
        BY <1>0, <2>4, <4>4 DEF DomainTypeOK, BagOp, ScanAdopt, ScanEnd,
           AfterScan, Retire, PushOrphan
      <4> QED BY <4>1, <4>2, <4>3, <4>4 DEF DomainOp
    <3> QED BY <1>2, <3>1 DEF Spares
  <2> QED BY <2>1, <2>2, <2>3, <2>4
<1> QED BY <1>1, <1>2

\* A spared node is not freed.
LEMMA SparedNotFreed ==
  ASSUME NEW t \in Threads, NEW r, NEW s, NEW m, Spares(t, r, s, m)
  PROVE  ~ScanFree(t, m)
BY DEF Spares, ScanFree, DAt

\* A node that was not retired is spared by everybody.
LEMMA SparesFresh ==
  ASSUME NEW m, m \notin Waiting
  PROVE  \A u \in Threads : \A r, s : Spares(u, r, s, m)
BY WaitingIs DEF Spares

\* Nobody but t changes the slots of t's record or takes it away.
LEMMA OthersSlots ==
  ASSUME CoreInv, NEW t \in Threads, DomainOp(t), NEW u \in Threads, u # t
  PROVE  /\ rec'[u] = rec[u] /\ dpc'[u] = dpc[u] /\ k'[u] = k[u]
         /\ ptr'[u] = ptr[u] /\ exiting'[u] = exiting[u]
         /\ rec[u] # 0 => slot'[rec[u]] = slot[rec[u]]
<1> USE DEF DAt, DGoto, sharedVars, threadVars
<1>0. DomainTypeOK /\ RecordInv /\ ControlInv /\ CountInv
  BY DEF CoreInv
<1>1. CASE LocalOp(t)
  BY <1>0, <1>1 DEF DomainTypeOK, LocalOp, ProtectLoad, ProtectReturn,
     ProtectRetry, GuardEnd, Drain, RetireCheck, ScanStart, ThreadExit, OrphansDone
<1>2. CASE SlotOp(t)
  <2>1. PICK s \in Slots, v \in Nodes \cup {Null} :
          rec[t] # 0 /\ slot' = [slot EXCEPT ![rec[t]][s] = v]
    BY <1>0, <1>2 DEF SlotOp, ProtectPublish, GuardClear, ExitClear, ClearSlot,
         SetSlot, DomainTypeOK, ControlInv
  <2>2. rec[u] # 0 => slot'[rec[u]] = slot[rec[u]]
    BY <1>0, <2>1, DomainAssumption DEF DomainTypeOK, RecordInv, Records
  <2> QED BY <1>0, <1>2, <2>2 DEF DomainTypeOK, SlotOp, ProtectPublish,
          GuardClear, ExitClear, ClearSlot, SetSlot
<1>3. CASE AcqLink(t)
  <2>1. nlinked < MaxRecords
    BY <1>0, <1>3, RoomToLink DEF AcqLink
  <2>2. rec[u] # 0 => rec[u] \in Records /\ rec[u] # nlinked + 1
    BY <1>0, DomainAssumption DEF DomainTypeOK, RecordInv, Records
  <2> QED BY <1>0, <1>3, <2>1, <2>2 DEF AcqLink, DomainTypeOK
<1>4. CASE RecordOp(t) /\ ~AcqLink(t)
  BY <1>0, <1>4 DEF DomainTypeOK, RecordOp, AcqStart, AcqTry, AcqNew, ReleaseRecord
<1>5. CASE BagOp(t)
  BY <1>0, <1>5 DEF DomainTypeOK, BagOp, ScanAdopt, ScanSlot, ScanEnd, Retire,
     ScanFree, PushOrphan
<1> QED BY <1>1, <1>2, <1>3, <1>4, <1>5 DEF DomainOp

\* Records are never unlinked.
LEMMA ListGrows ==
  ASSUME DomainTypeOK, NEW t \in Threads, DomainOp(t)
  PROVE  nlinked' >= nlinked /\ nlinked \in Nat /\ nrecords' >= nrecords
<1>1. nlinked' \in {nlinked, nlinked + 1} /\ nrecords' \in {nrecords, nrecords + 1}
  BY DEF DomainOp, LocalOp, SlotOp, RecordOp, BagOp, MovesNodes,
   ProtectLoad, ProtectReturn, ProtectRetry, GuardEnd, Drain, RetireCheck,
   ScanStart, ThreadExit, OrphansDone, ProtectPublish, GuardClear, ExitClear,
   ClearSlot, SetSlot, AcqStart, AcqTry, AcqNew, AcqLink, ReleaseRecord,
   ScanAdopt, ScanSlot, ScanEnd, Retire, ScanFree, PushOrphan, sharedVars, threadVars
<1> QED BY <1>1 DEF DomainTypeOK

-----------------------------------------------------------------------------
(* How many records and how much garbage.                                  *)

\* There are never more records than threads.
LEMMA RecordsFew ==
  ASSUME CoreInv
  PROVE  nrecords <= Cardinality(Threads)
<1>1. DomainTypeOK /\ CountInv
  BY DEF CoreInv
<1>2. Linking \subseteq Below(0) /\ Below(0) \in SUBSET Threads
  BY DEF Linking, Below
<1>3. Cardinality(Linking) <= Cardinality(Below(0))
  BY <1>2, SmallerSet
<1>4. /\ Cardinality(Linking) \in Nat /\ Cardinality(Below(0)) \in Nat
      /\ Cardinality(Threads) \in Nat
  BY <1>2, ThreadSets
<1>5. nlinked \in Nat /\ 0 \in 0 .. nlinked
  BY <1>1, DomainAssumption DEF DomainTypeOK
<1>6. Cardinality(Below(0)) + nlinked <= Cardinality(Threads)
  BY <1>1, <1>4, <1>5 DEF CountInv
<1> QED BY <1>1, <1>3, <1>4, <1>5, <1>6 DEF CountInv

\* The threshold is positive, grows with the records, and is above what the
\* slots of all records can name.
LEMMA Threshold ==
  ASSUME CoreInv
  PROVE  /\ scan_threshold \in Nat /\ scan_threshold > 0
         /\ nrecords' \in Nat /\ nrecords' >= nrecords =>
              scan_threshold' \in Nat /\ scan_threshold' >= scan_threshold
         /\ ScanFactor > K => K * nlinked \in Nat /\ K * nlinked < scan_threshold
<1>1. /\ nrecords \in Nat /\ nlinked \in Nat /\ nlinked <= nrecords
  <2>1. Cardinality(Linking) \in Nat
    BY ThreadSets DEF Linking
  <2> QED BY <2>1, DomainAssumption DEF CoreInv, CountInv, DomainTypeOK
<1>2. K \in Nat /\ K > 0 /\ ScanMin \in Nat /\ ScanMin > 0 /\ ScanFactor \in Nat
  BY DomainAssumption
<1>3. \A a, b \in Nat : a <= b => ScanFactor * a \in Nat /\ ScanFactor * a <= ScanFactor * b
  BY <1>2
<1>4. /\ scan_threshold \in Nat /\ scan_threshold > 0
      /\ scan_threshold >= ScanFactor * nrecords
  BY <1>1, <1>2, <1>3 DEF scan_threshold
<1>5. ASSUME nrecords' \in Nat, nrecords' >= nrecords
      PROVE  scan_threshold' \in Nat /\ scan_threshold' >= scan_threshold
  <2>1. /\ ScanFactor * nrecords \in Nat /\ ScanFactor * nrecords' \in Nat
        /\ ScanFactor * nrecords <= ScanFactor * nrecords'
    BY <1>1, <1>3, <1>5
  <2> QED BY <1>2, <2>1 DEF scan_threshold
<1>6. ASSUME ScanFactor > K PROVE K * nlinked \in Nat /\ K * nlinked < scan_threshold
  <2>1. K * nlinked \in Nat
    BY <1>1, <1>2
  <2>2. CASE nlinked = 0
    BY <1>2, <1>4, <2>2
  <2>3. CASE nlinked # 0
    <3>1. K * nlinked < ScanFactor * nlinked
      BY <1>1, <1>2, <1>6, <2>3
    <3>2. ScanFactor * nlinked <= ScanFactor * nrecords /\ ScanFactor * nrecords \in Nat
      BY <1>1, <1>3
    <3>3. ScanFactor * nlinked \in Nat
      BY <1>1, <1>3
    <3> QED BY <1>4, <2>1, <3>1, <3>2, <3>3
  <2> QED BY <2>1, <2>2, <2>3
<1> QED BY <1>4, <1>5, <1>6

\* Other threads' bounds survive an operation of t: the list only grows.
LEMMA OthersBounded ==
  ASSUME CoreInv, NEW t \in Threads, DomainOp(t), NEW u \in Threads, u # t,
         Bounded(u)
  PROVE  Bounded(u)'
<1>0. DomainTypeOK /\ DomainTypeOK' /\ RecordInv
  BY CoreKeeps DEF CoreInv
<1>1. bag'[u] = bag[u] /\ dpc'[u] = dpc[u] /\ k'[u] = k[u]
  BY <1>0, OwnBag, OthersSlots
<1>2. hz'[u] = hz[u] /\ cur'[u] = cur[u]
  <2> USE DEF sharedVars, threadVars
  <2>1. CASE LocalOp(t)
    BY <1>0, <2>1 DEF DomainTypeOK, LocalOp, ProtectLoad,
       ProtectReturn, ProtectRetry, GuardEnd, Drain, RetireCheck, ScanStart,
       ThreadExit, OrphansDone
  <2>2. CASE SlotOp(t)
    BY <2>2 DEF SlotOp, ProtectPublish, GuardClear, ExitClear, ClearSlot, SetSlot
  <2>3. CASE RecordOp(t)
    BY <1>0, <2>3 DEF DomainTypeOK, RecordOp, AcqStart, AcqTry,
       AcqNew, AcqLink, ReleaseRecord
  <2>4. CASE BagOp(t)
    BY <1>0, <2>4 DEF DomainTypeOK, BagOp, ScanAdopt, ScanSlot,
       ScanEnd, Retire, ScanFree, PushOrphan
  <2> QED BY <2>1, <2>2, <2>3, <2>4 DEF DomainOp
<1>3. /\ nlinked \in Nat /\ nlinked' \in Nat /\ nlinked' >= nlinked
      /\ nrecords' \in Nat /\ nrecords' >= nrecords
      /\ cur[u] \in Nat /\ cur[u] <= nlinked /\ k[u] \in Int
  BY <1>0, ListGrows, SlotNumbers, DomainAssumption DEF DomainTypeOK, RecordInv
<1>4. scan_threshold' \in Nat /\ scan_threshold' >= scan_threshold /\ scan_threshold \in Nat
  BY <1>3, Threshold
<1>5. \A a, b \in Nat : a <= b => K * a \in Nat /\ K * a <= K * b
  BY DomainAssumption
<1>6. /\ K * (nlinked - cur[u]) \in Nat /\ K * (nlinked' - cur[u]) \in Nat
      /\ K * (nlinked - cur[u]) <= K * (nlinked' - cur[u])
      /\ K * nlinked \in Nat /\ K * nlinked' \in Nat /\ K * nlinked <= K * nlinked'
  BY <1>3, <1>5
<1>7. Cardinality(bag[u]) \in Nat /\ Cardinality(hz[u]) \in Nat
  BY FS_CardinalityType DEF Bounded
<1> QED BY <1>1, <1>2, <1>3, <1>4, <1>6, <1>7 DEF Bounded

\* A scan keeps what its snapshot names, and that is below the threshold.
LEMMA ScanBounded ==
  ASSUME CoreInv, BoundInv, ScanFactor > K, NEW t \in Threads,
         ScanStart(t) \/ ScanSlot(t) \/ ScanEnd(t)
  PROVE  Bounded(t)'
<1> USE DEF DAt, DGoto, sharedVars
<1>0. /\ DomainTypeOK /\ RecordInv /\ ControlInv /\ Bounded(t)
      /\ IsFiniteSet(bag[t]) /\ IsFiniteSet(hz[t])
      /\ K \in Nat /\ K > 0
  BY DomainAssumption DEF CoreInv, BoundInv, Bounded
<1>1. /\ nlinked \in Nat /\ cur[t] \in Nat /\ cur[t] <= nlinked
      /\ k[t] \in Int /\ 0 <= k[t] /\ k[t] <= K - 1 /\ LastSlot = K - 1
      /\ Cardinality(hz[t]) \in Nat
  <2>1. k[t] \in Slots
    BY <1>0 DEF DomainTypeOK
  <2> QED BY <1>0, <2>1, FS_CardinalityType DEF DomainTypeOK, RecordInv, Slots, LastSlot
<1>2. CASE ScanStart(t)
  <2>1. /\ hz'[t] = {} /\ bag'[t] = bag[t] /\ cur'[t] = nlinked /\ k'[t] = 0
        /\ nlinked' = nlinked /\ dpc'[t] \in {"slots", "free"}
    BY <1>0, <1>2 DEF ScanStart, DomainTypeOK, ControlInv
  <2>2. K * nlinked \in Nat /\ K * (nlinked - nlinked) = 0
    BY <1>0, <1>1
  <2> QED BY <1>0, <1>1, <2>1, <2>2, FS_EmptySet DEF Bounded
<1>3. CASE ScanSlot(t)
  <2>1. /\ bag'[t] = bag[t] /\ nlinked' = nlinked /\ dpc[t] = "slots"
        /\ dpc'[t] \in {"slots", "free"} /\ cur[t] # 0
        /\ hz'[t] = hz[t] \cup ({slot[cur[t]][k[t]]} \ {Null})
    BY <1>0, <1>3 DEF ScanSlot, DomainTypeOK, ControlInv
  <2>2. /\ IsFiniteSet(hz'[t]) /\ Cardinality(hz'[t]) \in Nat
        /\ Cardinality(hz'[t]) <= Cardinality(hz[t]) + 1
    <3>1. hz'[t] \in {hz[t], hz[t] \cup {slot[cur[t]][k[t]]}}
      BY <2>1
    <3>2. /\ IsFiniteSet(hz[t] \cup {slot[cur[t]][k[t]]})
          /\ \/ Cardinality(hz[t] \cup {slot[cur[t]][k[t]]}) = Cardinality(hz[t])
             \/ Cardinality(hz[t] \cup {slot[cur[t]][k[t]]}) = Cardinality(hz[t]) + 1
      BY <1>0, FS_AddElement
    <3>3. CASE hz'[t] = hz[t]
      BY <1>0, <1>1, <3>3
    <3>4. CASE hz'[t] = hz[t] \cup {slot[cur[t]][k[t]]}
      <4>1. Cardinality(hz'[t]) \in {Cardinality(hz[t]), Cardinality(hz[t]) + 1}
        BY <3>2, <3>4
      <4> QED BY <1>1, <3>2, <3>4, <4>1
    <3> QED BY <3>1, <3>3, <3>4
  <2>3. Cardinality(hz[t]) <= K * (nlinked - cur[t]) + k[t]
    BY <1>0, <2>1 DEF Bounded
  <2>4. K * (nlinked - cur[t]) \in Nat
    BY <1>0, <1>1
  <2>5. CASE k[t] # LastSlot
    <3>1. k'[t] = k[t] + 1 /\ cur'[t] = cur[t] /\ dpc'[t] = "slots"
      BY <1>0, <1>3, <2>5 DEF ScanSlot, DomainTypeOK
    <3> QED BY <1>0, <1>1, <2>1, <2>2, <2>3, <2>4, <3>1 DEF Bounded
  <2>6. CASE k[t] = LastSlot
    <3>1. k'[t] = 0 /\ cur'[t] = cur[t] - 1 /\ (dpc'[t] = "free" => cur[t] = 1)
      BY <1>0, <1>3, <2>6 DEF ScanSlot, DomainTypeOK
    <3>2. K * (nlinked - (cur[t] - 1)) = K * (nlinked - cur[t]) + K
      BY <1>0, <1>1
    <3>3. Cardinality(hz'[t]) <= K * (nlinked - (cur[t] - 1))
      BY <1>0, <1>1, <2>2, <2>3, <2>4, <2>6, <3>2
    <3>4. cur[t] = 1 => nlinked - (cur[t] - 1) = nlinked
      BY <1>1
    <3>5. dpc'[t] = "free" => Cardinality(hz'[t]) <= K * nlinked
      BY <3>1, <3>3, <3>4
    <3>6. K * (nlinked - (cur[t] - 1)) + 0 = K * (nlinked - (cur[t] - 1))
      BY <1>0, <1>1
    <3> QED BY <1>0, <2>1, <2>2, <3>1, <3>3, <3>5, <3>6 DEF Bounded
  <2> QED BY <2>5, <2>6
<1>4. CASE ScanEnd(t)
  <2>1. /\ dpc[t] = "free" /\ hz'[t] = {} /\ bag'[t] = bag[t] /\ bag[t] \subseteq hz[t]
        /\ nrecords' = nrecords /\ dpc'[t] \notin {"slots", "free"}
    BY <1>0, <1>4 DEF ScanEnd, AfterScan, DomainTypeOK
  <2>2. Cardinality(bag[t]) <= Cardinality(hz[t]) /\ Cardinality(bag[t]) \in Nat
    BY <1>0, <2>1, FS_Subset, FS_CardinalityType
  <2>3. Cardinality(hz[t]) <= K * nlinked
    BY <1>0, <2>1 DEF Bounded
  <2>4. K * nlinked \in Nat /\ K * nlinked < scan_threshold /\ scan_threshold \in Nat
    BY Threshold
  <2>5. scan_threshold' = scan_threshold
    BY <2>1 DEF scan_threshold
  <2>6. Cardinality(bag[t]) < scan_threshold
    BY <1>1, <2>2, <2>3, <2>4
  <2> QED BY <1>0, <2>1, <2>5, <2>6, FS_EmptySet DEF Bounded
<1> QED BY <1>2, <1>3, <1>4

\* The other operations: the bag grows only where a threshold check follows.
LEMMA BoundKeeps ==
  ASSUME CoreInv, BoundInv, ScanFactor > K, NEW t \in Threads, DomainOp(t)
  PROVE  BoundInv'
<1> USE DEF DAt, DGoto, sharedVars, threadVars
<1>0. /\ DomainTypeOK /\ RecordInv /\ ControlInv /\ Bounded(t)
      /\ IsFiniteSet(bag[t]) /\ IsFiniteSet(hz[t]) /\ IsFiniteSet(orphans)
      /\ DomainTypeOK'
  BY CoreKeeps DEF CoreInv, BoundInv, Bounded
<1>1. /\ scan_threshold \in Nat /\ scan_threshold > 0
      /\ scan_threshold' \in Nat /\ scan_threshold' >= scan_threshold
  <2>1. nrecords' \in Nat /\ nrecords' >= nrecords
    BY <1>0, ListGrows DEF DomainTypeOK
  <2> QED BY <2>1, Threshold
<1>2. IsFiniteSet(orphans')
  <2>1. CASE MovesNodes(t)
    <3>1. CASE ScanAdopt(t)
      BY <3>1, FS_EmptySet DEF ScanAdopt, Exchanged
    <3>2. ASSUME NEW m \in Nodes,
                 Retire(t, m) \/ ScanFree(t, m) \/ PushOrphan(t, m)
          PROVE  IsFiniteSet(orphans')
      <4>1. orphans' \in {orphans, orphans \cup {m}}
        BY <3>2 DEF Retire, ScanFree, PushOrphan, Pushed
      <4>2. IsFiniteSet(orphans \cup {m})
        BY <1>0, FS_AddElement
      <4> QED BY <1>0, <4>1, <4>2
    <3> QED BY <2>1, <3>1, <3>2 DEF MovesNodes
  <2>2. CASE ~MovesNodes(t)
    BY <1>0, <2>2, BagsFrame
  <2> QED BY <2>1, <2>2
<1>3. bag'[t] = {} => IsFiniteSet(bag'[t]) /\ Cardinality(bag'[t]) < scan_threshold'
  <2>1. \A S : S = {} => IsFiniteSet(S) /\ Cardinality(S) = 0
    BY FS_EmptySet, Zenon
  <2> QED BY <1>1, <2>1
<1>4. Cardinality(bag[t]) \in Nat
  BY <1>0, FS_CardinalityType
<1>5. ASSUME ScanAdopt(t) PROVE Bounded(t)'
  <2>1. /\ bag'[t] = bag[t] \cup orphans /\ hz'[t] = hz[t]
        /\ dpc'[t] \notin {"slots", "free"}
        /\ dpc'[t] # "snap" => bag'[t] = {}
        /\ dpc'[t] \in {"snap", "ready", "orphan"}
    BY <1>0, <1>5 DEF ScanAdopt, AfterScan, DomainTypeOK
  <2>2. IsFiniteSet(bag[t] \cup orphans)
    BY <1>0, FS_Union
  <2>3. IsFiniteSet(bag'[t])
    BY <2>1, <2>2
  <2> QED BY <1>0, <1>3, <2>1, <2>3 DEF Bounded
<1>6. ASSUME NEW m \in Nodes, Retire(t, m) \/ PushOrphan(t, m) PROVE Bounded(t)'
  <2>1. /\ bag'[t] \in {bag[t] \cup {m}, bag[t] \ {m}} /\ hz'[t] = hz[t]
        /\ dpc'[t] \in {"check", "orphan"}
    BY <1>0, <1>6 DEF Retire, PushOrphan, DomainTypeOK
  <2>2. IsFiniteSet(bag[t] \cup {m}) /\ IsFiniteSet(bag[t] \ {m})
    BY <1>0, FS_AddElement, FS_RemoveElement
  <2> QED BY <1>0, <2>1, <2>2 DEF Bounded
<1>7. ASSUME NEW m \in Nodes, ScanFree(t, m) PROVE Bounded(t)'
  <2>1. /\ bag'[t] = bag[t] \ {m} /\ hz'[t] = hz[t] /\ dpc[t] = "free"
        /\ dpc'[t] = "free" /\ nlinked' = nlinked
    BY <1>0, <1>7 DEF ScanFree, DomainTypeOK
  <2>2. IsFiniteSet(bag[t] \ {m})
    BY <1>0, FS_RemoveElement
  <2> QED BY <1>0, <2>1, <2>2 DEF Bounded
<1>8. ASSUME LocalOp(t), ~ScanStart(t) PROVE Bounded(t)'
  <2>1. CASE RetireCheck(t)
    <3>1. /\ bag'[t] = bag[t] /\ hz'[t] = hz[t] /\ dpc'[t] \in {"adopt", "ready"}
          /\ dpc'[t] = "ready" => ~Full(t)
      BY <1>0, <2>1 DEF RetireCheck, DomainTypeOK
    <3>2. dpc'[t] = "ready" => Cardinality(bag[t]) < scan_threshold
      BY <1>1, <1>4, <3>1 DEF Full
    <3> QED BY <1>0, <1>1, <1>4, <3>1, <3>2 DEF Bounded
  <2>2. CASE OrphansDone(t)
    <3>1. bag'[t] = {} /\ hz'[t] = hz[t] /\ dpc'[t] \notin {"slots", "free"}
      BY <1>0, <2>2 DEF OrphansDone, DomainTypeOK
    <3> QED BY <1>0, <1>3, <3>1 DEF Bounded
  <2>3. CASE ~RetireCheck(t) /\ ~OrphansDone(t)
    <3>1. /\ bag'[t] = bag[t] /\ hz'[t] = hz[t]
          /\ dpc[t] \in {"ready", "verify"}
          /\ dpc'[t] \notin {"slots", "free"}
      BY <1>0, <1>8, <2>3 DEF LocalOp, ProtectLoad, ProtectReturn, ProtectRetry,
         GuardEnd, Drain, ThreadExit, DomainTypeOK
    <3> QED BY <1>0, <1>1, <1>4, <3>1 DEF Bounded
  <2> QED BY <2>1, <2>2, <2>3
<1>9. ASSUME SlotOp(t) PROVE Bounded(t)'
  <2>1. /\ bag'[t] = bag[t] /\ hz'[t] = hz[t]
        /\ \/ dpc[t] \in {"ready", "publish", "clear"} /\ dpc'[t] \notin {"slots", "free"}
           \/ dpc'[t] \in {"wipe", "release"}
    BY <1>0, <1>9 DEF SlotOp, ProtectPublish, GuardClear, ExitClear, ClearSlot,
       SetSlot, DomainTypeOK
  <2> QED BY <1>0, <1>1, <1>4, <2>1 DEF Bounded
<1>10. ASSUME RecordOp(t) PROVE Bounded(t)'
  <2>1. /\ bag'[t] = bag[t] /\ hz'[t] = hz[t]
        /\ dpc[t] \in {"ready", "walk", "link"} \/ (dpc[t] = "release" /\ bag[t] = {})
        /\ dpc'[t] \notin {"slots", "free"}
    BY <1>0, <1>10 DEF RecordOp, AcqStart, AcqTry, AcqNew, AcqLink, ReleaseRecord,
       DomainTypeOK, ControlInv
  <2>2. CASE bag[t] = {}
    BY <1>0, <1>3, <2>1, <2>2 DEF Bounded
  <2>3. CASE dpc[t] \in {"ready", "walk", "link"}
    BY <1>0, <1>1, <1>4, <2>1, <2>3 DEF Bounded
  <2> QED BY <2>1, <2>2, <2>3
<1>11. Bounded(t)'
  BY <1>5, <1>6, <1>7, <1>8, <1>9, <1>10, ScanBounded DEF DomainOp, BagOp
<1>12. \A u \in Threads : u # t => Bounded(u)'
  BY OthersBounded DEF BoundInv
<1> QED BY <1>2, <1>11, <1>12 DEF BoundInv

\* No bag has anything in it at the start.
LEMMA BoundInit == DomainInit => BoundInv
<1> SUFFICES ASSUME DomainInit PROVE BoundInv
  OBVIOUS
<1>1. scan_threshold > 0
  BY CoreInit, Threshold
<1> QED BY <1>1, FS_EmptySet DEF DomainInit, BoundInv, Bounded
=============================================================================

------------------------- MODULE HazardCells_proofs -------------------------
(***************************************************************************)
(* Machine-checked proofs about the hazard pointer domain under the most   *)
(* general client of HazardCells.  The argument: a pointer that protect    *)
(* returned was not retired when it was read again, and from then on its   *)
(* slot is published, so every scan that could free it reads that slot.    *)
(***************************************************************************)
EXTENDS HazardAlloc, HazardDomain_proofs

-----------------------------------------------------------------------------
(* The inductive invariant.                                                *)

ClientTypes ==
  /\ src \in [Cells -> Nodes \cup {Null}] /\ heap \subseteq Nodes
  /\ guarded \in [Threads -> BOOLEAN]
  /\ cell \in [Threads -> Cells \cup {Null}]
  /\ hold \in [Threads -> Holds]
  /\ mine \in [Threads -> Nodes \cup {Null}]

\* What protect(s, _) returned to t is named by t's slot s, allocated, and
\* spared by every scan.
Protected(t, s) ==
  hold[t][s] # Null =>
    /\ guarded[t] /\ rec[t] # 0
    /\ slot[rec[t]][s] = hold[t][s] /\ hold[t][s] \in heap
    /\ \A u \in Threads : Spares(u, rec[t], s, hold[t][s])

\* How the client's calls nest in the domain's steps.
Calls(t) ==
  /\ dpc[t] \in {"publish", "verify"} =>
       guarded[t] /\ cell[t] \in Cells /\ hold[t][k[t]] = Null
  /\ dpc[t] = "verify" => slot[rec[t]][k[t]] = ptr[t]
  /\ dpc[t] \in {"clear", "wipe", "release"} \/ exiting[t] => ~guarded[t]
  /\ mine[t] # Null => dpc[t] = "ready"
  /\ guarded[t] /\ dpc[t] \notin {"walk", "link"} => rec[t] # 0

HoldInv == \A t \in Threads : Calls(t) /\ \A s \in Slots : Protected(t, s)

\* A node is allocated, and in one cell, in the hands of one thread or
\* waiting to be freed.
OwnerInv ==
  /\ \A c \in Cells : src[c] # Null =>
       /\ src[c] \in heap \ Waiting
       /\ \A t \in Threads : mine[t] # src[c]
       /\ \A d \in Cells : src[c] = src[d] => c = d
  /\ \A t \in Threads : mine[t] # Null =>
       /\ mine[t] \in heap \ Waiting
       /\ \A u \in Threads : mine[t] = mine[u] => t = u
  /\ Waiting \subseteq heap

SafeInv == CoreInv /\ BagsInv /\ ClientTypes /\ HoldInv /\ OwnerInv

-----------------------------------------------------------------------------
(* What stays protected.                                                   *)

\* A published pointer stays protected by every step that leaves its slot
\* alone, whoever takes it.
LEMMA StaysProtected ==
  ASSUME CoreInv, ClientTypes, NEW t \in Threads, DomainOp(t),
         \A m \in heap \ heap' : ScanFree(t, m),
         NEW u \in Threads, NEW s \in Slots, Protected(u, s), hold[u][s] # Null,
         hold'[u][s] = hold[u][s], guarded'[u] = guarded[u],
         rec'[u] = rec[u], slot'[rec[u]][s] = slot[rec[u]][s]
  PROVE  Protected(u, s)'
<1>1. /\ guarded[u] /\ rec[u] # 0 /\ slot[rec[u]][s] = hold[u][s]
      /\ hold[u][s] \in heap
      /\ \A v \in Threads : Spares(v, rec[u], s, hold[u][s])
  BY DEF Protected
<1>2. hold[u][s] \in Nodes /\ rec[u] \in 1 .. nlinked
  BY <1>1, DomainAssumption
  DEF ClientTypes, Holds, CoreInv, DomainTypeOK, RecordInv
<1>3. \A v \in Threads : Spares(v, rec[u], s, hold[u][s])'
  <2> SUFFICES ASSUME NEW v \in Threads
               PROVE  Spares(v, rec[u], s, hold[u][s])'
    OBVIOUS
  <2>1. \A r \in 1 .. nlinked, m \in Nodes :
          slot[r][s] = m /\ Spares(v, r, s, m) =>
            (m \in bag'[v] => \/ dpc'[v] \notin {"slots", "free"}
                              \/ m \in hz'[v]
                              \/ /\ dpc'[v] = "slots"
                                 /\ \/ r < cur'[v]
                                    \/ r = cur'[v] /\ k'[v] <= s)
    BY SparesKeep DEF Spares
  <2> QED BY <1>1, <1>2, <2>1 DEF Spares
<1>4. hold[u][s] \in heap'
  BY <1>1, SparedNotFreed
<1> QED BY <1>1, <1>3, <1>4 DEF Protected

\* The step of t leaves what the client knows of u alone.
ClientKeeps(u) ==
  /\ guarded'[u] = guarded[u] /\ cell'[u] = cell[u] /\ hold'[u] = hold[u]
  /\ mine'[u] = mine[u]

\* Another thread's calls and pointers.
LEMMA OthersHold ==
  ASSUME CoreInv, ClientTypes, HoldInv, NEW t \in Threads, DomainOp(t),
         \A m \in heap \ heap' : ScanFree(t, m),
         NEW u \in Threads, u # t, ClientKeeps(u)
  PROVE  Calls(u)' /\ \A s \in Slots : Protected(u, s)'
<1>1. /\ rec'[u] = rec[u] /\ dpc'[u] = dpc[u] /\ k'[u] = k[u]
      /\ ptr'[u] = ptr[u] /\ exiting'[u] = exiting[u]
      /\ rec[u] # 0 => slot'[rec[u]] = slot[rec[u]]
  BY OthersSlots
<1>2. dpc[u] = "verify" => rec[u] # 0
  BY DEF CoreInv, ControlInv
<1>3. Calls(u)'
  BY <1>1, <1>2 DEF Calls, HoldInv, ClientKeeps
<1>4. ASSUME NEW s \in Slots, hold[u][s] # Null
      PROVE  Protected(u, s)'
  BY <1>1, <1>4, StaysProtected DEF HoldInv, Protected, ClientKeeps
<1>5. \A s \in Slots : Protected(u, s)'
  BY <1>4 DEF Protected, ClientKeeps
<1> QED BY <1>3, <1>5

\* Steps of t inside the domain that leave its guard, its record and its
\* slots alone, while the client waits.
Quiet(t) ==
  \/ RetireCheck(t) \/ ScanAdopt(t) \/ ScanStart(t) \/ ScanSlot(t) \/ ScanEnd(t)
  \/ Drain(t) \/ ThreadExit(t)
  \/ \E m \in Nodes : PushOrphan(t, m) \/ Retire(t, m) \/ ScanFree(t, m)

LEMMA QuietFrame ==
  ASSUME CoreInv, NEW t \in Threads, Quiet(t)
  PROVE  /\ DomainOp(t) /\ rec' = rec /\ slot' = slot
         /\ dpc'[t] \in {"ready", "check", "adopt", "snap", "slots", "free", "orphan"}
         /\ exiting'[t] => exiting[t] \/ ThreadExit(t)
         /\ dpc[t] \notin {"walk", "link"}
<1> USE DEF DAt, DGoto, sharedVars
<1>1. DomainOp(t)
  BY DEF Quiet, DomainOp, LocalOp, BagOp
<1>2. DomainTypeOK
  BY DEF CoreInv
<1> QED BY <1>1, <1>2 DEF Quiet, RetireCheck, ScanAdopt, ScanStart, ScanSlot,
     ScanEnd, Drain, ThreadExit, PushOrphan, Retire, ScanFree, AfterScan, DomainTypeOK

\* The thread's own calls and pointers, in such a step.
LEMMA QuietHold ==
  ASSUME CoreInv, ClientTypes, HoldInv, NEW t \in Threads, Quiet(t),
         \A m \in heap \ heap' : ScanFree(t, m),
         guarded' = guarded, hold' = hold, mine'[t] = Null,
         ThreadExit(t) => ~guarded[t]
  PROVE  Calls(t)' /\ \A s \in Slots : Protected(t, s)'
<1>1. /\ DomainOp(t) /\ rec' = rec /\ slot' = slot
      /\ dpc'[t] \in {"ready", "check", "adopt", "snap", "slots", "free", "orphan"}
      /\ exiting'[t] => exiting[t] \/ ThreadExit(t)
      /\ dpc[t] \notin {"walk", "link"}
  BY QuietFrame
<1>2. Calls(t)'
  BY <1>1 DEF HoldInv, Calls
<1>3. ASSUME NEW s \in Slots, hold[t][s] # Null
      PROVE  Protected(t, s)'
  BY <1>1, <1>3, StaysProtected DEF HoldInv
<1>4. \A s \in Slots : Protected(t, s)'
  BY <1>3 DEF Protected
<1> QED BY <1>2, <1>4

\* A thread without a guard has given up every pointer.
LEMMA NothingHeld ==
  ASSUME HoldInv, NEW t \in Threads, ~guarded[t] \/ rec[t] = 0
  PROVE  \A s \in Slots : hold[t][s] = Null
BY DEF HoldInv, Protected

\* The steps of t that change its record or its slots.
LEMMA RecordHold ==
  ASSUME CoreInv, ClientTypes, HoldInv, NEW t \in Threads, UNCHANGED clientVars,
         \/ AcqTry(t) \/ AcqNew(t) \/ AcqLink(t) \/ ProtectPublish(t)
         \/ GuardClear(t) \/ OrphansDone(t) \/ ExitClear(t) \/ ReleaseRecord(t)
  PROVE  Calls(t)' /\ \A s \in Slots : Protected(t, s)'
<1> USE DEF DAt, DGoto, sharedVars
<1>0. DomainTypeOK /\ ControlInv /\ RecordInv /\ Calls(t) /\ CountInv
  BY DEF CoreInv, HoldInv
<1>1. DomainOp(t)
  BY DEF DomainOp, LocalOp, SlotOp, RecordOp
<1>2. CASE AcqTry(t) \/ AcqNew(t) \/ AcqLink(t)
  <2>1. dpc[t] \in {"walk", "link"} /\ rec[t] = 0
    BY <1>0, <1>2 DEF AcqTry, AcqNew, AcqLink, ControlInv
  <2>2. dpc'[t] \in {"walk", "link"} \/ (dpc'[t] = "ready" /\ rec'[t] # 0)
    BY <1>0, <1>2 DEF AcqTry, AcqNew, AcqLink, DomainTypeOK
  <2>3. exiting' = exiting
    BY <1>2 DEF AcqTry, AcqNew, AcqLink
  <2>4. \A s \in Slots : hold'[t][s] = Null
    BY <2>1, NothingHeld DEF clientVars
  <2> QED BY <1>0, <2>1, <2>2, <2>3, <2>4 DEF Calls, Protected, clientVars
<1>3. CASE ProtectPublish(t)
  <2>1. /\ rec[t] \in Records /\ k[t] \in Slots /\ dpc[t] = "publish"
        /\ dpc'[t] = "verify" /\ rec' = rec /\ k' = k /\ ptr' = ptr
        /\ exiting' = exiting /\ slot' = [slot EXCEPT ![rec[t]][k[t]] = ptr[t]]
    BY <1>0, <1>3 DEF ProtectPublish, DomainTypeOK, ControlInv, Records
  <2>2. /\ slot'[rec[t]][k[t]] = ptr[t]
        /\ \A s \in Slots : s # k[t] => slot'[rec[t]][s] = slot[rec[t]][s]
    BY <1>0, <2>1 DEF DomainTypeOK
  <2>3. Calls(t)'
    BY <1>0, <2>1, <2>2 DEF Calls, clientVars
  <2>4. ASSUME NEW s \in Slots, hold[t][s] # Null
        PROVE  Protected(t, s)'
    <3>1. s # k[t]
      BY <1>0, <2>1, <2>4 DEF Calls
    <3> QED BY <1>1, <2>1, <2>2, <2>4, <3>1, StaysProtected DEF HoldInv, clientVars
  <2>5. \A s \in Slots : Protected(t, s)'
    BY <2>4 DEF Protected, clientVars
  <2> QED BY <2>3, <2>5
<1>4. CASE GuardClear(t) \/ OrphansDone(t) \/ ExitClear(t) \/ ReleaseRecord(t)
  <2>1. ~guarded[t] /\ mine[t] = Null
    BY <1>0, <1>4 DEF GuardClear, ExitClear, ClearSlot, OrphansDone,
         ReleaseRecord, Calls, ControlInv
  <2>2. dpc'[t] \in {"clear", "ready", "wipe", "release"}
    BY <1>0, <1>4 DEF GuardClear, ExitClear, ClearSlot, OrphansDone,
         ReleaseRecord, DomainTypeOK
  <2>3. \A s \in Slots : hold'[t][s] = Null
    BY <2>1, NothingHeld DEF clientVars
  <2> QED BY <2>1, <2>2, <2>3 DEF Calls, Protected, clientVars
<1> QED BY <1>2, <1>3, <1>4

\* The guard is opened.
LEMMA OpenHold ==
  ASSUME CoreInv, ClientTypes, HoldInv, NEW t \in Threads, OpenGuard(t)
  PROVE  Calls(t)' /\ \A s \in Slots : Protected(t, s)'
<1> USE DEF DAt, DGoto, Free
<1>1. /\ dpc[t] = "ready" /\ mine' = mine /\ hold' = hold /\ mine[t] = Null
      /\ DomainTypeOK /\ Calls(t) /\ ControlInv
  BY DEF OpenGuard, CoreInv, HoldInv
<1>2. ~guarded[t] /\ \A s \in Slots : hold[t][s] = Null
  BY NothingHeld DEF OpenGuard
<1>3. ~exiting[t] /\ exiting' = exiting
  BY <1>1 DEF OpenGuard, ControlInv, AcqStart, domainVars
<1>4. dpc'[t] = "walk" \/ (dpc'[t] = "ready" /\ rec'[t] # 0)
  BY <1>1 DEF OpenGuard, AcqStart, domainVars, DomainTypeOK
<1> QED BY <1>1, <1>2, <1>3, <1>4 DEF Calls, Protected

\* protect gives up what its slot named, and loads the source.
LEMMA ProtectHold ==
  ASSUME CoreInv, ClientTypes, HoldInv, NEW t \in Threads, NEW s \in Slots,
         NEW c \in Cells, Protect(t, s, c)
  PROVE  Calls(t)' /\ \A x \in Slots : Protected(t, x)'
<1> USE DEF DAt, DGoto, Free, sharedVars
<1>1. /\ dpc[t] = "ready" /\ mine' = mine /\ heap' = heap /\ guarded' = guarded
      /\ guarded[t] /\ rec[t] # 0 /\ dpc'[t] = "publish" /\ k'[t] = s
      /\ rec' = rec /\ slot' = slot /\ exiting' = exiting /\ mine[t] = Null
      /\ cell'[t] = c
      /\ Calls(t) /\ ProtectLoad(t, s, src[c])
  BY DEF Protect, ProtectLoad, CoreInv, DomainTypeOK, HoldInv, ClientTypes
<1>2. hold'[t][s] = Null /\ \A x \in Slots : x # s => hold'[t][x] = hold[t][x]
  BY DEF Protect, ClientTypes, Holds
<1>3. DomainOp(t)
  <2>1. src[c] \in Nodes \cup {Null}
    BY DEF ClientTypes
  <2> QED BY <1>1, <2>1 DEF DomainOp, LocalOp
<1>4. Calls(t)'
  BY <1>1, <1>2 DEF Calls
<1>5. ASSUME NEW x \in Slots, hold'[t][x] # Null
      PROVE  Protected(t, x)'
  BY <1>1, <1>2, <1>3, <1>5, StaysProtected DEF HoldInv
<1>6. \A x \in Slots : Protected(t, x)'
  BY <1>5 DEF Protected
<1> QED BY <1>4, <1>6

\* The pointer protect returns was in the cell when it was read again: nobody
\* had retired it, so every later scan sees the slot that names it.
LEMMA VerifyHold ==
  ASSUME CoreInv, ClientTypes, HoldInv, OwnerInv, NEW t \in Threads, Verify(t)
  PROVE  /\ Calls(t)' /\ \A x \in Slots : Protected(t, x)'
         /\ DomainOp(t)
<1> USE DEF DAt, DGoto, sharedVars
<1>1. /\ dpc[t] = "verify" /\ mine' = mine /\ heap' = heap /\ guarded' = guarded
      /\ Calls(t) /\ guarded[t] /\ cell[t] \in Cells /\ hold[t][k[t]] = Null
      /\ slot[rec[t]][k[t]] = ptr[t] /\ mine[t] = Null /\ ~exiting[t]
      /\ rec[t] # 0 /\ rec[t] \in 1 .. nlinked /\ k[t] \in Slots
      /\ DomainTypeOK
  BY DEF Verify, HoldInv, Calls, CoreInv, ControlInv, DomainTypeOK, RecordInv
<1>2. src[cell[t]] \in Nodes \cup {Null}
  BY <1>1 DEF ClientTypes
<1>3. /\ ProtectReturn(t, src[cell[t]]) \/ ProtectRetry(t, src[cell[t]])
      /\ DomainOp(t)
  BY <1>2 DEF Verify, DomainOp, LocalOp
<1>4. /\ rec' = rec /\ slot' = slot /\ exiting' = exiting /\ nlinked' = nlinked
      /\ bag' = bag /\ hz' = hz /\ cur' = cur /\ orphans' = orphans
  BY <1>3 DEF ProtectReturn, ProtectRetry
<1>5. ASSUME NEW x \in Slots, hold[t][x] # Null, hold'[t][x] = hold[t][x]
      PROVE  Protected(t, x)'
  BY <1>1, <1>3, <1>4, <1>5, StaysProtected DEF HoldInv
<1>6. CASE ProtectRetry(t, src[cell[t]]) /\ UNCHANGED <<hold, cell>>
  <2>1. dpc'[t] = "publish" /\ k' = k
    BY <1>1, <1>6 DEF ProtectRetry, DomainTypeOK
  <2>2. Calls(t)'
    BY <1>1, <1>4, <1>6, <2>1 DEF Calls
  <2>3. \A x \in Slots : Protected(t, x)'
    BY <1>5, <1>6 DEF Protected
  <2> QED BY <1>3, <2>2, <2>3
<1>7. CASE /\ ProtectReturn(t, src[cell[t]])
           /\ hold' = [hold EXCEPT ![t][k[t]] = ptr[t]]
           /\ cell' = [cell EXCEPT ![t] = Null]
  <2>1. dpc'[t] = "ready" /\ src[cell[t]] = ptr[t]
    BY <1>1, <1>7 DEF ProtectReturn, Verified, DomainTypeOK
  <2>2. /\ hold'[t][k[t]] = ptr[t]
        /\ \A x \in Slots : x # k[t] => hold'[t][x] = hold[t][x]
    BY <1>1, <1>7 DEF ClientTypes, Holds
  <2>3. Calls(t)'
    BY <1>1, <1>4, <2>1 DEF Calls
  <2>4. ASSUME NEW x \in Slots, x = k[t] PROVE Protected(t, x)'
    <3> SUFFICES ASSUME ptr[t] # Null PROVE Protected(t, x)'
      BY <2>2, <2>4 DEF Protected
    <3>1. ptr[t] \in heap /\ ptr[t] \notin Waiting
      BY <1>1, <2>1 DEF OwnerInv
    <3>2. \A u \in Threads : ptr[t] \notin bag'[u]
      BY <1>4, <3>1, WaitingIs
    <3> QED BY <1>1, <1>4, <2>2, <2>4, <3>1, <3>2 DEF Protected, Spares
  <2>5. \A x \in Slots : Protected(t, x)'
    <3>1. ASSUME NEW x \in Slots, x # k[t] PROVE Protected(t, x)'
      BY <1>5, <2>2, <3>1 DEF Protected
    <3> QED BY <2>4, <3>1
  <2> QED BY <1>3, <2>3, <2>5
<1> QED BY <1>6, <1>7 DEF Verify

\* The guard is closed.
LEMMA CloseHold ==
  ASSUME CoreInv, ClientTypes, HoldInv, NEW t \in Threads, CloseGuard(t)
  PROVE  Calls(t)' /\ \A s \in Slots : Protected(t, s)'
<1> USE DEF DAt, DGoto, Free, sharedVars
<1>1. /\ dpc[t] = "ready" /\ mine'[t] = Null /\ dpc'[t] = "clear"
      /\ ~guarded'[t] /\ exiting' = exiting
      /\ \A s \in Slots : hold'[t][s] = Null
  BY DEF CloseGuard, GuardEnd, CoreInv, DomainTypeOK, ClientTypes
<1> QED BY <1>1 DEF Calls, Protected

\* With the others, the whole of HoldInv.
LEMMA HoldFrom ==
  ASSUME CoreInv, ClientTypes, HoldInv, NEW t \in Threads, DomainOp(t),
         \A m \in heap \ heap' : ScanFree(t, m),
         \A u \in Threads \ {t} : ClientKeeps(u),
         Calls(t)', \A s \in Slots : Protected(t, s)'
  PROVE  CoreInv' /\ HoldInv'
<1>1. ASSUME NEW u \in Threads, u # t
      PROVE  Calls(u)' /\ \A s \in Slots : Protected(u, s)'
  BY <1>1, OthersHold
<1>2. HoldInv'
  BY <1>1 DEF HoldInv
<1> QED BY <1>2, CoreKeeps

-----------------------------------------------------------------------------
(* Every step keeps SafeInv.                                               *)

\* The steps inside the domain.
LEMMA InsideKeeps ==
  ASSUME SafeInv, NEW t \in Threads, UNCHANGED clientVars,
         DomainStep(t) \/ AskDrain(t) \/ Exit(t)
  PROVE  /\ SafeInv' /\ Waiting' = Waiting /\ DomainOp(t)
         /\ retired' = retired
<1> USE DEF DAt, DGoto, Free
<1>0. CoreInv /\ BagsInv /\ ClientTypes /\ HoldInv /\ OwnerInv /\ DomainTypeOK
  BY DEF SafeInv, CoreInv
<1>1. DomainOp(t)
  BY DEF DomainStep, AskDrain, Exit, DomainOp, LocalOp, SlotOp, RecordOp, BagOp
<1>2. retired' = retired /\ \A m \in Nodes : ~Retire(t, m) /\ ~ScanFree(t, m)
  <2>1. \A m \in Nodes : Retire(t, m) => retired' = retired + 1
    BY DEF Retire
  <2>2. \A m \in Nodes : ScanFree(t, m) =>
          /\ dpc[t] = "free" /\ dpc'[t] = "free" /\ freed' = freed
    BY <1>0 DEF ScanFree, sharedVars
  <2>3. retired' = retired
    BY DEF DomainStep, AskDrain, Exit, Drain, ThreadExit, AcqTry, AcqNew, AcqLink,
      ProtectPublish, GuardClear, ClearSlot, RetireCheck, ScanAdopt, ScanStart,
      ScanSlot, ScanEnd, PushOrphan, OrphansDone, ExitClear, ReleaseRecord, sharedVars
  <2>4. ~(dpc[t] = "free" /\ dpc'[t] = "free")
    BY <1>0 DEF DomainStep, AskDrain, Exit, Drain, ThreadExit, AcqTry, AcqNew,
      AcqLink, ProtectPublish, GuardClear, ClearSlot, RetireCheck, ScanAdopt,
      ScanStart, ScanSlot, ScanEnd, PushOrphan, OrphansDone, ExitClear,
      ReleaseRecord, AfterScan, DomainTypeOK
  <2> QED BY <1>0, <2>1, <2>2, <2>3, <2>4 DEF DomainTypeOK
<1>3. BagsInv' /\ Waiting' = Waiting
  BY <1>0, <1>1, <1>2, StepBags
<1>4. OwnerInv'
  BY <1>0, <1>3 DEF OwnerInv, clientVars
<1>5. ClientTypes'
  BY <1>0 DEF ClientTypes, clientVars
<1>6. Calls(t)' /\ \A s \in Slots : Protected(t, s)'
  <2>1. CASE Quiet(t)
    <3>1. mine[t] = Null
      <4>1. CASE DomainStep(t)
        <5>1. dpc[t] # "ready"
          BY <4>1 DEF DomainStep, AcqTry, AcqNew, AcqLink, ProtectPublish,
            GuardClear, ClearSlot, RetireCheck, ScanAdopt, ScanStart, ScanSlot,
            ScanEnd, PushOrphan, OrphansDone, ExitClear, ReleaseRecord
        <5> QED BY <1>0, <5>1 DEF HoldInv, Calls
      <4>2. CASE AskDrain(t) \/ Exit(t)
        BY <4>2 DEF AskDrain, Exit
      <4> QED BY <4>1, <4>2
    <3>2. ThreadExit(t) => ~guarded[t]
      <4>1. ThreadExit(t) => dpc[t] = "ready"
        BY DEF ThreadExit
      <4>2. dpc[t] = "ready" => ~DomainStep(t)
        BY DEF DomainStep, AcqTry, AcqNew, AcqLink, ProtectPublish, GuardClear,
          ClearSlot, RetireCheck, ScanAdopt, ScanStart, ScanSlot, ScanEnd,
          PushOrphan, OrphansDone, ExitClear, ReleaseRecord
      <4> QED BY <4>1, <4>2 DEF AskDrain, Exit
    <3> QED BY <1>0, <2>1, <3>1, <3>2, QuietHold DEF clientVars
  <2>2. CASE ~Quiet(t)
    BY <1>0, <2>2, RecordHold DEF DomainStep, AskDrain, Exit, Quiet
  <2> QED BY <2>1, <2>2
<1>7. CoreInv' /\ HoldInv'
  BY <1>0, <1>1, <1>6, HoldFrom DEF clientVars, ClientKeeps
<1> QED BY <1>1, <1>2, <1>3, <1>4, <1>5, <1>7 DEF SafeInv

\* The steps of a guard.
LEMMA GuardKeeps ==
  ASSUME SafeInv, NEW t \in Threads,
         \/ OpenGuard(t) \/ CloseGuard(t) \/ Verify(t)
         \/ \E s \in Slots, c \in Cells : Protect(t, s, c)
  PROVE  /\ SafeInv' /\ UNCHANGED <<Waiting, src, heap, mine>>
         /\ DomainOp(t) \/ UNCHANGED domainVars
<1> USE DEF DAt, DGoto, Free
<1>0. CoreInv /\ BagsInv /\ ClientTypes /\ HoldInv /\ OwnerInv /\ DomainTypeOK
  BY DEF SafeInv, CoreInv
<1>1. /\ src' = src /\ heap' = heap /\ mine' = mine
      /\ \A u \in Threads \ {t} : ClientKeeps(u)
  BY <1>0 DEF OpenGuard, CloseGuard, Verify, Protect, ClientTypes, ClientKeeps
<1>2. ClientTypes'
  <2>1. guarded' \in [Threads -> BOOLEAN]
    BY <1>0 DEF OpenGuard, CloseGuard, Verify, Protect, ClientTypes
  <2>2. cell' \in [Threads -> Cells \cup {Null}]
    BY <1>0 DEF OpenGuard, CloseGuard, Verify, Protect, ClientTypes
  <2>3. hold' \in [Threads -> Holds]
    <3>1. ptr[t] \in Nodes \cup {Null} /\ k[t] \in Slots
      BY <1>0 DEF DomainTypeOK
    <3> QED BY <1>0, <3>1 DEF OpenGuard, CloseGuard, Verify, Protect, ClientTypes, Holds
  <2> QED BY <1>0, <1>1, <2>1, <2>2, <2>3 DEF ClientTypes
<1>3. Calls(t)' /\ \A s \in Slots : Protected(t, s)'
  BY <1>0, OpenHold, CloseHold, VerifyHold, ProtectHold
<1>4. CASE UNCHANGED domainVars
  <2>1. OpenGuard(t)
    <3>1. dpc' = dpc /\ dpc[t] \in {"ready", "verify"}
      BY <1>4 DEF domainVars, OpenGuard, CloseGuard, Verify, Protect
    <3> QED BY <1>0, <3>1 DEF CloseGuard, Verify, Protect, GuardEnd, ProtectLoad,
          ProtectReturn, ProtectRetry, DomainTypeOK
  <2>2. CoreInv' /\ BagsInv' /\ Waiting' = Waiting
    BY <1>0, <1>4 DEF CoreInv, BagsInv, Waiting, DomainTypeOK, RecordInv,
      ControlInv, CountInv, Below, Linking, domainVars
  <2>3. ASSUME NEW u \in Threads, u # t
        PROVE  Calls(u)' /\ \A s \in Slots : Protected(u, s)'
    BY <1>0, <1>1, <1>4, <2>3
    DEF HoldInv, Calls, Protected, Spares, ClientKeeps, domainVars
  <2>4. HoldInv'
    BY <1>3, <2>3 DEF HoldInv
  <2>5. OwnerInv'
    BY <1>0, <1>1, <2>2 DEF OwnerInv
  <2> QED BY <1>1, <1>2, <1>4, <2>2, <2>4, <2>5 DEF SafeInv
<1>5. CASE ~UNCHANGED domainVars
  <2>1. DomainOp(t)
    <3>1. CASE OpenGuard(t)
      BY <1>5, <3>1 DEF OpenGuard, DomainOp, RecordOp
    <3>2. CASE CloseGuard(t)
      BY <3>2 DEF CloseGuard, DomainOp, LocalOp
    <3>3. CASE Verify(t)
      BY <1>0, <3>3, VerifyHold
    <3>4. ASSUME NEW s \in Slots, NEW c \in Cells, Protect(t, s, c)
          PROVE  DomainOp(t)
      <4>1. src[c] \in Nodes \cup {Null}
        BY <1>0 DEF ClientTypes
      <4> QED BY <3>4, <4>1 DEF Protect, DomainOp, LocalOp
    <3> QED BY <3>1, <3>2, <3>3, <3>4
  <2>2. CoreInv' /\ HoldInv'
    BY <1>0, <1>1, <1>3, <2>1, HoldFrom
  <2>3. bag' = bag /\ orphans' = orphans
    BY <1>5 DEF OpenGuard, CloseGuard, Verify, Protect, AcqStart, GuardEnd,
      ProtectLoad, ProtectReturn, ProtectRetry, sharedVars
  <2>4. BagsInv' /\ Waiting' = Waiting
    BY <1>0, <2>3 DEF BagsInv, Waiting
  <2>5. OwnerInv'
    BY <1>0, <1>1, <2>4 DEF OwnerInv
  <2> QED BY <1>1, <1>2, <2>1, <2>2, <2>4, <2>5 DEF SafeInv
<1> QED BY <1>4, <1>5

\* exchange takes the old node out of its cell and puts a fresh one in.
LEMMA ReplaceKeeps ==
  ASSUME SafeInv, NEW t \in Threads, NEW c \in Cells, Replace(t, c)
  PROVE  /\ SafeInv' /\ Waiting' = Waiting /\ UNCHANGED domainVars
         /\ Linked \cup Unlinked \subseteq (Linked \cup Unlinked)'
         /\ heap' \subseteq heap \cup Linked'
<1> USE DEF DAt, Free
<1>0. CoreInv /\ BagsInv /\ ClientTypes /\ HoldInv /\ OwnerInv /\ DomainTypeOK
  BY DEF SafeInv, CoreInv
<1>1. PICK m \in (Nodes \ heap) \cup ({Null} \ {src[c]}) :
        /\ heap' = heap \cup ({m} \ {Null})
        /\ src' = [src EXCEPT ![c] = m]
  BY DEF Replace
<1>2. /\ UNCHANGED domainVars /\ UNCHANGED <<guarded, cell, hold>>
      /\ dpc[t] = "ready" /\ mine[t] = Null
      /\ mine' = [mine EXCEPT ![t] = src[c]]
  BY DEF Replace
<1>3. CoreInv' /\ BagsInv' /\ Waiting' = Waiting
  BY <1>0, <1>2 DEF CoreInv, BagsInv, Waiting, DomainTypeOK, RecordInv,
    ControlInv, CountInv, Below, Linking, domainVars
<1>4. ClientTypes'
  BY <1>0, <1>1, <1>2 DEF ClientTypes
<1>5. HoldInv'
  BY <1>0, <1>1, <1>2
  DEF HoldInv, Calls, Protected, Spares, domainVars, ClientTypes
<1>6. OwnerInv'
  <2>1. /\ m # Null => m \notin heap
        /\ src'[c] = m /\ \A d \in Cells \ {c} : src'[d] = src[d]
        /\ mine'[t] = src[c] /\ \A u \in Threads \ {t} : mine'[u] = mine[u]
    BY <1>0, <1>1, <1>2 DEF ClientTypes
  <2>2. heap \subseteq heap' /\ (m # Null => m \in heap')
    BY <1>1
  <2>3. ASSUME NEW d \in Cells, src'[d] # Null
        PROVE  /\ src'[d] \in heap' \ Waiting'
               /\ \A u \in Threads : mine'[u] # src'[d]
               /\ \A e \in Cells : src'[d] = src'[e] => d = e
    <3>1. CASE d = c
      BY <1>0, <1>3, <2>1, <2>2, <2>3, <3>1 DEF OwnerInv
    <3>2. CASE d # c
      BY <1>0, <1>2, <1>3, <2>1, <2>2, <2>3, <3>2 DEF OwnerInv
    <3> QED BY <3>1, <3>2
  <2>4. ASSUME NEW u \in Threads, mine'[u] # Null
        PROVE  /\ mine'[u] \in heap' \ Waiting'
               /\ \A v \in Threads : mine'[u] = mine'[v] => u = v
    BY <1>0, <1>3, <2>1, <2>2, <2>4 DEF OwnerInv
  <2>5. Waiting' \subseteq heap'
    BY <1>0, <1>3, <2>2 DEF OwnerInv
  <2> QED BY <2>3, <2>4, <2>5 DEF OwnerInv
<1>7. Linked \cup Unlinked \subseteq (Linked \cup Unlinked)'
  <2>1. ASSUME NEW x \in Linked
        PROVE  x \in (Linked \cup Unlinked)'
    <3>1. PICK d \in Cells : src[d] = x /\ x # Null
      BY <2>1 DEF Linked
    <3>2. CASE d = c
      BY <1>0, <1>2, <3>1, <3>2 DEF Unlinked, ClientTypes
    <3>3. CASE d # c
      BY <1>0, <1>1, <3>1, <3>3 DEF Linked, ClientTypes
    <3> QED BY <3>2, <3>3
  <2>2. ASSUME NEW x \in Unlinked
        PROVE  x \in (Linked \cup Unlinked)'
    <3>1. PICK u \in Threads : mine[u] = x /\ x # Null
      BY <2>2 DEF Unlinked
    <3>2. mine'[u] = x
      BY <1>0, <1>2, <3>1 DEF ClientTypes
    <3> QED BY <3>1, <3>2 DEF Unlinked
  <2> QED BY <2>1, <2>2
<1>8. heap' \subseteq heap \cup Linked'
  <2>1. m # Null => m \in Linked'
    BY <1>0, <1>1 DEF Linked, ClientTypes
  <2> QED BY <1>1, <2>1
<1> QED BY <1>2, <1>3, <1>4, <1>5, <1>6, <1>7, <1>8 DEF SafeInv

\* retire puts the thread's node in its bag.
LEMMA RetireKeeps ==
  ASSUME SafeInv, NEW t \in Threads, RetireMine(t)
  PROVE  /\ SafeInv' /\ Waiting' = Waiting \cup {mine[t]}
         /\ DomainOp(t) /\ mine[t] \in Nodes
<1>0. CoreInv /\ BagsInv /\ ClientTypes /\ HoldInv /\ OwnerInv /\ DomainTypeOK
  BY DEF SafeInv, CoreInv
<1>1. /\ mine[t] \in Nodes /\ mine[t] \notin Waiting /\ Retire(t, mine[t])
      /\ mine' = [mine EXCEPT ![t] = Null]
      /\ UNCHANGED <<src, heap, guarded, cell, hold>>
  BY <1>0 DEF RetireMine, ClientTypes, OwnerInv
<1>2. BagsInv' /\ Waiting' = Waiting \cup {mine[t]}
  BY <1>0, <1>1, RetireBags
<1>3. ClientTypes'
  BY <1>0, <1>1 DEF ClientTypes
<1>4. Quiet(t) /\ DomainOp(t) /\ ~ThreadExit(t)
  <2>1. Quiet(t) /\ DomainOp(t)
    BY <1>1 DEF Quiet, DomainOp, BagOp
  <2>2. ~ThreadExit(t)
    BY <1>0, <1>1 DEF Retire, ThreadExit, DGoto, DomainTypeOK
  <2> QED BY <2>1, <2>2
<1>5. Calls(t)' /\ \A s \in Slots : Protected(t, s)'
  BY <1>0, <1>1, <1>4, QuietHold DEF ClientTypes
<1>6. \A u \in Threads \ {t} : ClientKeeps(u)
  BY <1>0, <1>1 DEF ClientKeeps, ClientTypes
<1>7. CoreInv' /\ HoldInv'
  BY <1>0, <1>1, <1>4, <1>5, <1>6, HoldFrom
<1>8. OwnerInv'
  <2>1. /\ mine[t] # Null /\ mine[t] \in heap
        /\ \A u \in Threads : mine'[u] # Null => u # t /\ mine'[u] = mine[u]
    BY <1>0, <1>1, DomainAssumption DEF OwnerInv, ClientTypes
  <2>2. ASSUME NEW u \in Threads, mine'[u] # Null
        PROVE  /\ mine'[u] \in heap' \ Waiting'
               /\ \A v \in Threads : mine'[u] = mine'[v] => u = v
    BY <1>0, <1>1, <1>2, <2>1, <2>2 DEF OwnerInv
  <2>3. ASSUME NEW c \in Cells, src'[c] # Null
        PROVE  /\ src'[c] \in heap' \ Waiting'
               /\ \A u \in Threads : mine'[u] # src'[c]
               /\ \A d \in Cells : src'[c] = src'[d] => c = d
    BY <1>0, <1>1, <1>2, <2>1, <2>3 DEF OwnerInv
  <2>4. Waiting' \subseteq heap'
    BY <1>0, <1>1, <1>2, <2>1 DEF OwnerInv
  <2> QED BY <2>2, <2>3, <2>4 DEF OwnerInv
<1> QED BY <1>1, <1>2, <1>3, <1>4, <1>7, <1>8 DEF SafeInv

\* A node that is deleted was waiting, in one bag, and nobody may use it.
LEMMA DeleteKeeps ==
  ASSUME SafeInv, NEW t \in Threads, NEW m \in Nodes, ScanFree(t, m),
         heap' = heap \ {m}, UNCHANGED <<src, guarded, cell, hold, mine>>
  PROVE  /\ SafeInv' /\ Waiting' = Waiting \ {m} /\ m \in Waiting
         /\ DomainOp(t)
<1>0. CoreInv /\ BagsInv /\ ClientTypes /\ HoldInv /\ OwnerInv /\ DomainTypeOK
  BY DEF SafeInv, CoreInv
<1>1. BagsInv' /\ Waiting' = Waiting \ {m} /\ m \in Waiting
  BY <1>0, FreeBags
<1>2. ClientTypes'
  BY <1>0 DEF ClientTypes
<1>3. Quiet(t) /\ DomainOp(t) /\ ~ThreadExit(t) /\ mine[t] = Null
  BY <1>0 DEF Quiet, DomainOp, BagOp, ScanFree, ThreadExit, DAt, HoldInv, Calls
<1>4. Calls(t)' /\ \A s \in Slots : Protected(t, s)'
  BY <1>0, <1>3, QuietHold
<1>5. CoreInv' /\ HoldInv'
  BY <1>0, <1>3, <1>4, HoldFrom DEF ClientKeeps
<1>6. OwnerInv'
  BY <1>0, <1>1 DEF OwnerInv
<1> QED BY <1>1, <1>2, <1>3, <1>5, <1>6 DEF SafeInv

\* Every step of every thread.
LEMMA SafeKeeps ==
  ASSUME SafeInv, [Next]_vars
  PROVE  SafeInv'
<1>1. ASSUME NEW t \in Threads, ThreadStep(t)
      PROVE  SafeInv'
  <2>1. CASE Delete(t)
    BY <2>1, DeleteKeeps DEF Delete
  <2> QED BY <1>1, <2>1, InsideKeeps, GuardKeeps, RetireKeeps DEF ThreadStep
<1>2. ASSUME NEW t \in Threads, AskDrain(t) \/ Exit(t)
      PROVE  SafeInv'
  BY <1>2, InsideKeeps DEF AskDrain, Exit
<1>3. ASSUME NEW t \in Threads, OpenGuard(t) \/ CloseGuard(t)
      PROVE  SafeInv'
  BY <1>3, GuardKeeps
<1>4. ASSUME NEW t \in Threads, NEW c \in Cells, NEW s \in Slots, Protect(t, s, c)
      PROVE  SafeInv'
  BY <1>4, GuardKeeps
<1>5. CASE UNCHANGED vars
  BY <1>5 DEF vars, domainVars, clientVars, SafeInv, CoreInv, BagsInv, Waiting,
    DomainTypeOK, RecordInv, ControlInv, CountInv, Below, Linking, ClientTypes,
    HoldInv, Calls, Protected, Spares, OwnerInv
<1> QED BY <1>1, <1>2, <1>3, <1>4, <1>5, ReplaceKeeps DEF Next

\* Before any thread has used the domain.
LEMMA SafeInit == Init => SafeInv
<1> SUFFICES ASSUME Init PROVE SafeInv
  OBVIOUS
<1>1. CoreInv /\ BagsInv
  BY CoreInit DEF Init
<1>2. ClientTypes /\ OwnerInv
  BY DEF Init, DomainInit, ClientTypes, Holds, OwnerInv, Waiting
<1>3. HoldInv
  BY DEF Init, DomainInit, HoldInv, Calls, Protected
<1> QED BY <1>1, <1>2, <1>3 DEF SafeInv

\* The domain takes one operation, or none.
LEMMA NextOp ==
  ASSUME SafeInv, [Next]_vars
  PROVE  UNCHANGED domainVars \/ \E t \in Threads : DomainOp(t)
<1>1. ASSUME NEW t \in Threads, ThreadStep(t)
      PROVE  UNCHANGED domainVars \/ DomainOp(t)
  <2>1. CASE Delete(t)
    BY <2>1, DeleteKeeps DEF Delete
  <2> QED BY <1>1, <2>1, InsideKeeps, GuardKeeps, RetireKeeps DEF ThreadStep
<1>2. ASSUME NEW t \in Threads, AskDrain(t) \/ Exit(t)
      PROVE  DomainOp(t)
  BY <1>2, InsideKeeps DEF AskDrain, Exit
<1>3. ASSUME NEW t \in Threads, OpenGuard(t) \/ CloseGuard(t)
      PROVE  UNCHANGED domainVars \/ DomainOp(t)
  BY <1>3, GuardKeeps
<1>4. ASSUME NEW t \in Threads, NEW c \in Cells, NEW s \in Slots, Protect(t, s, c)
      PROVE  UNCHANGED domainVars \/ DomainOp(t)
  BY <1>4, GuardKeeps
<1> QED BY <1>1, <1>2, <1>3, <1>4, ReplaceKeeps DEF Next, vars

-----------------------------------------------------------------------------
(* Nothing is dropped.                                                     *)

\* An allocated node is in a cell, in a thread's hands or waiting.
NoneLost == heap \subseteq Linked \cup Unlinked \cup Waiting

\* No step loses an allocated node.
LEMMA LostKeeps ==
  ASSUME SafeInv, NoneLost, [Next]_vars
  PROVE  NoneLost'
<1>0. ClientTypes
  BY DEF SafeInv
<1>1. ASSUME UNCHANGED <<Waiting, src, heap, mine>>
      PROVE  NoneLost'
  BY <1>1 DEF NoneLost, Linked, Unlinked
<1>2. ASSUME NEW t \in Threads, NEW c \in Cells, Replace(t, c)
      PROVE  NoneLost'
  BY <1>2, ReplaceKeeps DEF NoneLost
<1>3. ASSUME NEW t \in Threads, RetireMine(t)
      PROVE  NoneLost'
  <2>1. /\ mine' = [mine EXCEPT ![t] = Null] /\ src' = src /\ heap' = heap
        /\ Waiting' = Waiting \cup {mine[t]}
    BY <1>3, RetireKeeps DEF RetireMine
  <2>2. ASSUME NEW x \in Unlinked, x # mine[t]
        PROVE  x \in Unlinked'
    <3>1. PICK u \in Threads : mine[u] = x /\ x # Null
      BY <2>2 DEF Unlinked
    <3>2. mine'[u] = x
      BY <1>0, <2>1, <2>2, <3>1 DEF ClientTypes
    <3> QED BY <3>1, <3>2 DEF Unlinked
  <2>3. Linked' = Linked
    BY <2>1 DEF Linked
  <2> QED BY <2>1, <2>2, <2>3 DEF NoneLost
<1>4. ASSUME NEW t \in Threads, Delete(t)
      PROVE  NoneLost'
  <2>1. PICK m \in Nodes :
          ScanFree(t, m) /\ heap' = heap \ {m} /\ UNCHANGED <<src, guarded, cell, hold, mine>>
    BY <1>4 DEF Delete
  <2>2. Waiting' = Waiting \ {m}
    BY <2>1, DeleteKeeps
  <2> QED BY <2>1, <2>2 DEF NoneLost, Linked, Unlinked
<1>5. ASSUME NEW t \in Threads, UNCHANGED clientVars,
             DomainStep(t) \/ AskDrain(t) \/ Exit(t)
      PROVE  NoneLost'
  BY <1>1, <1>5, InsideKeeps DEF clientVars
<1>6. ASSUME NEW t \in Threads,
             \/ OpenGuard(t) \/ CloseGuard(t) \/ Verify(t)
             \/ \E s \in Slots, c \in Cells : Protect(t, s, c)
      PROVE  NoneLost'
  BY <1>1, <1>6, GuardKeeps
<1>7. CASE UNCHANGED vars
  BY <1>1, <1>7 DEF vars, domainVars, clientVars, Waiting
<1> QED BY <1>2, <1>3, <1>4, <1>5, <1>6, <1>7
      DEF Next, ThreadStep, AskDrain, Exit

-----------------------------------------------------------------------------
(* The theorems.                                                           *)

\* Spec keeps the invariant.
THEOREM Safe == Spec => []SafeInv
BY SafeInit, SafeKeeps, PTL DEF Spec

(* Every variable of the domain and its client keeps its type: records     *)
(* stay inside the list, slots inside a record.                            *)
THEOREM TypeCorrect == Spec => []TypeOK
<1>1. SafeInv => TypeOK
  BY DEF SafeInv, CoreInv, ClientTypes, TypeOK
<1> QED BY <1>1, Safe, PTL

(* For any number of threads, slots, cells and nodes: a pointer protect    *)
(* returned is not freed while its guard keeps it.                         *)
THEOREM NoUseAfterFreeCorrect == Spec => []NoUseAfterFree
<1>1. SafeInv => NoUseAfterFree
  BY DEF SafeInv, HoldInv, Protected, NoUseAfterFree
<1> QED BY <1>1, Safe, PTL

\* One owner per node, from the inductive invariant.
LEMMA NoneTwice == SafeInv => NothingTwice
<1> SUFFICES ASSUME SafeInv PROVE NothingTwice
  OBVIOUS
<1>0. BagsInv /\ OwnerInv
  BY DEF SafeInv
<1>1. /\ \A x \in Linked : x \notin Unlinked /\ x \notin Waiting
      /\ \A x \in Unlinked : x \notin Waiting
  BY <1>0 DEF OwnerInv, Linked, Unlinked
<1>2. Bagged \subseteq Waiting /\ orphans \subseteq Waiting
  BY DEF Bagged, Waiting
<1>3. Bagged \cap orphans = {}
  BY <1>0 DEF Bagged, BagsInv
<1>4. \A t, u \in Threads : t # u => /\ bag[t] \cap bag[u] = {}
                                     /\ mine[t] = mine[u] => mine[t] = Null
  BY <1>0 DEF BagsInv, OwnerInv
<1> QED BY <1>1, <1>2, <1>3, <1>4 DEF NothingTwice

(* A node is never in two places, so never freed twice, and never lost,    *)
(* whichever threads come, exit and leave orphans.                         *)
THEOREM OneOwnerCorrect == Spec => []OneOwner
<1>1. Init => NoneLost
  BY DEF Init, NoneLost
<1>2. SafeInv /\ NoneLost => OneOwner
  <2> SUFFICES ASSUME SafeInv, NoneLost PROVE OneOwner
    OBVIOUS
  <2>1. Waiting = Bagged \cup orphans
    BY DEF Waiting, Bagged
  <2>2. Linked \cup Unlinked \cup Waiting \subseteq heap
    BY DEF SafeInv, OwnerInv, Linked, Unlinked
  <2> QED BY <2>1, <2>2, NoneTwice DEF OneOwner, NoneLost
<1>3. SafeInv /\ NoneLost /\ [Next]_vars => NoneLost'
  BY LostKeeps
<1> QED BY <1>1, <1>2, <1>3, Safe, PTL DEF Spec

(* A record never has two threads, and a released one names nothing.       *)
THEOREM RecordsExclusiveCorrect == Spec => []RecordsExclusive
<1>1. SafeInv => RecordsExclusive
  BY DEF SafeInv, CoreInv, RecordInv, RecordsExclusive
<1> QED BY <1>1, Safe, PTL

(* There are never more records than threads at the same time, however     *)
(* acquiring and exiting threads interleave.                               *)
THEOREM RecordsBoundedCorrect == Spec => []RecordsBounded
<1>1. SafeInv => RecordsBounded
  BY RecordsFew DEF SafeInv, RecordsBounded
<1> QED BY <1>1, Safe, PTL

(* The garbage bound, for thresholds like the code's 2 * kSlots * nrecords:*)
(* a scan leaves at most K nodes per record, so the bag is below the       *)
(* threshold whenever a call returns.                                      *)
THEOREM BagBoundedCorrect ==
  ASSUME ScanFactor > K
  PROVE  Spec => []BagBounded
<1>1. Init => BoundInv
  BY BoundInit DEF Init
<1>2. SafeInv /\ BoundInv /\ [Next]_vars => BoundInv'
  <2> SUFFICES ASSUME SafeInv, BoundInv, [Next]_vars PROVE BoundInv'
    OBVIOUS
  <2>1. CASE UNCHANGED domainVars
    BY <2>1 DEF domainVars, BoundInv, Bounded, scan_threshold
  <2>2. ASSUME NEW t \in Threads, DomainOp(t) PROVE BoundInv'
    BY <2>2, BoundKeeps DEF SafeInv
  <2> QED BY <2>1, <2>2, NextOp
<1>3. BoundInv => BagBounded
  BY DEF BoundInv, Bounded, BagBounded, DAt
<1> QED BY <1>1, <1>2, <1>3, Safe, PTL DEF Spec

-----------------------------------------------------------------------------
(* The counters.                                                           *)

LEMMA UncountedIs ==
  /\ \A x : x \in Uncounted <=> \E u \in Threads : \E i \in 1 .. ndel[u] : x = <<u, i>>
  /\ \A x : x \in Uncounted' <=> \E u \in Threads : \E i \in 1 .. ndel'[u] : x = <<u, i>>
BY DEF Uncounted

\* One more deletion that is not counted yet.
LEMMA UncountedGrows ==
  ASSUME ndel \in [Threads -> Nat], IsFiniteSet(Uncounted), NEW t \in Threads,
         ndel' = [ndel EXCEPT ![t] = @ + 1]
  PROVE  /\ IsFiniteSet(Uncounted')
         /\ Cardinality(Uncounted') = Cardinality(Uncounted) + 1
<1>1. ndel[t] \in Nat /\ ndel'[t] = ndel[t] + 1
  OBVIOUS
<1>2. \A u \in Threads \ {t} : ndel'[u] = ndel[u]
  OBVIOUS
<1> DEFINE new == <<t, ndel[t] + 1>>
<1>3. new \notin Uncounted
  BY <1>1, UncountedIs
<1>4. Uncounted' = Uncounted \cup {new}
  <2>1. new \in Uncounted'
    BY <1>1, UncountedIs
  <2>2. ASSUME NEW x \in Uncounted PROVE x \in Uncounted'
    <3>1. PICK u \in Threads : \E i \in 1 .. ndel[u] : x = <<u, i>>
      BY UncountedIs
    <3>2. \A i \in 1 .. ndel[u] : i \in 1 .. ndel'[u]
      BY <1>1, <1>2
    <3> QED BY <3>1, <3>2, UncountedIs
  <2>3. ASSUME NEW x \in Uncounted', x # new PROVE x \in Uncounted
    <3>1. PICK u \in Threads : \E i \in 1 .. ndel'[u] : x = <<u, i>>
      BY UncountedIs
    <3>2. PICK i \in 1 .. ndel'[u] : x = <<u, i>>
      BY <3>1
    <3>3. i \in 1 .. ndel[u]
      BY <1>1, <1>2, <2>3, <3>2
    <3> QED BY <3>2, <3>3, UncountedIs
  <2> QED BY <2>1, <2>2, <2>3
<1> HIDE DEF new
<1> QED BY <1>3, <1>4, FS_AddElement

\* A scan adds its deletions to the count.
LEMMA UncountedShrinks ==
  ASSUME ndel \in [Threads -> Nat], IsFiniteSet(Uncounted), NEW t \in Threads,
         ndel' = [ndel EXCEPT ![t] = 0]
  PROVE  /\ IsFiniteSet(Uncounted') /\ Cardinality(Uncounted') \in Nat
         /\ Cardinality(Uncounted) = Cardinality(Uncounted') + ndel[t]
<1> DEFINE own == {t} \X (1 .. ndel[t])
<1>1. ndel[t] \in Nat /\ ndel'[t] = 0 /\ \A u \in Threads \ {t} : ndel'[u] = ndel[u]
  OBVIOUS
<1>2. IsFiniteSet(own) /\ Cardinality(own) = ndel[t]
  <2>1. IsFiniteSet({t}) /\ Cardinality({t}) = 1
    BY FS_Singleton, Zenon
  <2>2. /\ IsFiniteSet(1 .. ndel[t])
        /\ Cardinality(1 .. ndel[t]) = IF 1 > ndel[t] THEN 0 ELSE ndel[t] - 1 + 1
    <3>1. 1 \in Int /\ ndel[t] \in Int
      BY <1>1
    <3> QED BY <3>1, FS_Interval, Zenon
  <2>3. Cardinality(1 .. ndel[t]) = ndel[t]
    BY <1>1, <2>2
  <2>4. IsFiniteSet(own) /\ Cardinality(own) = Cardinality({t}) * Cardinality(1 .. ndel[t])
    BY <2>1, <2>2, FS_Product, Zenon
  <2>5. Cardinality(own) = 1 * ndel[t]
    BY <2>1, <2>3, <2>4
  <2> QED BY <1>1, <2>4, <2>5
<1>3. Uncounted = Uncounted' \cup own
  <2>1. \A x : x \in own <=> \E i \in 1 .. ndel[t] : x = <<t, i>>
    OBVIOUS
  <2>2. \A x : x \in Uncounted <=> x \in Uncounted' \/ x \in own
    BY <1>1, <2>1, UncountedIs
  <2> QED BY <2>2
<1>4. Uncounted' \cap own = {}
  BY <1>1, UncountedIs
<1> HIDE DEF own
<1>5. IsFiniteSet(Uncounted')
  BY <1>3, FS_Subset
<1>6. Cardinality(Uncounted') \in Nat
  BY <1>5, FS_CardinalityType
<1> QED BY <1>1, <1>2, <1>3, <1>4, <1>5, <1>6, FS_Union, FS_EmptySet

\* BooksBalance, with the sets it counts finite.
BooksInv ==
  /\ IsFiniteSet(Waiting) /\ IsFiniteSet(Uncounted)
  /\ retired = freed + Cardinality(Uncounted) + Cardinality(Waiting)

\* Every step keeps the books.
LEMMA BooksKeep ==
  ASSUME SafeInv, BooksInv, [Next]_vars
  PROVE  BooksInv'
<1> USE DEF DAt, DGoto, sharedVars
<1>0. /\ DomainTypeOK /\ retired \in Nat /\ freed \in Nat /\ ndel \in [Threads -> Nat]
      /\ Cardinality(Waiting) \in Nat /\ Cardinality(Uncounted) \in Nat
  BY FS_CardinalityType DEF SafeInv, CoreInv, DomainTypeOK, BooksInv
<1>1. ASSUME UNCHANGED <<retired, freed, ndel, Waiting>>
      PROVE  BooksInv'
  BY <1>1 DEF BooksInv, Uncounted
<1>2. ASSUME NEW t \in Threads, RetireMine(t)
      PROVE  BooksInv'
  <2>1. /\ Waiting' = Waiting \cup {mine[t]} /\ mine[t] \notin Waiting
        /\ retired' = retired + 1 /\ freed' = freed /\ ndel' = ndel
    BY <1>2, RetireKeeps DEF RetireMine, Retire, SafeInv, OwnerInv
  <2>2. IsFiniteSet(Waiting') /\ Cardinality(Waiting') = Cardinality(Waiting) + 1
    BY <2>1, FS_AddElement DEF BooksInv
  <2>3. Uncounted' = Uncounted
    BY <2>1 DEF Uncounted
  <2> QED BY <1>0, <2>1, <2>2, <2>3 DEF BooksInv
<1>3. ASSUME NEW t \in Threads, Delete(t)
      PROVE  BooksInv'
  <2>1. PICK m \in Nodes : /\ ScanFree(t, m) /\ heap' = heap \ {m}
                           /\ UNCHANGED <<src, guarded, cell, hold, mine>>
    BY <1>3 DEF Delete
  <2>2. /\ Waiting' = Waiting \ {m} /\ m \in Waiting
        /\ retired' = retired /\ freed' = freed
        /\ ndel' = [ndel EXCEPT ![t] = @ + 1]
    BY <2>1, DeleteKeeps DEF ScanFree
  <2>3. IsFiniteSet(Waiting') /\ Cardinality(Waiting') = Cardinality(Waiting) - 1
    BY <2>2, FS_RemoveElement DEF BooksInv
  <2>4. /\ IsFiniteSet(Uncounted')
        /\ Cardinality(Uncounted') = Cardinality(Uncounted) + 1
    BY <1>0, <2>2, UncountedGrows DEF BooksInv
  <2> QED BY <1>0, <2>2, <2>3, <2>4 DEF BooksInv
<1>4. ASSUME NEW t \in Threads, ScanEnd(t), UNCHANGED clientVars
      PROVE  BooksInv'
  <2>1. /\ retired' = retired /\ freed' = freed + ndel[t]
        /\ ndel' = [ndel EXCEPT ![t] = 0] /\ ndel[t] \in Nat
    BY <1>0, <1>4 DEF ScanEnd, FreedNow
  <2>2. Waiting' = Waiting
    BY <1>4 DEF ScanEnd, Waiting
  <2>3. /\ IsFiniteSet(Uncounted') /\ Cardinality(Uncounted') \in Nat
        /\ Cardinality(Uncounted) = Cardinality(Uncounted') + ndel[t]
    BY <1>0, <2>1, UncountedShrinks DEF BooksInv
  <2> QED BY <1>0, <2>1, <2>2, <2>3 DEF BooksInv
<1>5. ASSUME NEW t \in Threads, UNCHANGED clientVars,
             DomainStep(t) \/ AskDrain(t) \/ Exit(t), ~ScanEnd(t)
      PROVE  BooksInv'
  <2>1. freed' = freed /\ ndel' = ndel
    BY <1>5 DEF DomainStep, AskDrain, Exit, Drain, ThreadExit, AcqTry, AcqNew,
      AcqLink, ProtectPublish, GuardClear, ClearSlot, RetireCheck, ScanAdopt,
      ScanStart, ScanSlot, PushOrphan, OrphansDone, ExitClear, ReleaseRecord
  <2> QED BY <1>1, <1>5, <2>1, InsideKeeps
<1>6. ASSUME NEW t \in Threads,
             \/ OpenGuard(t) \/ CloseGuard(t) \/ Verify(t)
             \/ \E s \in Slots, c \in Cells : Protect(t, s, c)
      PROVE  BooksInv'
  <2>1. UNCHANGED <<retired, freed, ndel>>
    BY <1>6 DEF OpenGuard, CloseGuard, Verify, Protect, AcqStart, GuardEnd,
      ProtectLoad, ProtectReturn, ProtectRetry, domainVars
  <2> QED BY <1>1, <1>6, <2>1, GuardKeeps
<1>7. ASSUME NEW t \in Threads, NEW c \in Cells, Replace(t, c)
      PROVE  BooksInv'
  BY <1>1, <1>7, ReplaceKeeps DEF domainVars
<1>8. CASE UNCHANGED vars
  BY <1>1, <1>8 DEF vars, domainVars, Waiting
<1> QED BY <1>2, <1>3, <1>4, <1>5, <1>6, <1>7, <1>8
      DEF Next, ThreadStep, AskDrain, Exit

(* retired_count_ and freed_count_ account for every retired node, in any  *)
(* state, without a step missing or counted twice.                         *)
THEOREM BooksBalanceCorrect == Spec => []BooksBalance
<1>1. Init => BooksInv
  <2> SUFFICES ASSUME Init PROVE BooksInv
    OBVIOUS
  <2>1. Waiting = {} /\ Uncounted = {}
    BY DEF Init, DomainInit, Waiting, Uncounted
  <2>2. \A S : S = {} => IsFiniteSet(S) /\ Cardinality(S) = 0
    BY FS_EmptySet, Zenon
  <2> QED BY <2>1, <2>2 DEF Init, DomainInit, BooksInv
<1>2. SafeInv /\ BooksInv /\ [Next]_vars => BooksInv'
  BY BooksKeep
<1>3. BooksInv => BooksBalance
  <2>1. Waiting = Bagged \cup orphans
    BY DEF Waiting, Bagged
  <2> QED BY <2>1 DEF BooksInv, BooksBalance
<1> QED BY <1>1, <1>2, <1>3, Safe, PTL DEF Spec

-----------------------------------------------------------------------------
(* Allocations that fail.  An abandoned call keeps the invariant, which   *)
(* says nothing of lost nodes.                                             *)

\* new record() throws: the thread gives up walking, and has no guard.
LEMMA RecordThrowsKeeps ==
  ASSUME SafeInv, NEW t \in Threads, RecordThrows(t)
  PROVE  SafeInv'
<1> USE DEF DAt, DGoto, sharedVars
<1>0. /\ DomainTypeOK /\ RecordInv /\ ControlInv /\ CountInv
      /\ BagsInv /\ ClientTypes /\ HoldInv /\ OwnerInv
  BY DEF SafeInv, CoreInv
<1>1. /\ dpc[t] = "walk" /\ cur[t] = 0 /\ dpc' = [dpc EXCEPT ![t] = "ready"]
      /\ guarded' = [guarded EXCEPT ![t] = FALSE] /\ ~exiting[t]
      /\ UNCHANGED <<nlinked, nrecords, active, slot, orphans, retired, freed,
                     rec, bag, cur, k, ptr, hz, ndel, exiting>>
      /\ UNCHANGED <<src, heap, cell, hold, mine>>
  BY DEF RecordThrows, Throw
<1>2. DomainTypeOK' /\ RecordInv' /\ ControlInv'
  BY <1>0, <1>1 DEF DomainTypeOK, DomainLabels, RecordInv, ControlInv
<1>3. CountInv'
  <2>1. Linking' = Linking
    BY <1>0, <1>1 DEF Linking, DomainTypeOK
  <2>2. ASSUME NEW j \in 0 .. nlinked
        PROVE  Cardinality(Below(j)') + (nlinked - j) <= Cardinality(Threads)
    <3>1. Below(j) \in SUBSET Threads /\ Below(j)' \in SUBSET Below(j)
      BY <1>0, <1>1 DEF Below, DomainTypeOK
    <3>2. /\ Cardinality(Below(j)') <= Cardinality(Below(j))
          /\ Cardinality(Below(j)') \in Nat /\ Cardinality(Below(j)) \in Nat
          /\ Cardinality(Threads) \in Nat
      BY <3>1, SmallerSet, ThreadSets
    <3> QED BY <1>0, <3>2 DEF CountInv, DomainTypeOK
  <2> QED BY <1>0, <1>1, <2>1, <2>2 DEF CountInv
<1>4. BagsInv' /\ Waiting' = Waiting
  BY <1>0, <1>1 DEF BagsInv, Waiting
<1>5. ClientTypes' /\ OwnerInv'
  BY <1>0, <1>1, <1>4 DEF ClientTypes, OwnerInv
<1>6. HoldInv'
  <2>1. rec[t] = 0 /\ mine[t] = Null
    BY <1>0, <1>1 DEF ControlInv, HoldInv, Calls
  <2>2. \A u \in Threads : Calls(u)'
    BY <1>0, <1>1, <2>1 DEF HoldInv, Calls, DomainTypeOK, ClientTypes
  <2>3. \A u \in Threads : \A r, s, m : Spares(u, r, s, m) => Spares(u, r, s, m)'
    BY <1>0, <1>1 DEF Spares, DomainTypeOK
  <2>4. ASSUME NEW u \in Threads, NEW s \in Slots PROVE Protected(u, s)'
    BY <1>0, <1>1, <2>1, <2>3 DEF HoldInv, Protected, ClientTypes
  <2> QED BY <2>2, <2>4 DEF HoldInv
<1> QED BY <1>2, <1>3, <1>4, <1>5, <1>6 DEF SafeInv, CoreInv

\* push_back throws in retire: the node is nobody's.
LEMMA RetireThrowsKeeps ==
  ASSUME SafeInv, NEW t \in Threads, RetireThrows(t)
  PROVE  SafeInv'
<1>0. CoreInv /\ BagsInv /\ ClientTypes /\ HoldInv /\ OwnerInv
  BY DEF SafeInv
<1>1. /\ UNCHANGED domainVars /\ UNCHANGED <<src, heap, guarded, cell, hold>>
      /\ mine' = [mine EXCEPT ![t] = Null]
  BY DEF RetireThrows
<1>2. CoreInv' /\ BagsInv' /\ Waiting' = Waiting
  BY <1>0, <1>1 DEF CoreInv, BagsInv, Waiting, DomainTypeOK, RecordInv,
    ControlInv, CountInv, Below, Linking, domainVars
<1>3. ClientTypes'
  BY <1>0, <1>1 DEF ClientTypes
<1>4. HoldInv'
  BY <1>0, <1>1 DEF HoldInv, Calls, Protected, Spares, domainVars, ClientTypes
<1>5. OwnerInv'
  <2>1. \A u \in Threads : mine'[u] # Null => mine'[u] = mine[u]
    BY <1>0, <1>1 DEF ClientTypes
  <2> QED BY <1>0, <1>1, <1>2, <2>1 DEF OwnerInv
<1> QED BY <1>2, <1>3, <1>4, <1>5 DEF SafeInv

\* push_back throws in adopt_orphans, or the snapshot of a scan: the call
\* ends before it frees anything.
LEMMA ScanThrowsKeeps ==
  ASSUME SafeInv, NEW t \in Threads, AdoptThrows(t) \/ SnapshotThrows(t)
  PROVE  SafeInv'
<1> USE DEF DAt, DGoto, sharedVars
<1>0. /\ DomainTypeOK /\ RecordInv /\ ControlInv /\ CountInv
      /\ BagsInv /\ ClientTypes /\ HoldInv /\ OwnerInv
  BY DEF SafeInv, CoreInv
<1>1. /\ dpc[t] \in {"adopt", "snap", "slots"}
      /\ dpc' = [dpc EXCEPT ![t] = "ready"] /\ ~exiting[t]
      /\ UNCHANGED <<nlinked, nrecords, active, slot, rec, ptr, ndel, exiting>>
      /\ UNCHANGED clientVars
      /\ retired' = retired /\ freed' = freed
  BY DEF AdoptThrows, SnapshotThrows, Throw, Unsnapped
<1>2. PICK S \in SUBSET orphans :
        /\ bag' = [bag EXCEPT ![t] = @ \cup S]
        /\ orphans' = {} \/ (orphans' = orphans /\ S = {})
  <2>1. CASE AdoptThrows(t)
    BY <2>1 DEF AdoptThrows, Exchanged
  <2>2. CASE SnapshotThrows(t)
    <3>1. bag' = [bag EXCEPT ![t] = @ \cup {}] /\ orphans' = orphans
      BY <1>0, <2>2 DEF SnapshotThrows, DomainTypeOK
    <3> QED BY <3>1
  <2> QED BY <2>1, <2>2
<1>3. /\ hz' \in [Threads -> SUBSET Nodes] /\ hz'[t] = {}
      /\ cur' \in [Threads -> 0 .. MaxRecords] /\ cur'[t] <= nlinked
      /\ k' \in [Threads -> Slots] /\ k'[t] = 0
      /\ \A u \in Threads \ {t} :
           hz'[u] = hz[u] /\ cur'[u] = cur[u] /\ k'[u] = k[u]
  <2>1. CASE AdoptThrows(t)
    BY <1>0, <2>1 DEF AdoptThrows, DomainTypeOK, ControlInv, RecordInv
  <2>2. CASE SnapshotThrows(t)
    BY <1>0, <2>2, SlotNumbers, DomainAssumption DEF SnapshotThrows, DomainTypeOK
  <2> QED BY <2>1, <2>2
<1>4. DomainTypeOK'
  BY <1>0, <1>1, <1>2, <1>3 DEF DomainTypeOK, DomainLabels
<1>5. RecordInv'
  BY <1>0, <1>1, <1>3 DEF RecordInv
<1>6. ControlInv'
  <2>1. ndel[t] = 0
    BY <1>0, <1>1 DEF ControlInv
  <2>2. \A u \in Threads \ {t} : bag'[u] = bag[u] /\ dpc'[u] = dpc[u]
    BY <1>0, <1>1, <1>2 DEF DomainTypeOK
  <2>3. dpc'[t] = "ready"
    BY <1>0, <1>1 DEF DomainTypeOK
  <2> QED BY <1>0, <1>1, <1>3, <2>1, <2>2, <2>3 DEF ControlInv
<1>7. CountInv'
  BY <1>0, <1>1, <1>3, CountFrame DEF DomainTypeOK
<1>8. /\ bag'[t] = bag[t] \cup S
      /\ \A u \in Threads \ {t} : bag'[u] = bag[u]
  BY <1>0, <1>2 DEF DomainTypeOK
<1>9. BagsInv' /\ Waiting' \subseteq Waiting
  <2>1. BagsInv'
    BY <1>0, <1>2, <1>8 DEF BagsInv
  <2>2. \A m : m \in Waiting' => m \in Waiting
    BY <1>2, <1>8, WaitingIs
  <2> QED BY <2>1, <2>2
<1>10. ClientTypes' /\ OwnerInv'
  BY <1>0, <1>1, <1>9 DEF ClientTypes, OwnerInv, clientVars
<1>11. HoldInv'
  <2>1. mine[t] = Null
    BY <1>0, <1>1 DEF HoldInv, Calls
  <2>2. \A u \in Threads : dpc'[u] = IF u = t THEN "ready" ELSE dpc[u]
    BY <1>0, <1>1 DEF DomainTypeOK
  <2>3. \A u \in Threads : Calls(u)'
    BY <1>0, <1>1, <1>3, <2>1, <2>2 DEF HoldInv, Calls, clientVars
  <2>4. \A u \in Threads : \A r, s, m : Spares(u, r, s, m) => Spares(u, r, s, m)'
    BY <1>3, <1>8, <2>2 DEF Spares
  <2>5. ASSUME NEW u \in Threads, NEW s \in Slots PROVE Protected(u, s)'
    BY <1>0, <1>1, <2>4 DEF HoldInv, Protected, clientVars
  <2> QED BY <2>3, <2>5 DEF HoldInv
<1> QED BY <1>4, <1>5, <1>6, <1>7, <1>9, <1>10, <1>11 DEF SafeInv, CoreInv

(* Wherever an allocation fails and the call is abandoned, for any number  *)
(* of failures: nothing that is protected is freed, and nothing is in two  *)
(* bags, hands or cells, so nothing is freed twice.                        *)
THEOREM MemorySafeCorrect == AllocSpec => []MemorySafe
<1>1. AllocInit => SafeInv
  BY SafeInit DEF AllocInit
<1>2. SafeInv /\ [AllocNext]_<<vars, faults>> => SafeInv'
  <2> SUFFICES ASSUME SafeInv, [AllocNext]_<<vars, faults>> PROVE SafeInv'
    OBVIOUS
  <2>1. CASE [Next]_vars
    BY <2>1, SafeKeeps
  <2>2. ASSUME NEW t \in Threads, \/ RecordThrows(t) \/ RetireThrows(t)
                                  \/ AdoptThrows(t) \/ SnapshotThrows(t)
        PROVE  SafeInv'
    BY <2>2, RecordThrowsKeeps, RetireThrowsKeeps, ScanThrowsKeeps
  <2> QED BY <2>1, <2>2 DEF AllocNext
<1>3. SafeInv => MemorySafe
  BY NoneTwice DEF SafeInv, HoldInv, Protected, NoUseAfterFree, MemorySafe
<1> QED BY <1>1, <1>2, <1>3, PTL DEF AllocSpec
=============================================================================

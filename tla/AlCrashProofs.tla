---------------------------- MODULE AlCrashProofs ----------------------------
(***************************************************************************)
(* The steps that take labels away (an emptied log, a committed            *)
(* transaction, a crash) preserve RefsInv, and the steps before a          *)
(* transaction is written preserve IInv, the inductive invariant behind    *)
(* CrashSafe.  What IInv shares with RefsInv (types, labels, one            *)
(* transaction at a time, what waiting writes hold) is a hypothesis there, *)
(* primed.                                                                 *)
(***************************************************************************)
EXTENDS AlStepProofs, TLAPS

USE DEF Writes

\* drbd_al_shrink() takes the label of a slot nobody holds.
LEMMA AlShrinkRefs == ASSUME RefsInv, NEW k \in Slots, AlShrink(k) PROVE RefsInv'
<1>a. /\ adm \in {"suspend", "resize"} /\ refs[k] = {}
      /\ lc_number' = [lc_number EXCEPT ![k] = LC_FREE]
      /\ lc_new_number' = [lc_new_number EXCEPT ![k] = LC_FREE]
      /\ UNCHANGED <<refs, age, starving, dirty, locked>>
      /\ UNCHANGED <<wstate, next_enr, in_actlog, pc, adm>>
  BY DEF AlShrink, lc_del, writeVars, subVars, envVars
<1>b. /\ lc_number'[k] = LC_FREE /\ lc_new_number'[k] = LC_FREE
      /\ \A i \in Slots : i # k => lc_number'[i] = lc_number[i] /\ lc_new_number'[i] = lc_new_number[i]
  BY <1>a, SMTT(30) DEF RefsInv, TypeOK, LcTypeOK
<1>c. ToBeChanged = {} /\ ToBeChanged' = {}
  <2>1. AdminLocked /\ OneTransaction
    BY <1>a DEF RefsInv, AdminLocked
  <2>2. ToBeChanged = {}
    BY <2>1, Zenon DEF OneTransaction
  <2> QED
    BY <1>b, <2>2, Zenon DEF ToBeChanged
<1>d. \A i \in Slots : refs[i] # {} => lc_number'[i] = lc_number[i] /\ lc_new_number'[i] = lc_new_number[i]
  BY <1>a, <1>b, Zenon
<1>1. TypeOK'
  <2>1. LcTypeOK'
    BY <1>a, Zenon DEF RefsInv, TypeOK, LcTypeOK, Labels
  <2> QED
    BY <2>1, SMTT(30) DEF RefsInv, TypeOK, AlShrink, writeVars, subVars, mdVars, envVars
<1>2. UniqueLabels'
  BY <1>b DEF RefsInv, UniqueLabels
<1>3. OneTransaction'
  <2>1. OneTransaction /\ UNCHANGED <<pc, adm, locked, dirty>>
    BY <1>a, Zenon DEF RefsInv
  <2> QED
    BY <1>c, <2>1 DEF OneTransaction, Committing, AdminLocked
<1>4. WaitersHold' /\ PendingComplete'
  <2>1. WaitersHold /\ PendingComplete /\ UNCHANGED <<wstate, next_enr, refs>>
    BY <1>a, Zenon DEF RefsInv
  <2> QED
    BY <1>d, <2>1 DEF WaitersHold, PendingComplete, Ext
<1>5. SubmittedHold'
  <2>1. SubmittedHold /\ UNCHANGED <<wstate, in_actlog, refs>>
    BY <1>a, Zenon DEF RefsInv
  <2> QED
    BY <1>d, <2>1 DEF SubmittedHold, Ext
<1>6. NoneLeft'
  <2>1. NoneLeft /\ UNCHANGED <<wstate, in_actlog, next_enr, refs>>
    BY <1>a DEF RefsInv
  <2> QED
    BY <1>d, <2>1 DEF NoneLeft, Holds, Ext
<1> QED
  BY <1>1, <1>2, <1>3, <1>4, <1>5, <1>6 DEF RefsInv

\* lc_committed(): the pending labels become the labels.
LEMMA CommitEndRefs == ASSUME RefsInv, CommitEnd PROVE RefsInv'
<1>a. /\ pc = "committed" /\ pc' = "submit" /\ lc_number' = lc_new_number
      /\ locked' = FALSE /\ dirty' = FALSE
      /\ UNCHANGED <<lc_new_number, refs, age, starving, tried, peers_done, made_progress, filling, hinted>>
      /\ UNCHANGED <<wstate, next_enr, in_actlog, adm>>
  BY Zenon DEF CommitEnd, lc_committed_unlock, writeVars, envVars
<1>1. TypeOK'
  <2>1. LcTypeOK'
    BY <1>a, ZenonT(30) DEF RefsInv, TypeOK, LcTypeOK
  <2> QED
    BY <1>a, <2>1, SMTT(30) DEF RefsInv, TypeOK, CommitEnd, writeVars, mdVars, envVars
<1>2. UniqueLabels'
  BY <1>a, SMTT(30) DEF RefsInv, UniqueLabels
<1>3. OneTransaction'
  BY <1>a, Zenon DEF RefsInv, OneTransaction, ToBeChanged, Committing, AdminLocked
<1>4. WaitersHold' /\ PendingComplete'
  BY <1>a DEF RefsInv, WaitersHold, PendingComplete
<1>5. SubmittedHold'
  BY <1>a DEF RefsInv, SubmittedHold
<1>6. NoneLeft'
  BY <1>a DEF RefsInv, NoneLeft, Holds
<1> QED
  BY <1>1, <1>2, <1>3, <1>4, <1>5, <1>6 DEF RefsInv

\* After a crash the cache is empty again.
LEMMA CrashRefs == ASSUME RefsInv, Crash PROVE RefsInv'
<1>a. LcReset /\ wstate' = [w \in Writes |-> IF wstate[w] = "new" THEN "new" ELSE "done"]
  BY DEF Crash
<1>1. TypeOK'
  <2>1. LcTypeOK'
    <3>1. lc_number' \in [Slots -> Labels] /\ lc_new_number' \in [Slots -> Labels]
      BY <1>a DEF LcReset, Labels
    <3>2. refs' \in [Slots -> SUBSET Users]
      BY <1>a DEF LcReset
    <3>3. age' \in [Slots -> Nat]
      BY <1>a, NrElementsAssumption DEF LcReset, Slots
    <3> QED
      BY <1>a, <3>1, <3>2, <3>3, Zenon DEF LcReset, LcTypeOK
  <2>2. wstate' \in [Writes -> WState]
    BY <1>a DEF WState
  <2>3. next_enr' \in [Writes -> Nat]
    BY WritesAssumption, ExtentsAssumption, Zenon DEF Crash
  <2>4. bm' \in [Extents -> BOOLEAN] /\ bm_on_disk' \in [Extents -> BOOLEAN]
    BY DEF Crash, Recovered
  <2>5. al_suspended' \in BOOLEAN
    BY Zenon DEF Crash
  <2>6. al_on_disk' \in [Slots -> Labels] /\ in_actlog' \in [Writes -> BOOLEAN]
    BY DEF Crash, Labels
  <2>7. /\ pc' = "idle" /\ tried' = {} /\ hinted' = {}
        /\ peers_done' = FALSE /\ made_progress' = FALSE /\ filling' = FALSE
        /\ connected' = FALSE /\ adm' = "idle" /\ crashes' = crashes + 1
        /\ UNCHANGED <<differs, disk, resizes, suspends>>
    BY DEF Crash
  <2>8. /\ crashes' \in Nat /\ resizes' \in Nat /\ suspends' \in Nat
        /\ differs' \in SUBSET Extents /\ disk' \in {"up", "failed"}
    BY <2>7 DEF RefsInv, TypeOK
  <2> QED
    BY <2>1, <2>2, <2>3, <2>4, <2>5, <2>6, <2>7, <2>8, Zenon DEF TypeOK
<1>2. \A w \in Writes : wstate'[w] \in {"new", "done"} /\ next_enr'[w] = First[w]
  BY <1>a, Zenon DEF Crash
<1>3. UniqueLabels' /\ OneTransaction' /\ NoneLeft'
  BY <1>a, SMTT(30) DEF Crash, LcReset, UniqueLabels, OneTransaction, ToBeChanged, Committing, AdminLocked, NoneLeft
<1>4. WaitersHold' /\ PendingComplete'
  BY <1>2, ExtFacts DEF WaitersHold, PendingComplete, Waiting, Ext
<1>5. SubmittedHold'
  BY <1>2 DEF SubmittedHold, Submitted
<1> QED
  BY <1>1, <1>3, <1>4, <1>5 DEF RefsInv

-----------------------------------------------------------------------------
\* What is left to show of IInv.
LEMMA CrashParts ==
  ASSUME RefsInv', NoResize', LogMatches', InFlightHot', UnloggedMarked', KnownInMemory',
         EvictedWritten', KnownOnDisk'
  PROVE  IInv'
BY Zenon DEF IInv, RefsInv

\* After attaching, the log is empty and nothing is in flight.
LEMMA InitIInv == ASSUME Init PROVE IInv
<1>1. RefsInv
  BY InitRefs
<1>2. NoResize /\ LogMatches /\ InFlightHot
  BY DEF Init, LcInit, NoResize, LogMatches, InFlightHot
<1>3. UnloggedMarked /\ KnownInMemory /\ EvictedWritten /\ KnownOnDisk
  BY DEF Init, LcInit, UnloggedMarked, KnownInMemory, EvictedWritten, KnownOnDisk,
         ToBeChanged, AllSet
<1> QED
  BY <1>1, <1>2, <1>3, Zenon DEF IInv, RefsInv

-----------------------------------------------------------------------------
\* The control steps of do_submit(), an arriving write that is queued, a lost
\* connection: neither disk nor bitmap changes, no write goes into or out of flight.
LEMMA ControlStep == ASSUME IInv, RefsInv', Control PROVE IInv'
<1>a. /\ UNCHANGED <<lc_number, lc_new_number, refs, in_actlog, hinted>>
      /\ UNCHANGED <<al_on_disk, bm_on_disk, bm, differs, disk, al_suspended, adm>>
      /\ connected' => connected
  BY DEF Control, ControlFrame
<1>b. \A w \in Writes :
        /\ wstate[w] = "inflight" <=> wstate'[w] = "inflight"
        /\ wstate[w] \in {"settled", "done"} => wstate'[w] \in {"settled", "done"}
  BY SMT DEF Control, ControlMove, Waiting
<1>c. pc' = pc \/ (pc \notin {"bitmap", "log", "committed"} /\ pc' \notin {"bitmap", "log", "committed"})
  BY SMT DEF Control, ControlPc, Committing
<1>d. ToBeChanged' = ToBeChanged
  BY <1>a DEF ToBeChanged
<1>1. NoResize'
  BY <1>a DEF IInv, NoResize
<1>2. LogMatches'
  BY <1>a, <1>c, <1>d DEF IInv, LogMatches
<1>3. InFlightHot'
  BY <1>a, <1>b DEF IInv, InFlightHot, HotSlot, Ext
<1>4. UnloggedMarked'
  BY <1>a, <1>b DEF IInv, UnloggedMarked, AllSet, Ext
<1>5. KnownInMemory'
  <2> SUFFICES ASSUME NEW e \in differs
               PROVE  KnownInMemory!(e)'
    BY <1>a DEF KnownInMemory
  <2>1. InFlightOn(e)' = InFlightOn(e)
    BY <1>b DEF InFlightOn, Ext
  <2> QED
    BY <1>a, <1>b, <2>1 DEF IInv, KnownInMemory, HotSlot
<1>6. EvictedWritten'
  BY <1>a, <1>c, <1>d DEF IInv, EvictedWritten
<1>7. KnownOnDisk'
  BY <1>a, <1>c DEF IInv, KnownOnDisk
<1> QED
  BY <1>1, <1>2, <1>3, <1>4, <1>5, <1>6, <1>7, CrashParts

-----------------------------------------------------------------------------
\* drbd_send_and_submit() of a write whose extents are hot, or of an application
\* write while the log is suspended.
LEMMA SubmitStep ==
  ASSUME IInv, RefsInv', NEW w \in Writes, NEW logged \in BOOLEAN,
         wstate[w] \in Waiting \cup {"pending"},
         Submit(w, logged),
         UNCHANGED <<lc_number, lc_new_number, hinted, pc, al_on_disk, bm_on_disk, disk>>,
         UNCHANGED <<connected, al_suspended, adm>>,
         \A i \in Slots : refs[i] \subseteq refs'[i],
         ~logged => al_suspended
  PROVE  IInv'
<1>a. \A v \in Writes : v # w => wstate'[v] = wstate[v] /\ (in_actlog'[v] <=> in_actlog[v])
  BY Zenon DEF IInv, TypeOK, Submit
<1>b. /\ wstate'[w] = IF disk = "up" THEN "inflight" ELSE "refused"
      /\ in_actlog'[w] <=> logged
      /\ differs' = IF disk = "up" THEN differs \cup Ext(w) ELSE differs
  BY Zenon DEF IInv, TypeOK, Submit
<1>c. \A e \in Extents : bm[e] => bm'[e]
  BY Zenon DEF IInv, TypeOK, Submit
<1>d. Ext(w) \subseteq Extents /\ LC_FREE \notin Ext(w)
  BY ExtFacts
<1>t. ToBeChanged' = ToBeChanged
  BY DEF ToBeChanged
<1>e. logged /\ disk = "up" => \A e \in Ext(w) : \E i \in Slots : HotSlot(i, w, e)'
  <2> SUFFICES ASSUME logged, disk = "up", NEW e \in Ext(w)
               PROVE  \E i \in Slots : HotSlot(i, w, e)'
    OBVIOUS
  <2>1. wstate'[w] \in Submitted /\ in_actlog'[w] /\ e # LC_FREE /\ e \in Ext(w)'
    BY <1>b, <1>d DEF Submitted, Ext
  <2>2. PICK i \in Slots : w \in refs'[i] /\ lc_number'[i] = e /\ lc_new_number'[i] = e
    BY <2>1, Zenon DEF RefsInv, SubmittedHold
  <2>3. al_on_disk[i] = e
    BY <2>1, <2>2, Zenon DEF IInv, LogMatches
  <2> QED
    BY <2>2, <2>3 DEF HotSlot
<1>f. ~logged => ~connected /\ AllSet
  BY Zenon DEF IInv, UnloggedMarked
<1>1. NoResize'
  BY DEF IInv, NoResize
<1>2. LogMatches'
  BY <1>t, Zenon DEF IInv, LogMatches
<1>3. InFlightHot'
  <2> SUFFICES ASSUME NEW v \in Writes, wstate'[v] = "inflight", in_actlog'[v], NEW e \in Ext(v)
               PROVE  \E i \in Slots : HotSlot(i, v, e)'
    BY Zenon DEF InFlightHot, Ext
  <2>1. CASE v = w
    BY <2>1, <1>b, <1>e, Zenon
  <2>2. CASE v # w
    <3>1. wstate[v] = "inflight" /\ in_actlog[v]
      BY <2>2, <1>a, Zenon
    <3>2. PICK i \in Slots : HotSlot(i, v, e)
      BY <3>1, Zenon DEF IInv, InFlightHot
    <3> QED
      BY <3>2, Zenon DEF HotSlot
  <2> QED
    BY <2>1, <2>2, Zenon
<1>4. UnloggedMarked'
  <2>1. (al_suspended => ~connected /\ AllSet)' /\ (adm = "suspend" => AllSet)'
    BY <1>c DEF IInv, UnloggedMarked, AllSet
  <2>2. ASSUME NEW v \in Writes, wstate'[v] = "inflight", ~in_actlog'[v], NEW e \in Ext(v)
        PROVE  bm'[e] /\ bm_on_disk'[e]
    <3>1. e \in Extents
      BY ExtFacts, Zenon
    <3>2. CASE v = w
      BY <2>2, <3>1, <3>2, <1>b, <1>c, <1>f DEF AllSet
    <3>3. CASE v # w
      BY <2>2, <3>1, <3>3, <1>a, <1>c, Zenon DEF IInv, UnloggedMarked
    <3> QED
      BY <3>2, <3>3
  <2> QED
    BY <2>1, <2>2 DEF UnloggedMarked, Ext
<1>5. KnownInMemory'
  <2> SUFFICES ASSUME NEW e \in differs'
               PROVE  KnownInMemory!(e)'
    BY DEF KnownInMemory
  <2>0. e \in Extents
    BY DEF RefsInv, TypeOK
  <2>1. CASE e \in differs
    <3>1. \A v \in InFlightOn(e) : in_actlog[v] => v \in InFlightOn(e)' /\ in_actlog'[v]
      BY <1>a, Zenon DEF InFlightOn, Ext, Waiting
    <3>2. \A i \in Slots, v \in Writes :
             wstate[v] \in {"settled", "done"} /\ HotSlot(i, v, e) =>
               wstate'[v] \in {"settled", "done"} /\ HotSlot(i, v, e)'
      BY <1>a DEF HotSlot, Waiting
    <3> QED
      BY <2>0, <2>1, <3>1, <3>2, <1>c, Zenon DEF IInv, KnownInMemory
  <2>2. CASE e \notin differs
    <3>1. disk = "up" /\ e \in Ext(w) /\ w \in InFlightOn(e)'
      BY <2>2, <1>b, Zenon DEF InFlightOn, Ext
    <3> QED
      BY <2>0, <3>1, <1>b, <1>c, <1>f, Zenon DEF AllSet
  <2> QED
    BY <2>1, <2>2, Zenon
<1>6. EvictedWritten'
  <2>1. ASSUME NEW i \in ToBeChanged, lc_number[i] \in Ext(w), disk = "up" PROVE bm_on_disk[lc_number[i]]
    <3>1. CASE logged
      <4>1. PICK j \in Slots : HotSlot(j, w, lc_number[i])'
        BY <2>1, <3>1, <1>e
      <4> QED
        BY <2>1, <4>1, <1>d, Zenon DEF HotSlot, ToBeChanged, IInv, UniqueLabels
    <3>2. CASE ~logged
      BY <2>1, <3>2, <1>d, <1>f DEF AllSet
    <3> QED
      BY <3>1, <3>2, Zenon
  <2> QED
    BY <1>b, <1>t, <2>1 DEF IInv, EvictedWritten
<1>7. KnownOnDisk'
  <2> SUFFICES ASSUME NEW e \in Ext(w), disk = "up"
               PROVE  KnownOnDisk!(e)'
    BY <1>b DEF IInv, KnownOnDisk
  <2> QED
    BY <1>d, <1>e, <1>f, ZenonT(30) DEF AllSet, HotSlot
<1> QED
  BY <1>1, <1>2, <1>3, <1>4, <1>5, <1>6, <1>7, CrashParts, Zenon

\* The submission of an arriving or a queued write whose extents are hot, of an
\* application write while the log is suspended, and of a write of a committed
\* transaction.
LEMMA SubmittingStep ==
  ASSUME IInv, RefsInv', NEW w \in Writes,
         ArriveHot(w) \/ ArriveUnlogged(w) \/ FastSubmit(w) \/ SubmitPending(w)
  PROVE  IInv'
<1>1. wstate[w] \in Waiting \cup {"pending"}
  BY Zenon DEF ArriveHot, ArriveUnlogged, FastSubmit, SubmitPending, Arrives, NextUntried, Untried,
         In, IsFirst, Waiting
<1>2. refs \in [Slots -> SUBSET Users]
  BY DEF IInv, TypeOK, LcTypeOK
<1>3. CASE ArriveHot(w) \/ FastSubmit(w)
  <2>1. Submit(w, TRUE) /\ FastPath(w) /\ UNCHANGED <<hinted, pc, al_on_disk, bm_on_disk>>
    BY <1>3, Zenon DEF ArriveHot, FastSubmit, subVars, mdVars
  <2>2. UNCHANGED <<disk, connected, al_suspended, adm>>
    BY <1>3, Zenon DEF ArriveHot, FastSubmit, envVars
  <2>3. UNCHANGED <<lc_number, lc_new_number>> /\ \A i \in Slots : refs[i] \subseteq refs'[i]
    BY <1>2, <2>1 DEF FastPath, lc_try_get
  <2> QED
    BY <1>1, <2>1, <2>2, <2>3, SubmitStep, Zenon
<1>4. CASE SubmitPending(w)
  <2>1. Submit(w, TRUE) /\ UNCHANGED <<hinted, pc, al_on_disk, bm_on_disk>>
    BY <1>4, Zenon DEF SubmitPending, subVars, mdVars
  <2>2. UNCHANGED <<disk, connected, al_suspended, adm, lc_number, lc_new_number, refs>>
    BY <1>4, Zenon DEF SubmitPending, envVars, lcVars
  <2> QED
    BY <1>1, <2>1, <2>2, SubmitStep, Zenon
<1>5. CASE ArriveUnlogged(w)
  <2>1. Submit(w, FALSE) /\ al_suspended /\ UNCHANGED <<hinted, pc, al_on_disk, bm_on_disk>>
    BY <1>5, Zenon DEF ArriveUnlogged, Unlogged, subVars, mdVars
  <2>2. UNCHANGED <<disk, connected, al_suspended, adm, lc_number, lc_new_number, refs>>
    BY <1>5, Zenon DEF ArriveUnlogged, envVars, lcVars
  <2> QED
    BY <1>1, <2>1, <2>2, SubmitStep, Zenon
<1> QED
  BY <1>3, <1>4, <1>5

-----------------------------------------------------------------------------
\* The end of a write that every replica has.
LEMMA SettleInSyncStep == ASSUME IInv, RefsInv', NEW w \in Writes, SettleInSync(w) PROVE IInv'
<1>a. /\ wstate[w] = "inflight" /\ in_actlog[w] /\ wstate' = [wstate EXCEPT ![w] = "settled"]
      /\ differs' = differs \ {e \in Ext(w) : ~bm[e] /\ InFlightOn(e) = {w}}
      /\ UNCHANGED <<lc_number, lc_new_number, refs, in_actlog, pc, hinted>>
      /\ UNCHANGED <<al_on_disk, bm_on_disk, bm, disk, connected, al_suspended, adm>>
  BY DEF SettleInSync, lcVars, subVars, mdVars, envVars
<1>c. wstate'[w] = "settled" /\ \A v \in Writes : v # w => wstate'[v] = wstate[v]
  BY <1>a DEF IInv, TypeOK
<1>1. NoResize'
  BY <1>a DEF IInv, NoResize
<1>4. LogMatches'
  BY <1>a, Zenon DEF IInv, LogMatches, ToBeChanged
<1>5. InFlightHot'
  <2> SUFFICES ASSUME NEW v \in Writes, wstate'[v] = "inflight", in_actlog'[v], NEW e \in Ext(v)
               PROVE  \E i \in Slots : HotSlot(i, v, e)'
    BY Zenon DEF InFlightHot, Ext
  <2>1. wstate[v] = "inflight" /\ in_actlog[v]
    BY <1>a, <1>c, Zenon
  <2>2. PICK i \in Slots : HotSlot(i, v, e)
    BY <2>1, Zenon DEF IInv, InFlightHot
  <2> QED
    BY <2>2, <1>a, Zenon DEF HotSlot
<1>6. UnloggedMarked'
  BY <1>a, <1>c, SMTT(30) DEF IInv, UnloggedMarked, AllSet
<1>7. KnownInMemory'
  <2> SUFFICES ASSUME NEW e \in differs', ~bm[e]
               PROVE  KnownInMemory!(e)'
    BY <1>a, Zenon DEF KnownInMemory
  <2>1. ASSUME NEW v \in InFlightOn(e), v # w PROVE v \in InFlightOn(e)' /\ in_actlog'[v]
    BY <1>a, <1>c, <2>1, ZenonT(30) DEF InFlightOn, Ext, IInv, UnloggedMarked
  <2>2. CASE \E v \in InFlightOn(e) : in_actlog[v]
    <3>1. \E v \in InFlightOn(e) : v # w
      BY <1>a, <2>2, Zenon DEF InFlightOn
    <3> QED
      BY <2>1, <3>1
  <2>3. CASE disk = "failed" /\ \E i \in Slots, v \in Writes :
               Kind[v] = "peer" /\ wstate[v] \in {"settled", "done"} /\ HotSlot(i, v, e)
    BY <1>a, <1>c, <2>3, ZenonT(30) DEF HotSlot
  <2> QED
    BY <1>a, <2>2, <2>3, Zenon DEF IInv, KnownInMemory
<1>8. EvictedWritten'
  BY <1>a DEF IInv, EvictedWritten, ToBeChanged
<1>9. KnownOnDisk'
  BY <1>a DEF IInv, KnownOnDisk
<1> QED
  BY <1>1, <1>4, <1>5, <1>6, <1>7, <1>8, <1>9, CrashParts, Zenon

\* The end of a write that some replica has not: the bits are set, unless the disk
\* of a peer write has failed; then its references stay.
LEMMA SettleOutOfSyncStep == ASSUME IInv, RefsInv', NEW w \in Writes, SettleOutOfSync(w) PROVE IInv'
<1>a. /\ wstate[w] \in {"inflight", "refused"} /\ wstate' = [wstate EXCEPT ![w] = "settled"]
      /\ bm' = [e \in Extents |-> bm[e] \/ (HasLdev(w) /\ e \in Ext(w))]
      /\ UNCHANGED <<lc_number, lc_new_number, refs, in_actlog, pc, hinted>>
      /\ UNCHANGED <<al_on_disk, bm_on_disk, differs, disk, connected, al_suspended, adm>>
  BY DEF SettleOutOfSync, lcVars, subVars, mdVars, envVars
<1>c. wstate'[w] = "settled" /\ \A v \in Writes : v # w => wstate'[v] = wstate[v]
  BY <1>a DEF IInv, TypeOK
<1>d. \A e \in Extents : (bm[e] => bm'[e]) /\ (HasLdev(w) /\ e \in Ext(w) => bm'[e])
  BY <1>a, Zenon DEF IInv, TypeOK
<1>1. NoResize'
  BY <1>a, Zenon DEF IInv, NoResize
<1>4. LogMatches'
  BY <1>a, ZenonT(30) DEF IInv, LogMatches, ToBeChanged
<1>5. InFlightHot'
  <2>1. InFlightHot /\ UNCHANGED <<lc_number, lc_new_number, refs, in_actlog, al_on_disk>>
    BY <1>a, Zenon DEF IInv
  <2>2. \A v \in Writes : wstate'[v] = "inflight" => wstate[v] = "inflight"
    BY <1>c, Zenon
  <2> QED
    BY <2>1, <2>2, ZenonT(30) DEF InFlightHot, HotSlot
<1>6. UnloggedMarked'
  BY <1>a, <1>c, <1>d, ExtFacts, ZenonT(30) DEF IInv, UnloggedMarked, AllSet, Ext
<1>7. KnownInMemory'
  <2> SUFFICES ASSUME NEW e \in differs, ~bm'[e]
               PROVE  KnownInMemory!(e)'
    BY <1>a DEF KnownInMemory
  <2>0. e \in Extents /\ ~bm[e] /\ ~(HasLdev(w) /\ e \in Ext(w))
    BY <1>d, ZenonT(30) DEF IInv, TypeOK
  <2>1. CASE \E v \in InFlightOn(e) : in_actlog[v]
    <3>1. PICK v \in InFlightOn(e) : in_actlog[v]
      BY <2>1, ZenonT(30)
    <3>2. CASE v # w
      BY <1>a, <1>c, <3>1, <3>2, ZenonT(30) DEF InFlightOn, Ext
    <3>3. CASE v = w
      <4>1. Kind[w] = "peer" /\ disk = "failed"
        BY <2>0, <3>3, WritesAssumption, Zenon DEF InFlightOn, HasLdev, IInv, TypeOK
      <4>2. \E i \in Slots : HotSlot(i, w, e)'
        BY <1>a, <3>1, <3>3, Zenon DEF IInv, InFlightHot, InFlightOn, HotSlot
      <4> QED
        BY <1>a, <1>c, <4>1, <4>2, Zenon
    <3> QED
      BY <3>2, <3>3, ZenonT(30)
  <2>2. CASE disk = "failed" /\ \E i \in Slots, v \in Writes :
               Kind[v] = "peer" /\ wstate[v] \in {"settled", "done"} /\ HotSlot(i, v, e)
    BY <1>a, <1>c, <2>2, Zenon DEF HotSlot
  <2> QED
    BY <2>0, <2>1, <2>2 DEF IInv, KnownInMemory
<1>8. EvictedWritten'
  BY <1>a, ZenonT(30) DEF IInv, EvictedWritten, ToBeChanged
<1>9. KnownOnDisk'
  BY <1>a, ZenonT(30) DEF IInv, KnownOnDisk
<1> QED
  BY <1>1, <1>4, <1>5, <1>6, <1>7, <1>8, <1>9, CrashParts, Zenon

\* drbd_al_complete_io()
LEMMA AlCompleteIoStep == ASSUME IInv, RefsInv', NEW w \in Writes, AlCompleteIo(w) PROVE IInv'
<1>a. /\ wstate[w] = "settled" /\ wstate' = [wstate EXCEPT ![w] = "done"]
      /\ UNCHANGED <<in_actlog, pc, hinted, al_on_disk, bm_on_disk, bm, differs, disk>>
      /\ UNCHANGED <<connected, al_suspended, adm>>
  BY Zenon DEF AlCompleteIo, subVars, mdVars, envVars
<1>b. \/ UNCHANGED <<lc_number, lc_new_number, refs>>
      \/ HasLdev(w) /\ lc_put(w, Ext(w))
  BY DEF AlCompleteIo, lcVars
<1>c. wstate'[w] = "done" /\ \A v \in Writes : v # w => wstate'[v] = wstate[v]
  BY <1>a, Zenon DEF IInv, TypeOK
<1>d. UNCHANGED <<lc_number, lc_new_number>>
  BY <1>b, Zenon DEF lc_put
<1>e. \A i \in Slots, v \in Writes : v # w /\ v \in refs[i] => v \in refs'[i]
  <2>1. CASE UNCHANGED <<lc_number, lc_new_number, refs>>
    BY <2>1, Zenon
  <2>2. CASE lc_put(w, Ext(w))
    <3>1. refs' = [i \in Slots |-> IF lc_number[i] = lc_new_number[i] /\ lc_number[i] \in Ext(w)
                                   THEN refs[i] \ {w} ELSE refs[i]]
      BY <2>2 DEF lc_put
    <3> QED
      BY <3>1, ZenonT(30)
  <2> QED
    BY <1>b, <2>1, <2>2, Zenon
<1>f. \A i \in Slots, v \in Writes, e \in Extents : v # w /\ HotSlot(i, v, e) => HotSlot(i, v, e)'
  BY <1>a, <1>d, <1>e, Zenon DEF HotSlot
<1>1. NoResize'
  BY <1>a, Zenon DEF IInv, NoResize
<1>2. LogMatches'
  BY <1>a, <1>d, Zenon DEF IInv, LogMatches, ToBeChanged
<1>3. InFlightHot'
  BY <1>a, <1>c, <1>f, ExtFacts, Zenon DEF IInv, InFlightHot, Ext
<1>4. UnloggedMarked'
  BY <1>a, <1>c, Zenon DEF IInv, UnloggedMarked, AllSet
<1>5. KnownInMemory'
  <2> SUFFICES ASSUME NEW e \in differs, ~bm[e]
               PROVE  KnownInMemory!(e)'
    BY <1>a, Zenon DEF KnownInMemory
  <2>0. e \in Extents
    BY Zenon DEF IInv, TypeOK
  <2>1. CASE \E v \in InFlightOn(e) : in_actlog[v]
    BY <1>a, <1>c, <2>1, Zenon DEF InFlightOn, Ext
  <2>2. CASE disk = "failed" /\ \E i \in Slots, v \in Writes :
               Kind[v] = "peer" /\ wstate[v] \in {"settled", "done"} /\ HotSlot(i, v, e)
    <3>1. PICK i \in Slots, v \in Writes :
            Kind[v] = "peer" /\ wstate[v] \in {"settled", "done"} /\ HotSlot(i, v, e)
      BY <2>2
    <3>2. HotSlot(i, v, e)'
      <4>1. CASE v # w
        BY <4>1, <3>1, <1>f, <2>0, Zenon
      <4>2. CASE v = w
        BY <4>2, <3>1, <2>2, <1>a, <1>b, Zenon DEF HasLdev, HotSlot
      <4> QED
        BY <4>1, <4>2, Zenon
    <3>3. wstate'[v] \in {"settled", "done"}
      BY <3>1, <1>c, Zenon
    <3> QED
      BY <3>1, <3>2, <3>3, <2>2, <1>a, ZenonT(30)
  <2> QED
    BY <2>1, <2>2, Zenon DEF IInv, KnownInMemory
<1>6. EvictedWritten'
  BY <1>a, <1>d, Zenon DEF IInv, EvictedWritten, ToBeChanged
<1>7. KnownOnDisk'
  BY <1>a, <1>d, Zenon DEF IInv, KnownOnDisk
<1> QED
  BY <1>1, <1>2, <1>3, <1>4, <1>5, <1>6, <1>7, CrashParts, Zenon

\* Resync clears bits; extents with writes in flight stay hot.
LEMMA ResyncClearsStep == ASSUME IInv, RefsInv', NEW e \in Extents, ResyncClears(e) PROVE IInv'
<1>a. /\ connected /\ disk = "up" /\ adm # "suspend"
      /\ \A w \in InFlightOn(e) : in_actlog[w]
      /\ differs' = IF InFlightOn(e) = {} THEN differs \ {e} ELSE differs
      /\ UNCHANGED <<lc_number, lc_new_number, refs, wstate, in_actlog, pc>>
      /\ UNCHANGED <<hinted, al_on_disk, bm_on_disk, disk, connected, al_suspended, adm>>
  BY DEF ResyncClears, lcVars, writeVars, subVars, mdVars, envVars
<1>c. \A f \in Extents : f # e => bm'[f] = bm[f]
  BY DEF ResyncClears, IInv, TypeOK
<1>1. NoResize'
  BY <1>a, Zenon DEF IInv, NoResize
<1>4. LogMatches'
  BY <1>a, Zenon DEF IInv, LogMatches, ToBeChanged
<1>5. InFlightHot'
  BY <1>a, Zenon DEF IInv, InFlightHot, HotSlot
<1>6. UnloggedMarked'
  <2>1. ASSUME NEW w \in Writes, wstate[w] = "inflight", ~in_actlog[w], NEW f \in Ext(w)
        PROVE  bm'[f] /\ bm_on_disk[f]
    BY <1>a, <1>c, <2>1, ExtFacts, ZenonT(30) DEF IInv, UnloggedMarked, InFlightOn
  <2> QED
    BY <1>a, <2>1, Zenon DEF IInv, UnloggedMarked
<1>7. KnownInMemory'
  <2> SUFFICES ASSUME NEW f \in differs'
               PROVE  KnownInMemory!(f)'
    BY Zenon DEF KnownInMemory
  <2>0. f \in differs /\ f \in Extents /\ InFlightOn(f)' = InFlightOn(f)
    BY <1>a, Zenon DEF InFlightOn, IInv, TypeOK
  <2>1. CASE f = e
    BY <1>a, <2>0, <2>1, Zenon
  <2>2. CASE f # e
    BY <1>a, <1>c, <2>0, <2>2, Zenon DEF IInv, KnownInMemory
  <2> QED
    BY <2>1, <2>2, Zenon
<1>8. EvictedWritten'
  BY <1>a, ZenonT(30) DEF IInv, EvictedWritten, ToBeChanged
<1>9. KnownOnDisk'
  BY <1>a DEF IInv, KnownOnDisk
<1> QED
  BY <1>1, <1>4, <1>5, <1>6, <1>7, <1>8, <1>9, CrashParts, ZenonT(30)

\* A reconnect: drbd_resume_al() turns the log on again.
LEMMA ConnectStep == ASSUME IInv, RefsInv', Connect PROVE IInv'
<1>a. /\ UNCHANGED <<lc_number, lc_new_number, refs, wstate, in_actlog, pc, hinted>>
      /\ UNCHANGED <<al_on_disk, bm_on_disk, bm, differs, disk, adm>>
      /\ al_suspended' = FALSE
  BY Zenon DEF Connect, lcVars, writeVars, subVars, mdVars
<1>1. NoResize'
  BY <1>a, Zenon DEF IInv, NoResize
<1>2. LogMatches'
  BY <1>a, Zenon DEF IInv, LogMatches, ToBeChanged
<1>3. InFlightHot'
  BY <1>a, Zenon DEF IInv, InFlightHot, HotSlot
<1>4. UnloggedMarked'
  BY <1>a, Zenon DEF IInv, UnloggedMarked, AllSet
<1>5. KnownInMemory'
  BY <1>a, ZenonT(30) DEF IInv, KnownInMemory, InFlightOn, HotSlot
<1>6. EvictedWritten' /\ KnownOnDisk'
  BY <1>a DEF IInv, EvictedWritten, KnownOnDisk, ToBeChanged
<1> QED
  BY <1>1, <1>2, <1>3, <1>4, <1>5, <1>6, CrashParts

\* A failing disk loses nothing that is on it.
LEMMA DiskFailsStep == ASSUME IInv, RefsInv', DiskFails PROVE IInv'
<1>a. /\ UNCHANGED <<lc_number, lc_new_number, refs, wstate, in_actlog, pc, hinted>>
      /\ UNCHANGED <<al_on_disk, bm_on_disk, bm, differs, connected, al_suspended, adm>>
      /\ disk' = "failed"
  BY Zenon DEF DiskFails, lcVars, writeVars, subVars, mdVars, envVars
<1>1. NoResize'
  BY <1>a, Zenon DEF IInv, NoResize
<1>2. LogMatches'
  BY <1>a, Zenon DEF IInv, LogMatches, ToBeChanged
<1>3. InFlightHot'
  BY <1>a, Zenon DEF IInv, InFlightHot, HotSlot
<1>4. UnloggedMarked'
  BY <1>a, Zenon DEF IInv, UnloggedMarked, AllSet
<1>5. KnownInMemory'
  BY <1>a, ZenonT(30) DEF IInv, KnownInMemory, InFlightOn, HotSlot
<1>6. EvictedWritten' /\ KnownOnDisk'
  BY <1>a DEF IInv, EvictedWritten, KnownOnDisk, ToBeChanged
<1> QED
  BY <1>1, <1>2, <1>3, <1>4, <1>5, <1>6, CrashParts

\* All bits are set, and the log is locked if it can be.
LEMMA SetAllSuspendAlStep == ASSUME IInv, RefsInv', SetAllSuspendAl PROVE IInv'
<1>a. /\ adm = "idle" /\ disk = "up" /\ pc # "prepare"
      /\ bm' = [e \in Extents |-> TRUE] /\ bm_on_disk' = [e \in Extents |-> TRUE]
      /\ UNCHANGED <<lc_number, lc_new_number, refs>>
      /\ UNCHANGED <<wstate, in_actlog, pc, hinted>>
      /\ UNCHANGED <<al_on_disk, differs, disk, connected, al_suspended>>
      /\ suspends' = suspends + 1
      /\ \/ adm' = adm /\ locked' = locked
         \/ adm' = "suspend" /\ locked' = TRUE /\ ~locked /\ ~dirty
  BY Zenon DEF SetAllSuspendAl, AlLockFree, lc_try_lock, lcVars, writeVars, subVars
<1>c. AllSet' /\ differs' \subseteq Extents
  BY <1>a DEF AllSet, IInv, TypeOK
<1>1. NoResize'
  BY <1>a, Zenon DEF IInv, NoResize
<1>3. LogMatches'
  BY <1>a, Zenon DEF IInv, LogMatches, ToBeChanged
<1>4. InFlightHot'
  BY <1>a, ZenonT(30) DEF IInv, InFlightHot, HotSlot
<1>5. UnloggedMarked'
  BY <1>a, <1>c, ExtFacts, Zenon DEF IInv, UnloggedMarked, AllSet, Ext
<1>6. KnownInMemory' /\ KnownOnDisk'
  BY <1>c, Zenon DEF KnownInMemory, KnownOnDisk, AllSet
<1>7. EvictedWritten'
  BY <1>c DEF EvictedWritten, AllSet
<1> QED
  BY <1>1, <1>3, <1>4, <1>5, <1>6, <1>7, CrashParts, Zenon

\* One extent joins the transaction, or one more holder an extent of the log.
LEMMA PrepareActivateStep == ASSUME IInv, RefsInv', NEW w \in Writes, PrepareActivate(w) PROVE IInv'
<1> DEFINE e0 == next_enr[w]
<1>a. wstate[w] = "incoming" /\ pc = "prepare" /\ ~locked
  BY ZenonT(30) DEF PrepareActivate, PeerHead, AppHead, In, IsFirst, IInv, OneTransaction
<1>b. e0 \in Ext(w) /\ e0 \in Extents /\ e0 \in Nat /\ e0 # LC_FREE
  <2>1. e0 \in Ext(w)
    BY <1>a, Zenon DEF IInv, WaitersHold, Waiting
  <2> QED
    BY <2>1, ExtFacts, Zenon
<1>c. /\ UNCHANGED <<lc_number, age, locked, in_actlog, pc, peers_done, filling, hinted>>
      /\ UNCHANGED <<al_on_disk, bm_on_disk, bm, differs, disk, connected, al_suspended, adm,
                     crashes, resizes, suspends>>
      /\ starving' = FALSE
  <2>1. ~starving /\ (lc_get_present(w, e0) \/ lc_get_change(w, e0))
    BY ZenonT(30) DEF PrepareActivate, lc_get_present, lc_get_change
  <2> QED
    BY <2>1, Zenon DEF PrepareActivate, lc_get_present, lc_get_change, mdVars, envVars, IInv, TypeOK, LcTypeOK
<1>d. \/ /\ lc_new_number' = lc_new_number /\ dirty' = dirty
         /\ refs' = [i \in Slots |-> IF lc_new_number[i] = e0 THEN refs[i] \cup {w} ELSE refs[i]]
         /\ \E i \in Slots : lc_new_number[i] = e0
      \/ /\ dirty' = TRUE
         /\ \A i \in Slots : lc_new_number[i] # e0
         /\ \E k \in Slots :
              /\ k \in FreeList \cup Lru
              /\ lc_new_number' = [lc_new_number EXCEPT ![k] = e0]
              /\ refs' = [refs EXCEPT ![k] = @ \cup {w}]
  BY DEF PrepareActivate, lc_get_present, lc_get_change, lc_find_changing, Recyclable
<1>e. \A k \in FreeList \cup Lru :
        lc_number[k] = lc_new_number[k] /\ (lc_number[k] = LC_FREE \/ refs[k] = {})
  BY DEF FreeList, Lru
<1>f. /\ next_enr' = [next_enr EXCEPT ![w] = e0 + 1]
      /\ wstate' = [wstate EXCEPT ![w] = IF e0 = Last[w] THEN "pending" ELSE "incoming"]
  <2>1. wstate \in [Writes -> WState]
    BY ZenonT(30) DEF IInv, TypeOK
  <2> QED
    BY <1>a, <2>1 DEF PrepareActivate
<1>h. \A i \in Slots : refs[i] \subseteq refs'[i]
  BY <1>d DEF IInv, TypeOK, LcTypeOK
\* A slot that is held keeps its label.
<1>j. \A i \in Slots : refs[i] # {} /\ lc_new_number[i] # LC_FREE => lc_new_number'[i] = lc_new_number[i]
  BY <1>d, <1>e, SMTT(30) DEF IInv, TypeOK, LcTypeOK
<1>1. NoResize'
  BY <1>c, SMTT(30) DEF IInv, NoResize
<1>5. LogMatches'
  BY <1>a, <1>c, Zenon DEF IInv, LogMatches
\* The references and labels of hot slots stay.
<1>l. \A i \in Slots, v \in Writes, e \in Extents : HotSlot(i, v, e) => HotSlot(i, v, e)'
  <2> SUFFICES ASSUME NEW i \in Slots, NEW v \in Writes, NEW e \in Extents, HotSlot(i, v, e)
               PROVE  HotSlot(i, v, e)'
    BY Zenon
  <2>1. e # LC_FREE
    BY ExtentsAssumption DEF LC_FREE
  <2>2. v \in refs[i] /\ lc_new_number[i] = e
    BY Zenon DEF HotSlot
  <2>3. v \in refs'[i] /\ lc_new_number'[i] = e
    BY <2>1, <2>2, <1>h, <1>j, Zenon
  <2> QED
    BY <2>3, <1>c, Zenon DEF HotSlot
<1>m. \A v \in Writes : (wstate'[v] = "inflight" <=> wstate[v] = "inflight")
                        /\ (wstate[v] \in {"settled", "done"} => wstate'[v] = wstate[v])
  BY <1>a, <1>f, SMTT(30) DEF IInv, TypeOK
<1>6. InFlightHot'
  BY <1>c, <1>l, <1>m, ExtFacts, Zenon DEF IInv, InFlightHot, Ext
<1>7. UnloggedMarked'
  BY <1>c, <1>m, Zenon DEF IInv, UnloggedMarked, AllSet
<1>8. KnownInMemory'
  <2> SUFFICES ASSUME NEW e \in differs
               PROVE  KnownInMemory!(e)'
    BY <1>c DEF KnownInMemory
  <2>1. InFlightOn(e)' = InFlightOn(e)
    BY <1>m DEF InFlightOn, Ext
  <2>2. e \in Extents
    BY Zenon DEF IInv, TypeOK
  <2> QED
    BY <1>c, <1>l, <1>m, <2>1, <2>2, ZenonT(30) DEF IInv, KnownInMemory
<1>9. EvictedWritten'
  BY <1>a, <1>c, Zenon DEF EvictedWritten
<1>10. KnownOnDisk'
  <2> SUFFICES ASSUME NEW e \in differs
               PROVE  KnownOnDisk!(e)'
    BY <1>c, Zenon DEF KnownOnDisk
  <2>1. KnownOnDisk!(e)
    BY Zenon DEF IInv, KnownOnDisk
  <2>2. lc_new_number \in [Slots -> Labels]
    BY Zenon DEF IInv, TypeOK, LcTypeOK
  <2>3. \A i \in Slots : lc_new_number[i] = e => lc_number[i] = e \/ lc_new_number'[i] = e
    BY <2>2, <1>d, <1>e, ZenonT(30)
  <2>4. \A i \in Slots : lc_number[i] = e \/ lc_new_number[i] = e
                         => lc_number'[i] = e \/ lc_new_number'[i] = e
    BY <2>3, <1>c, Zenon
  <2>5. CASE bm_on_disk[e]
    BY <2>5, <1>c, Zenon
  <2>6. ASSUME NEW i \in Slots, KnownOnDisk!(e)!2!(i)
        PROVE  KnownOnDisk!(e)'
    BY <2>4, <2>6, <1>c, Zenon
  <2> QED
    BY <2>1, <2>5, <2>6, Zenon
<1> QED
  BY <1>1, <1>5, <1>6, <1>7, <1>8, <1>9, <1>10, CrashParts, Zenon
=============================================================================

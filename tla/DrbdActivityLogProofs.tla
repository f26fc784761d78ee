----------------------- MODULE DrbdActivityLogProofs ------------------------
(***************************************************************************)
(* What is proved of the activity log, for any number of writes, extents   *)
(* and slots, and any size of a transaction.                               *)
(*                                                                         *)
(* The reference counts of the slots are exact (RefsInv, which also gives  *)
(* the types and the unique labels).                                       *)
(*                                                                         *)
(* Every block that may differ between the replicas is covered, on the     *)
(* disk that survives a crash, by a bit of the bitmap or by an extent of   *)
(* the log: CrashSafe, as long as the log is not resized (resizing breaks  *)
(* it).  CrashSafe is not inductive.  IInv adds what keeps it true while a *)
(* transaction is under way: a slot some write holds does not change its   *)
(* label, the label a slot is about to lose has its bitmap page on disk    *)
(* before the transaction block is, and the labels on disk are those in    *)
(* memory, or become so with the transaction being written.                *)
(***************************************************************************)
EXTENDS AlRefsProofs, AlCrashProofs, FiniteSetTheorems, TLAPS

USE DEF Writes

\* The transaction takes the lock and lists the labels that leave the log.
LEMMA CommitBeginStep == ASSUME IInv, RefsInv', CommitBegin PROVE IInv'
<1>a. /\ pc = "commit" /\ ~locked /\ locked' = TRUE
      /\ UNCHANGED <<lc_number, lc_new_number, refs>>
      /\ UNCHANGED <<wstate, in_actlog, al_on_disk, bm_on_disk, bm>>
      /\ UNCHANGED <<differs, disk, connected, al_suspended, adm>>
      /\ \/ pc' = "bitmap" /\ disk = "up" /\ hinted' = {lc_number[i] : i \in ToBeChanged} \ {LC_FREE}
         \/ pc' = "committed" /\ disk = "failed" /\ hinted' = hinted
  BY DEF CommitBegin, lc_try_lock_for_transaction, IInv, TypeOK, mdVars, envVars, writeVars
<1>1. NoResize'
  BY <1>a DEF IInv, NoResize
<1>4. LogMatches'
  BY <1>a DEF IInv, LogMatches, ToBeChanged
<1>5. InFlightHot'
  BY <1>a DEF IInv, InFlightHot, HotSlot
<1>6. UnloggedMarked'
  BY <1>a DEF IInv, UnloggedMarked, AllSet
<1>7. KnownInMemory'
  BY <1>a DEF IInv, KnownInMemory, InFlightOn, HotSlot
<1>8. EvictedWritten'
  <2>1. \A e \in differs : e # LC_FREE
    BY ExtentsAssumption DEF IInv, TypeOK, LC_FREE
  <2> QED
    BY <1>a, <2>1 DEF EvictedWritten, ToBeChanged
<1>9. KnownOnDisk'
  BY <1>a DEF IInv, KnownOnDisk
<1> QED
  BY <1>1, <1>4, <1>5, <1>6, <1>7, <1>8, <1>9, CrashParts, Zenon

\* No write holds a slot whose label changes, so no extent in flight leaves the log.
LEMMA LeavingMarked ==
  ASSUME IInv, NEW i \in ToBeChanged, lc_number[i] \in differs
  PROVE  bm[lc_number[i]]
<1> DEFINE e == lc_number[i]
<1>1. e # LC_FREE
  <2>1. \A f \in differs : f # LC_FREE
    BY ExtentsAssumption DEF IInv, TypeOK, LC_FREE
  <2> QED
    BY <2>1
<1>2. ASSUME NEW w \in Writes, NEW j \in Slots, HotSlot(j, w, e) PROVE FALSE
  BY <1>1, <1>2 DEF IInv, UniqueLabels, HotSlot, ToBeChanged
<1>3. ~ \E w \in InFlightOn(e) : in_actlog[w]
  BY <1>2 DEF IInv, InFlightHot, InFlightOn
<1> QED
  BY <1>2, <1>3 DEF IInv, KnownInMemory

\* A bitmap page reaches the disk, hinted or lazily.
LEMMA BitmapPageStep ==
  ASSUME IInv, RefsInv', NEW e \in Extents,
         bm_on_disk' = [bm_on_disk EXCEPT ![e] = bm[e]],
         hinted \ {e} \subseteq hinted',
         UNCHANGED <<lc_number, lc_new_number, refs, wstate, in_actlog, pc>>,
         UNCHANGED <<al_on_disk, bm, differs, disk, connected, al_suspended, adm>>
  PROVE  IInv'
<1>a. \A f \in Extents : bm_on_disk'[f] <=> IF f = e THEN bm[f] ELSE bm_on_disk[f]
  BY DEF IInv, TypeOK
<1>1. NoResize'
  BY DEF IInv, NoResize
<1>4. LogMatches'
  BY DEF IInv, LogMatches, ToBeChanged
<1>5. InFlightHot'
  BY DEF IInv, InFlightHot, HotSlot
<1>6. UnloggedMarked'
  BY <1>a, ExtFacts, Zenon DEF IInv, UnloggedMarked, AllSet, Ext
<1>7. KnownInMemory'
  BY DEF IInv, KnownInMemory, InFlightOn, HotSlot
<1>8. EvictedWritten'
  <2> SUFFICES ASSUME NEW i \in ToBeChanged, lc_number[i] \in differs
               PROVE  EvictedWritten!(i)'
    BY Zenon DEF EvictedWritten, ToBeChanged
  <2>1. bm[lc_number[i]] /\ lc_number[i] \in Extents
    BY LeavingMarked DEF IInv, TypeOK
  <2> QED
    BY <1>a, <2>1, Zenon DEF IInv, EvictedWritten
<1>9. KnownOnDisk'
  <2> SUFFICES ASSUME NEW f \in differs
               PROVE  KnownOnDisk!(f)'
    BY DEF KnownOnDisk
  <2>0. f \in Extents /\ f # LC_FREE
    BY ExtentsAssumption DEF IInv, TypeOK, LC_FREE
  <2>1. CASE f # e \/ bm[f]
    BY <1>a, <2>0, <2>1, Zenon DEF IInv, KnownOnDisk
  <2>2. CASE f = e /\ ~bm[f]
    <3>1. \E i \in Slots, w \in Writes : HotSlot(i, w, f)
      BY <2>2 DEF IInv, KnownInMemory, InFlightHot, InFlightOn
    <3> QED
      BY <3>1, Zenon DEF HotSlot
  <2> QED
    BY <2>1, <2>2, Zenon
<1> QED
  BY <1>1, <1>4, <1>5, <1>6, <1>7, <1>8, <1>9, CrashParts, Zenon

\* drbd_bm_write_hinted() writes a page of an extent that leaves the log, or a page
\* is written out of turn.
LEMMA WritePageStep ==
  ASSUME IInv, RefsInv', NEW e \in Extents, WriteHinted(e) \/ WriteLazy(e)
  PROVE  IInv'
<1>1. /\ bm_on_disk' = [bm_on_disk EXCEPT ![e] = bm[e]]
      /\ UNCHANGED <<al_on_disk, bm, differs, disk, pc>>
  BY Zenon DEF WriteHinted, WriteLazy, subVars
<1>2. hinted \ {e} \subseteq hinted'
  BY DEF WriteHinted, WriteLazy, subVars
<1>3. UNCHANGED <<lc_number, lc_new_number, refs, wstate, in_actlog, connected, al_suspended, adm>>
  BY Zenon DEF WriteHinted, WriteLazy, lcVars, writeVars, envVars
<1> QED
  BY <1>1, <1>2, <1>3, BitmapPageStep, Zenon

\* The bitmap is written, or its writing has failed.
LEMMA WriteHintedEndStep == ASSUME IInv, RefsInv', WriteHintedEnd \/ WriteHintedFails PROVE IInv'
<1>a. /\ pc = "bitmap" /\ hinted' = {}
      /\ UNCHANGED <<lc_number, lc_new_number, refs, wstate, in_actlog, al_on_disk>>
      /\ UNCHANGED <<bm_on_disk, bm, differs, connected, al_suspended, adm>>
      /\ \/ pc' = "log" /\ hinted = {} /\ disk' = disk
         \/ pc' = "committed" /\ disk' = "failed"
  BY DEF WriteHintedEnd, WriteHintedFails, lcVars, writeVars, mdVars, envVars
<1>1. NoResize'
  BY <1>a, Zenon DEF IInv, NoResize
<1>4. LogMatches'
  BY <1>a, Zenon DEF IInv, LogMatches, ToBeChanged
<1>5. InFlightHot'
  BY <1>a DEF IInv, InFlightHot, HotSlot
<1>6. UnloggedMarked'
  BY <1>a, Zenon DEF IInv, UnloggedMarked, AllSet
<1>7. KnownInMemory'
  BY <1>a, Zenon DEF IInv, KnownInMemory, InFlightOn, HotSlot
<1>8. EvictedWritten'
  BY <1>a DEF IInv, EvictedWritten, ToBeChanged
<1>9. KnownOnDisk'
  BY <1>a DEF IInv, KnownOnDisk
<1> QED
  BY <1>1, <1>4, <1>5, <1>6, <1>7, <1>8, <1>9, CrashParts

\* The transaction is written, or its writing has failed with either outcome.
LEMMA WriteLogStep == ASSUME IInv, RefsInv', WriteLog \/ WriteLogFails PROVE IInv'
<1>a. /\ pc = "log" /\ pc' = "committed" /\ al_on_disk' \in {al_on_disk, Transaction}
      /\ UNCHANGED <<lc_number, lc_new_number, refs, wstate, in_actlog, hinted>>
      /\ UNCHANGED <<bm_on_disk, bm, differs, connected, al_suspended, adm>>
      /\ \/ disk' = disk /\ al_on_disk' = Transaction
         \/ disk' = "failed"
  BY DEF WriteLog, WriteLogFails, lcVars, writeVars, envVars
<1>c. \A i \in Slots : i \notin ToBeChanged => al_on_disk'[i] = al_on_disk[i]
  BY <1>a DEF Transaction
<1>1. NoResize'
  BY <1>a, Zenon DEF IInv, NoResize
<1>4. LogMatches'
  BY <1>a, Zenon DEF IInv, LogMatches, ToBeChanged, Transaction
<1>5. \A i \in Slots, w \in Writes, e \in Extents : HotSlot(i, w, e) => HotSlot(i, w, e)'
  BY <1>a, <1>c, Zenon DEF HotSlot, ToBeChanged
<1>6. InFlightHot'
  BY <1>a, <1>5, ExtFacts, Zenon DEF IInv, InFlightHot, Ext
<1>7. UnloggedMarked'
  BY <1>a, Zenon DEF IInv, UnloggedMarked, AllSet
<1>8. KnownInMemory'
  <2> SUFFICES ASSUME NEW e \in differs
               PROVE  KnownInMemory!(e)'
    BY <1>a, Zenon DEF KnownInMemory
  <2>1. InFlightOn(e)' = InFlightOn(e) /\ e \in Extents
    BY <1>a DEF InFlightOn, Ext, IInv, TypeOK
  <2> QED
    BY <1>a, <1>5, <2>1, Zenon DEF IInv, KnownInMemory
<1>9. EvictedWritten'
  BY <1>a DEF EvictedWritten
<1>10. KnownOnDisk'
  <2> SUFFICES ASSUME NEW e \in differs, ~bm_on_disk[e]
               PROVE  KnownOnDisk!(e)'
    BY <1>a DEF KnownOnDisk
  <2>1. PICK i \in Slots : al_on_disk[i] = e /\ (lc_number[i] = e \/ lc_new_number[i] = e)
    BY <1>a, Zenon DEF IInv, KnownOnDisk
  <2>2. CASE i \in ToBeChanged
    <3>1. lc_new_number[i] = e
      BY <1>a, <2>1, <2>2, Zenon DEF IInv, EvictedWritten
    <3>2. al_on_disk'[i] = e
      BY <1>a, <2>1, <2>2, <3>1, Zenon DEF Transaction
    <3> QED
      BY <1>a, <3>1, <3>2, Zenon
  <2>3. CASE i \notin ToBeChanged
    BY <1>a, <1>c, <2>1, <2>3, Zenon
  <2> QED
    BY <2>2, <2>3, Zenon
<1> QED
  BY <1>1, <1>4, <1>6, <1>7, <1>8, <1>9, <1>10, CrashParts, Zenon

\* lc_committed(): the labels on disk become those in memory.
LEMMA CommitEndStep == ASSUME IInv, RefsInv', CommitEnd PROVE IInv'
<1>a. /\ pc = "committed" /\ pc' = "submit"
      /\ lc_number' = lc_new_number /\ lc_new_number' = lc_new_number
      /\ locked' = FALSE /\ dirty' = FALSE
      /\ UNCHANGED <<refs>>
      /\ UNCHANGED <<wstate, in_actlog, hinted, al_on_disk, bm_on_disk>>
      /\ UNCHANGED <<bm, differs, disk, connected, al_suspended, adm>>
  BY DEF CommitEnd, lc_committed_unlock, writeVars, mdVars, envVars
<1>c. ToBeChanged' = {}
  BY <1>a DEF ToBeChanged
<1>1. NoResize'
  BY <1>a DEF IInv, NoResize
<1>4. LogMatches'
  <2> SUFFICES ASSUME NEW i \in Slots, disk = "up", lc_new_number[i] # LC_FREE
               PROVE  al_on_disk[i] = lc_new_number[i]
    BY <1>a, Zenon DEF LogMatches
  <2> QED
    BY <1>a DEF IInv, LogMatches, ToBeChanged
<1>5. InFlightHot'
  BY <1>a, Zenon DEF IInv, InFlightHot, HotSlot
<1>6. UnloggedMarked'
  BY <1>a, Zenon DEF IInv, UnloggedMarked, AllSet
<1>7. KnownInMemory'
  BY <1>a DEF IInv, KnownInMemory, InFlightOn, HotSlot
<1>8. EvictedWritten'
  BY <1>c, Zenon DEF EvictedWritten
<1>9. KnownOnDisk'
  <2> SUFFICES ASSUME NEW e \in differs, disk = "up", NEW i \in Slots,
                      al_on_disk[i] = e, lc_number[i] = e
               PROVE  lc_new_number[i] = e
    BY <1>a DEF IInv, KnownOnDisk, TypeOK
  <2> QED
    BY <1>a, Zenon DEF IInv, LogMatches, ToBeChanged
<1> QED
  BY <1>1, <1>4, <1>5, <1>6, <1>7, <1>8, <1>9, CrashParts, Zenon

\* The log forgets its labels while every bit is set, in memory and on disk.
LEMMA AlShrinkStep == ASSUME IInv, RefsInv', NEW k \in Slots, AlShrink(k) PROVE IInv'
<1>a. /\ adm = "suspend" /\ refs[k] = {}
      /\ lc_number' = [lc_number EXCEPT ![k] = LC_FREE]
      /\ lc_new_number' = [lc_new_number EXCEPT ![k] = LC_FREE]
      /\ UNCHANGED <<refs>>
      /\ UNCHANGED <<wstate, in_actlog, pc, hinted, al_on_disk, bm_on_disk>>
      /\ UNCHANGED <<bm, differs, disk, connected, al_suspended, adm>>
  BY Zenon DEF AlShrink, lc_del, IInv, NoResize, writeVars, subVars, mdVars, envVars
<1>b. AllSet' /\ differs' \subseteq Extents
  BY <1>a, Zenon DEF IInv, UnloggedMarked, AllSet, TypeOK
<1>c. ToBeChanged = {} /\ ToBeChanged' = {}
  BY <1>a, Zenon DEF IInv, OneTransaction, AdminLocked, ToBeChanged, TypeOK, LcTypeOK
<1>d. /\ lc_number'[k] = LC_FREE /\ lc_new_number'[k] = LC_FREE
      /\ \A i \in Slots : i # k => lc_number'[i] = lc_number[i] /\ lc_new_number'[i] = lc_new_number[i]
  BY <1>a, Zenon DEF IInv, TypeOK, LcTypeOK
<1>1. NoResize'
  BY <1>a, <1>d, Zenon DEF IInv, NoResize
<1>4. LogMatches'
  BY <1>a, <1>c, <1>d, Zenon DEF IInv, LogMatches
<1>5. InFlightHot'
  BY <1>a, <1>d, SMTT(30) DEF IInv, InFlightHot, HotSlot
<1>6. UnloggedMarked'
  BY <1>a, <1>b, ExtFacts, Zenon DEF IInv, UnloggedMarked, AllSet, Ext
<1>7. KnownInMemory' /\ KnownOnDisk'
  BY <1>b, Zenon DEF KnownInMemory, KnownOnDisk, AllSet
<1>8. EvictedWritten'
  BY <1>c DEF EvictedWritten
<1> QED
  BY <1>1, <1>4, <1>5, <1>6, <1>7, <1>8, CrashParts, Zenon

\* End of drbd_try_suspend_al() (without resizes the only use of drbd_al_shrink()).
LEMMA AlShrunkStep == ASSUME IInv, RefsInv', AlShrunk PROVE IInv'
<1>a. /\ adm = "suspend" /\ adm' = "idle" /\ locked' = FALSE /\ dirty' = FALSE
      /\ (al_suspended' <=> al_suspended \/ ~connected)
      /\ UNCHANGED <<lc_number, lc_new_number, refs>>
      /\ UNCHANGED <<wstate, in_actlog, pc, hinted, al_on_disk>>
      /\ UNCHANGED <<bm_on_disk, bm, differs, disk, connected>>
  BY Zenon DEF AlShrunk, lc_unlock, IInv, NoResize, writeVars, subVars, mdVars
<1>c. ToBeChanged = {} /\ ToBeChanged' = {}
  BY <1>a DEF IInv, OneTransaction, AdminLocked, ToBeChanged
<1>1. NoResize'
  BY <1>a, Zenon DEF IInv, NoResize
<1>3. LogMatches'
  BY <1>a, <1>c, Zenon DEF IInv, LogMatches
<1>4. InFlightHot'
  BY <1>a, Zenon DEF IInv, InFlightHot, HotSlot
<1>5. UnloggedMarked'
  BY <1>a, Zenon DEF IInv, UnloggedMarked, AllSet
<1>6. KnownInMemory'
  BY <1>a DEF IInv, KnownInMemory, InFlightOn, HotSlot
<1>7. EvictedWritten'
  BY <1>c, Zenon DEF EvictedWritten
<1>8. KnownOnDisk'
  BY <1>a DEF IInv, KnownOnDisk
<1> QED
  BY <1>1, <1>3, <1>4, <1>5, <1>6, <1>7, <1>8, CrashParts, Zenon

\* Recovery finds every extent that differs.
LEMMA CrashStep == ASSUME IInv, RefsInv', Crash PROVE IInv'
<1>a. LcReset /\ wstate' = [w \in Writes |-> IF wstate[w] = "new" THEN "new" ELSE "done"]
  BY Zenon DEF Crash
<1>b. \A e \in Extents : bm'[e] /\ bm_on_disk'[e] <=> Recovered[e]
  BY DEF Crash, Recovered
<1>c. \A e \in differs : e \in Extents /\ Recovered[e]
  BY Zenon DEF IInv, TypeOK, KnownOnDisk, Recovered
<1>1. NoResize'
  BY <1>a, Zenon DEF Crash, LcReset, NoResize
<1>2. LogMatches'
  BY <1>a DEF Crash, LcReset, OneTransaction, LogMatches, ToBeChanged, Committing, AdminLocked
<1>4. \A w \in Writes : wstate'[w] # "inflight"
  BY <1>a
<1>5. InFlightHot'
  BY <1>4, Zenon DEF InFlightHot
<1>6. UnloggedMarked'
  BY <1>4, <1>b, Zenon DEF Crash, UnloggedMarked, AllSet
<1>7. KnownInMemory' /\ KnownOnDisk'
  BY <1>b, <1>c, Zenon DEF Crash, KnownInMemory, KnownOnDisk
<1>8. EvictedWritten'
  BY DEF Crash, EvictedWritten
<1> QED
  BY <1>1, <1>2, <1>5, <1>6, <1>7, <1>8, CrashParts, Zenon

-----------------------------------------------------------------------------
\* The slots are finitely many.
LEMMA SlotsAreCounted == SlotsCounted
<1>1. IsFiniteSet(Slots)
  BY NrElementsAssumption, FS_Interval DEF Slots
<1> QED
  BY <1>1, FS_Subset, FS_CardinalityType DEF SlotsCounted

\* RefsInv is inductive.
LEMMA NextRefs == ASSUME RefsInv, SlotsCounted, Next PROVE RefsInv'
<1> TypeOK /\ OneTransaction
  BY DEF RefsInv
<1>1. ASSUME NEW w \in Writes, Arrive(w) \/ Settle(w) \/ AlCompleteIo(w) PROVE RefsInv'
  <2>1. CASE ArriveCold(w)
    BY <2>1, WriteControl, ControlRefs, Zenon
  <2>2. CASE Settle(w)
    BY <2>2, SettleRefs, Zenon DEF Settle
  <2> QED
    BY <1>1, <2>1, <2>2, FastRefs, ArriveUnloggedRefs, AlCompleteIoRefs, Zenon DEF Arrive
<1>2. ASSUME NEW w \in Writes, \/ FastSubmit(w) \/ FastSkip(w)
                               \/ PrepareCleanup(w) \/ PrepareActivate(w)
                               \/ PreparePeersStuck(w) \/ PrepareAppsStuck(w)
                               \/ SubmitPending(w)
      PROVE  RefsInv'
  <2>1. CASE FastSkip(w) \/ PrepareCleanup(w) \/ PreparePeersStuck(w) \/ PrepareAppsStuck(w)
    BY <2>1, WriteControl, ControlRefs, Zenon
  <2> QED
    BY <1>2, <2>1, FastRefs, PrepareActivateRefs, SubmitPendingRefs, Zenon
<1>3. CASE \/ DoSubmit \/ FastEnd \/ PrepareBegin \/ PrepareEnd \/ FillUp \/ FillEnd
           \/ CommitNothing \/ SubmitEnd \/ Disconnect
  BY <1>3, SubmitterControl, ControlRefs, Zenon
<1>4. CASE \/ CommitBegin \/ WriteHintedEnd \/ WriteHintedFails
           \/ WriteLog \/ WriteLogFails \/ CommitEnd
  BY <1>4, TransactionRefs, CommitEndRefs, Zenon
<1>5. ASSUME NEW e \in Extents, WriteHinted(e) \/ ResyncClears(e) \/ WriteLazy(e) PROVE RefsInv'
  BY <1>5, BitmapRefs, Zenon
<1>6. CASE DiskFails \/ Connect \/ SetAllSuspendAl \/ Resize \/ Admin \/ Crash
  BY <1>6, EnvironmentRefs, AlShrinkRefs, CrashRefs, Zenon DEF Admin
<1> QED
  BY <1>1, <1>2, <1>3, <1>4, <1>5, <1>6, Zenon DEF Next, Submitter

\* IInv is inductive beside RefsInv: one step per action.
LEMMA NextIInv == ASSUME MaxResizes = 0, IInv, RefsInv', Next PROVE IInv'
<1>0. TypeOK /\ OneTransaction
  BY Zenon DEF IInv
<1>1. ~Resize
  BY DEF Resize, IInv, TypeOK
<1>2. ~ResizeLock
  BY DEF ResizeLock, IInv, NoResize
<1>3. CASE \E w \in Writes : Arrive(w) \/ Settle(w) \/ AlCompleteIo(w)
  BY <1>0, <1>3, SubmittingStep, WriteControl, ControlStep, SettleInSyncStep,
     SettleOutOfSyncStep, AlCompleteIoStep, Zenon DEF Arrive, Settle
<1>4. CASE \E w \in Writes : \/ FastSubmit(w) \/ FastSkip(w)
                             \/ PrepareCleanup(w) \/ PrepareActivate(w)
                             \/ PreparePeersStuck(w) \/ PrepareAppsStuck(w)
                             \/ SubmitPending(w)
  BY <1>0, <1>4, SubmittingStep, WriteControl, ControlStep, PrepareActivateStep, Zenon
<1>5. CASE \/ DoSubmit \/ FastEnd \/ PrepareBegin \/ PrepareEnd \/ FillUp \/ FillEnd
           \/ CommitNothing \/ SubmitEnd \/ Disconnect
  BY <1>0, <1>5, SubmitterControl, ControlStep, Zenon
<1>6. CASE \/ CommitBegin \/ WriteHintedEnd \/ WriteHintedFails \/ WriteLog \/ WriteLogFails
           \/ CommitEnd
  BY <1>6, CommitBeginStep, WriteHintedEndStep, WriteLogStep, CommitEndStep, Zenon
<1>7. CASE \E e \in Extents : WriteHinted(e) \/ ResyncClears(e) \/ WriteLazy(e)
  BY <1>7, WritePageStep, ResyncClearsStep, Zenon
<1>8. CASE DiskFails \/ Connect \/ SetAllSuspendAl \/ Admin \/ Crash
  BY <1>2, <1>8, DiskFailsStep, ConnectStep, SetAllSuspendAlStep, AlShrinkStep, AlShrunkStep,
     CrashStep, Zenon DEF Admin
<1> QED
  BY <1>1, <1>3, <1>4, <1>5, <1>6, <1>7, <1>8, Zenon DEF Next, Submitter

\* A step that changes nothing preserves the invariants.
LEMMA StutterRefs == ASSUME RefsInv, UNCHANGED alVars PROVE RefsInv'
<1>1. SameCache /\ UNCHANGED <<wstate, locked, dirty, starving>>
  BY Zenon DEF SameCache, alVars, lcVars, writeVars
<1>2. UNCHANGED <<pc, tried, peers_done, made_progress, filling, hinted, al_on_disk, bm_on_disk>>
  BY Zenon DEF alVars, subVars, mdVars
<1>3. UNCHANGED <<bm, differs, disk, connected, al_suspended, adm, crashes, resizes, suspends>>
  BY Zenon DEF alVars, envVars
<1>4. LcTypeOK'
  BY <1>1, Zenon DEF SameCache, RefsInv, TypeOK, LcTypeOK
<1>5. TypeOK'
  <2>1. /\ wstate' \in [Writes -> WState] /\ next_enr' \in [Writes -> Nat]
        /\ in_actlog' \in [Writes -> BOOLEAN]
    BY <1>1, Zenon DEF SameCache, RefsInv, TypeOK
  <2>2. /\ pc' \in {"idle", "fast", "wait", "prepare", "fill", "commit", "bitmap", "log",
                    "committed", "submit"}
        /\ tried' \in SUBSET Writes
        /\ peers_done' \in BOOLEAN /\ made_progress' \in BOOLEAN /\ filling' \in BOOLEAN
        /\ hinted' \in SUBSET Extents /\ al_on_disk' \in [Slots -> Labels]
        /\ bm_on_disk' \in [Extents -> BOOLEAN]
    BY <1>2, Zenon DEF RefsInv, TypeOK
  <2>3. /\ bm' \in [Extents -> BOOLEAN] /\ differs' \in SUBSET Extents /\ disk' \in {"up", "failed"}
        /\ connected' \in BOOLEAN /\ al_suspended' \in BOOLEAN
        /\ adm' \in {"idle", "suspend", "resize_lock", "resize"}
        /\ crashes' \in Nat /\ resizes' \in Nat /\ suspends' \in Nat
    BY <1>3, Zenon DEF RefsInv, TypeOK
  <2> QED
    BY <1>4, <2>1, <2>2, <2>3, Zenon DEF TypeOK
<1>6. OneTransaction'
  BY <1>1, <1>2, <1>3, Zenon DEF SameCache, RefsInv, OneTransaction, ToBeChanged, Committing, AdminLocked
<1>7. \A w \in Writes : SameSide(w)
  BY <1>1, Zenon DEF SameSide
<1> QED
  BY <1>1, <1>5, <1>6, <1>7, SameCacheStep, Zenon

LEMMA StutterIInv == ASSUME IInv, RefsInv', UNCHANGED alVars PROVE IInv'
<1>1. UNCHANGED <<lc_number, lc_new_number, refs, wstate, in_actlog, pc, hinted, al_on_disk>>
  BY Zenon DEF alVars, lcVars, subVars, writeVars, mdVars
<1>2. UNCHANGED <<bm_on_disk, bm, differs, disk, connected, al_suspended, adm>>
  BY Zenon DEF alVars, mdVars, envVars
<1>3. NoResize' /\ LogMatches' /\ InFlightHot'
  BY <1>1, <1>2, Zenon DEF IInv, NoResize, LogMatches, InFlightHot, HotSlot, ToBeChanged
<1>4. UnloggedMarked' /\ KnownOnDisk' /\ EvictedWritten'
  BY <1>1, <1>2, Zenon DEF IInv, UnloggedMarked, AllSet, KnownOnDisk, EvictedWritten, ToBeChanged
<1>5. KnownInMemory'
  BY <1>1, <1>2, Zenon DEF IInv, KnownInMemory, InFlightOn, HotSlot
<1> QED
  BY <1>3, <1>4, <1>5, CrashParts

-----------------------------------------------------------------------------
\* The counting invariant holds of every reachable state, resizes and crashes
\* included.
THEOREM RefsInvariance == Spec => []RefsInv
<1>1. Init => RefsInv
  BY InitRefs
<1>2. RefsInv /\ [Next]_alVars => RefsInv'
  BY NextRefs, StutterRefs, SlotsAreCounted
<1> QED
  BY <1>1, <1>2, PTL DEF Spec

\* The reference count of a slot (lc_get(), lc_put()) is exactly the number of
\* writes that hold its extent, as long as all writes are local: no slot is recycled
\* under a write and none is pinned for ever, for any number of slots, extents and
\* writes, any size of a transaction, and any resize, suspension, failing disk or
\* crash.  (A peer write that is dropped with its connection keeps the references
\* it has; see PrepareCleanup.)
THEOREM ReferencesExact ==
  (\A w \in Writes : Kind[w] = "app") => (Spec => []RefsMatchHolders)
<1> SUFFICES ASSUME \A w \in Writes : Kind[w] = "app" PROVE Spec => []RefsMatchHolders
  OBVIOUS
<1>1. RefsInv => RefsMatchHolders
  <2> SUFFICES ASSUME RefsInv, NEW i \in Slots
               PROVE  refs[i] = {w \in Writes : Holds(w, lc_new_number[i])}
    BY Zenon DEF RefsMatchHolders
  <2>1. ASSUME NEW w \in refs[i] PROVE w \in Writes /\ Holds(w, lc_new_number[i])
    BY Zenon DEF RefsInv, TypeOK, LcTypeOK, NoneLeft
  <2>2. ASSUME NEW w \in Writes, Holds(w, lc_new_number[i]) PROVE w \in refs[i]
    <3> DEFINE e == lc_new_number[i]
    <3>1. /\ e \in Int /\ next_enr[w] \in Nat /\ First[w] \in Nat /\ Last[w] \in Nat
          /\ wstate[w] = "pending" => next_enr[w] = Last[w] + 1
          /\ wstate[w] \in {"queued", "incoming"} => next_enr[w] \in Ext(w)
      BY ExtFacts, LabelFacts, Zenon DEF RefsInv, TypeOK, PendingComplete, WaitersHold, Waiting
    <3>2. e \in Ext(w)
      BY <2>2, <3>1, SMTT(30) DEF Holds, Ext
    <3>3. \E j \in Slots : w \in refs[j] /\ lc_new_number[j] = e
      <4>1. CASE wstate[w] \in Submitted /\ in_actlog[w]
        BY <4>1, <3>2 DEF RefsInv, SubmittedHold
      <4>2. CASE wstate[w] \in {"queued", "incoming", "pending"} /\ e < next_enr[w]
        <5>1. WaitersHold /\ wstate[w] \in Waiting \cup {"pending"}
          BY <4>2, Zenon DEF RefsInv, Waiting
        <5> QED
          BY <4>2, <5>1, <3>2, Zenon DEF WaitersHold
      <4> QED
        BY <2>2, <4>1, <4>2, Zenon DEF Holds, Submitted
    <3>4. e # LC_FREE
      BY <3>2, ExtFacts
    <3> QED
      BY <3>3, <3>4, Zenon DEF RefsInv, UniqueLabels
  <2> QED
    BY <2>1, <2>2, Zenon
<1> QED
  BY <1>1, RefsInvariance, PTL

\* The state of the cache and of its users keeps its types.
THEOREM TypeCorrect == Spec => []TypeOK
<1>1. RefsInv => TypeOK
  BY DEF RefsInv
<1> QED
  BY <1>1, RefsInvariance, PTL

\* The hash table finds at most one slot for a label (__lc_find()), also while
\* transactions change labels and while the log is emptied.
THEOREM UniqueSlots == Spec => []OneSlotPerLabel
<1>1. RefsInv => OneSlotPerLabel
  BY DEF RefsInv, UniqueLabels, OneSlotPerLabel
<1> QED
  BY <1>1, RefsInvariance, PTL

\* As long as the log is not resized, the invariant behind CrashSafe holds of every
\* reachable state.
THEOREM Invariance == MaxResizes = 0 => (Spec => []IInv)
<1> SUFFICES ASSUME MaxResizes = 0 PROVE Spec => []IInv
  OBVIOUS
<1>1. Init => IInv
  BY InitIInv
<1>2. IInv /\ RefsInv' /\ [Next]_alVars => IInv'
  BY NextIInv, StutterIInv
<1> QED
  BY <1>1, <1>2, RefsInvariance, PTL DEF Spec

\* The promise of the activity log (drbd_al_begin_io_commit() before the data,
\* bitmap before the log in __al_write_transaction()): whatever the number of slots,
\* extents and writes, however writes, evictions, failing disks, invalidations and
\* crashes interleave, an extent that may differ from a peer's is found on disk.
THEOREM CrashSafety == MaxResizes = 0 => (Spec => []CrashSafe)
<1> SUFFICES ASSUME MaxResizes = 0 PROVE Spec => []CrashSafe
  OBVIOUS
<1>1. IInv => CrashSafe
  BY DEF IInv, KnownOnDisk, CrashSafe, Covered
<1> QED
  BY <1>1, Invariance, PTL
=============================================================================

---------------------------- MODULE AlStepProofs ----------------------------
(***************************************************************************)
(* The counting invariant RefsInv of the activity log holds after          *)
(* attaching, and the steps that leave the labels and the references alone *)
(* preserve it: the control steps of do_submit(), the writing of a         *)
(* transaction, the end of a write, the bitmap, and the administrator.     *)
(***************************************************************************)
EXTENDS DrbdActivityLog, TLAPS

USE DEF Writes

\* The range of extents of a write.
LEMMA ExtFacts ==
  ASSUME NEW w \in Writes
  PROVE  /\ First[w] \in Nat /\ Last[w] \in Nat /\ First[w] \in Ext(w)
         /\ Ext(w) \subseteq Extents /\ LC_FREE \notin Ext(w)
         /\ \A e \in Ext(w) : e \in Nat /\ ~(e < First[w]) /\ ~(e > Last[w])
<1>1. First[w] \in Nat /\ Last[w] \in Nat /\ First[w] <= Last[w]
  BY WritesAssumption, ExtentsAssumption, Zenon
<1>2. First[w] \in Ext(w) /\ LC_FREE \notin Ext(w)
  BY <1>1 DEF Ext, LC_FREE
<1>3. \A e \in Ext(w) : e \in Nat /\ ~(e < First[w]) /\ ~(e > Last[w])
  BY <1>1 DEF Ext
<1>4. Ext(w) \subseteq Extents
  BY WritesAssumption DEF Ext
<1> QED
  BY <1>1, <1>2, <1>3, <1>4

\* Labels are numbers.
LEMMA LabelFacts == ASSUME TypeOK, NEW i \in Slots PROVE lc_new_number[i] \in Int
<1>1. lc_new_number[i] \in Labels
  BY DEF TypeOK, LcTypeOK
<1>2. CASE lc_new_number[i] \in Extents
  <2>1. lc_new_number[i] \in Nat
    BY <1>2, ExtentsAssumption, Zenon
  <2> QED
    BY <2>1
<1>3. CASE lc_new_number[i] = LC_FREE
  BY <1>3 DEF LC_FREE
<1> QED
  BY <1>1, <1>2, <1>3 DEF Labels

\* After attaching, the log is empty and nobody holds a slot.
LEMMA InitRefs == ASSUME Init PROVE RefsInv
<1>1. TypeOK
  <2>0. LcInit
    BY DEF Init
  <2>1. LcTypeOK
    <3>1. age \in [Slots -> Nat]
      BY <2>0, NrElementsAssumption DEF LcInit, Slots
    <3>2. starving \in BOOLEAN /\ dirty \in BOOLEAN /\ locked \in BOOLEAN
      BY <2>0, Zenon DEF LcInit
    <3>3. refs \in [Slots -> SUBSET Users]
      BY <2>0 DEF LcInit
    <3>4. lc_number \in [Slots -> Labels] /\ lc_new_number \in [Slots -> Labels]
      BY <2>0 DEF LcInit, Labels
    <3> QED
      BY <3>1, <3>2, <3>3, <3>4 DEF LcTypeOK
  <2>2. next_enr \in [Writes -> Nat]
    BY WritesAssumption, ExtentsAssumption, Zenon DEF Init
  <2>3. al_suspended \in BOOLEAN
    BY Zenon DEF Init
  <2> QED
    BY <2>1, <2>2, <2>3, Zenon DEF Init, TypeOK, Labels, WState
<1>2. UniqueLabels /\ OneTransaction
  BY DEF Init, LcInit, UniqueLabels, OneTransaction, ToBeChanged, Committing, AdminLocked
<1>3. WaitersHold
  BY ExtFacts DEF Init, WaitersHold
<1>4. SubmittedHold /\ PendingComplete
  BY DEF Init, SubmittedHold, PendingComplete, Submitted
<1>5. NoneLeft
  BY DEF Init, LcInit, NoneLeft
<1> QED
  BY <1>1, <1>2, <1>3, <1>4, <1>5 DEF RefsInv

-----------------------------------------------------------------------------
(***************************************************************************)
(* Steps of the same shape.                                                *)
(***************************************************************************)
\* The labels, the references and what the writes have activated stay.
SameCache == UNCHANGED <<lc_number, lc_new_number, refs, age, next_enr, in_actlog>>

\* A write moves only between the stages before its submission or between the
\* stages after it, or is a peer write that is dropped.
SameSide(w) ==
    \/ wstate'[w] = wstate[w]
    \/ wstate[w] \in Waiting /\ wstate'[w] \in {"queued", "incoming"}
    \/ wstate[w] \in Submitted /\ wstate'[w] \in Submitted
    \/ wstate[w] \in Waiting /\ Kind[w] = "peer" /\ wstate'[w] = "done"

LEMMA SameCacheStep ==
  ASSUME RefsInv, TypeOK', OneTransaction', SameCache, \A w \in Writes : SameSide(w)
  PROVE  RefsInv'
<1>0. UNCHANGED <<lc_number, lc_new_number, refs, next_enr, in_actlog>>
  BY DEF SameCache
<1>1. UniqueLabels'
  BY <1>0 DEF RefsInv, UniqueLabels
<1>2. WaitersHold'
  <2> SUFFICES ASSUME NEW w \in Writes PROVE WaitersHold!(w)'
    BY Zenon DEF WaitersHold
  <2>1. wstate'[w] = "pending" => wstate[w] = "pending"
    BY DEF SameSide, Submitted
  <2>2. wstate'[w] \in Waiting => wstate[w] \in Waiting
    BY DEF SameSide, Waiting, Submitted
  <2>3. WaitersHold!(w)
    BY DEF RefsInv, WaitersHold
  <2> QED
    BY <1>0, <2>1, <2>2, <2>3 DEF Ext
<1>3. PendingComplete'
  <2>1. \A w \in Writes : wstate'[w] = "pending" => wstate[w] = "pending"
    BY DEF SameSide, Submitted
  <2> QED
    BY <1>0, <2>1 DEF RefsInv, PendingComplete
<1>4. SubmittedHold'
  <2>1. \A w \in Writes : wstate'[w] \in Submitted => wstate[w] \in Submitted
    BY DEF SameSide, Submitted
  <2> QED
    BY <1>0, <2>1 DEF RefsInv, SubmittedHold, Ext
<1>5. NoneLeft'
  <2> SUFFICES ASSUME NEW w \in Writes, Kind[w] = "app", NEW i \in Slots, w \in refs'[i]
               PROVE  Holds(w, lc_new_number[i])'
    BY Zenon DEF NoneLeft
  <2>1. Holds(w, lc_new_number[i])
    BY <1>0 DEF RefsInv, NoneLeft
  <2>2. \/ wstate'[w] = wstate[w]
        \/ wstate[w] \in Waiting /\ wstate'[w] \in {"queued", "incoming"}
        \/ wstate[w] \in Submitted /\ wstate'[w] \in Submitted
    BY DEF SameSide
  <2> QED
    BY <1>0, <2>1, <2>2 DEF Holds, Waiting, Submitted, Ext
<1> QED
  BY <1>1, <1>2, <1>3, <1>4, <1>5 DEF RefsInv

\* A step of do_submit(), an arriving write that is queued, or a lost connection: it
\* changes neither disk nor bitmap, and goes into no transaction.
ControlFrame ==
    /\ UNCHANGED <<lc_number, lc_new_number, refs, age, locked, next_enr, in_actlog, hinted>>
    /\ UNCHANGED <<al_on_disk, bm_on_disk, bm, differs, disk>>
    /\ UNCHANGED <<al_suspended, adm, crashes, resizes, suspends>>
    /\ connected' => connected
    /\ dirty => dirty'
ControlTypes ==
    /\ wstate' \in [Writes -> WState] /\ tried' \in SUBSET Writes
    /\ peers_done' \in BOOLEAN /\ made_progress' \in BOOLEAN /\ filling' \in BOOLEAN
    /\ starving' \in BOOLEAN /\ dirty' \in BOOLEAN /\ connected' \in BOOLEAN
ControlPc ==
    \/ pc' = pc
    \/ /\ ~Committing /\ pc' \in {"idle", "fast", "wait", "prepare", "fill", "commit", "submit"}
       /\ pc' = "prepare" => ~locked
       /\ pc' \in {"submit", "fast", "idle"} => ToBeChanged = {}
ControlMove(w) ==
    \/ wstate'[w] = wstate[w]
    \/ wstate[w] \in Waiting /\ wstate'[w] \in {"queued", "incoming"}
    \/ wstate[w] \in Waiting /\ Kind[w] = "peer" /\ wstate'[w] = "done"
Control == ControlFrame /\ ControlTypes /\ ControlPc /\ \A w \in Writes : ControlMove(w)

LEMMA ControlRefs == ASSUME RefsInv, Control PROVE RefsInv'
<1>1. TypeOK'
  <2>1. LcTypeOK'
    BY Zenon DEF RefsInv, TypeOK, LcTypeOK, Control, ControlFrame, ControlTypes
  <2>2. pc' \in {"idle", "fast", "wait", "prepare", "fill", "commit", "bitmap", "log",
                 "committed", "submit"}
    BY SMT DEF RefsInv, TypeOK, Control, ControlPc
  <2> QED
    BY <2>1, <2>2, Zenon DEF RefsInv, TypeOK, Control, ControlFrame, ControlTypes
<1>2. OneTransaction'
  <2>1. ToBeChanged' = ToBeChanged /\ AdminLocked' = AdminLocked /\ locked' = locked
    BY DEF ToBeChanged, AdminLocked, Control, ControlFrame
  <2>2. /\ Committing' <=> Committing
        /\ pc' = "prepare" => ~locked
        /\ pc' \in {"submit", "fast", "idle"} => ToBeChanged = {}
    BY DEF RefsInv, OneTransaction, Control, ControlPc, Committing
  <2>3. dirty => dirty'
    BY DEF Control, ControlFrame
  <2> QED
    BY <2>1, <2>2, <2>3 DEF RefsInv, OneTransaction
<1>3. SameCache
  BY DEF Control, ControlFrame, SameCache
<1>4. \A w \in Writes : SameSide(w)
  BY Zenon DEF Control, ControlMove, SameSide
<1> QED
  BY <1>1, <1>2, <1>3, <1>4, SameCacheStep

-----------------------------------------------------------------------------
\* The control steps that look at one write.
LEMMA WriteControl ==
  ASSUME TypeOK, OneTransaction, NEW w \in Writes,
         ArriveCold(w) \/ FastSkip(w) \/ PrepareCleanup(w) \/ PreparePeersStuck(w) \/ PrepareAppsStuck(w)
  PROVE  Control
\* A write that needs the submitter is queued.
<1>1. CASE ArriveCold(w)
  <2>1. ControlFrame
    BY <1>1, Zenon DEF ControlFrame, lcVars, writeVars, subVars, mdVars, envVars, ArriveCold, Arrives
  <2>2. ControlTypes
    BY <1>1, Zenon DEF TypeOK, LcTypeOK, ControlTypes, WState, lcVars, writeVars, subVars, mdVars, envVars, ArriveCold, Arrives
  <2>3. ControlPc
    BY <1>1, SMT DEF OneTransaction, ControlPc, Committing, lcVars, writeVars, subVars, mdVars, envVars, ArriveCold, Arrives
  <2>4. \A v \in Writes : ControlMove(v)
    BY <1>1, SMT DEF TypeOK, ControlMove, Waiting, lcVars, writeVars, subVars, mdVars, envVars, ArriveCold, Arrives
  <2> QED
    BY <2>1, <2>2, <2>3, <2>4 DEF Control
\* submit_fast_path() leaves a cold write on its incoming list.
<1>2. CASE FastSkip(w)
  <2>1. ControlFrame
    BY <1>2, Zenon DEF ControlFrame, lcVars, writeVars, subVars, mdVars, envVars, FastSkip
  <2>2. ControlTypes
    BY <1>2, Zenon DEF TypeOK, LcTypeOK, ControlTypes, WState, lcVars, writeVars, subVars, mdVars, envVars, FastSkip
  <2>3. ControlPc
    BY <1>2, Zenon DEF OneTransaction, ControlPc, Committing, lcVars, writeVars, subVars, mdVars, envVars, FastSkip
  <2>4. \A v \in Writes : ControlMove(v)
    BY <1>2, SMT DEF TypeOK, ControlMove, Waiting, lcVars, writeVars, subVars, mdVars, envVars, FastSkip
  <2> QED
    BY <2>1, <2>2, <2>3, <2>4 DEF Control
\* A peer write whose connection is gone is dropped.
<1>3. CASE PrepareCleanup(w)
  <2>1. ControlFrame
    BY <1>3, Zenon DEF ControlFrame, lcVars, writeVars, subVars, mdVars, envVars, PrepareCleanup, PeerHead, In, IsFirst
  <2>2. ControlTypes
    BY <1>3, Zenon DEF TypeOK, LcTypeOK, ControlTypes, WState, lcVars, writeVars, subVars, mdVars, envVars, PrepareCleanup, PeerHead, In, IsFirst
  <2>3. ControlPc
    BY <1>3, SMT DEF OneTransaction, ControlPc, Committing, lcVars, writeVars, subVars, mdVars, envVars, PrepareCleanup, PeerHead, In, IsFirst
  <2>4. \A v \in Writes : ControlMove(v)
    BY <1>3, SMT DEF TypeOK, ControlMove, Waiting, lcVars, writeVars, subVars, mdVars, envVars, PrepareCleanup, PeerHead, In, IsFirst
  <2> QED
    BY <2>1, <2>2, <2>3, <2>4 DEF Control
\* There is no slot for the first waiting peer write.
<1>4. CASE PreparePeersStuck(w)
  <2>1. ControlFrame
    BY <1>4, Zenon DEF ControlFrame, lcVars, writeVars, subVars, mdVars, envVars, PreparePeersStuck, lc_get_fails
  <2>2. ControlTypes
    BY <1>4, Zenon DEF TypeOK, LcTypeOK, ControlTypes, WState, lcVars, writeVars, subVars, mdVars, envVars, PreparePeersStuck, lc_get_fails
  <2>3. ControlPc
    BY <1>4, Zenon DEF OneTransaction, ControlPc, Committing, lcVars, writeVars, subVars, mdVars, envVars, PreparePeersStuck, lc_get_fails
  <2>4. \A v \in Writes : ControlMove(v)
    BY <1>4, SMT DEF TypeOK, ControlMove, Waiting, lcVars, writeVars, subVars, mdVars, envVars, PreparePeersStuck, lc_get_fails
  <2> QED
    BY <2>1, <2>2, <2>3, <2>4 DEF Control
\* There is no slot for the first waiting application write.
<1>5. CASE PrepareAppsStuck(w)
  <2>1. ControlFrame
    BY <1>5, Zenon DEF ControlFrame, lcVars, writeVars, subVars, mdVars, envVars, PrepareAppsStuck, AppHead, lc_get_fails, AfterPrepare
  <2>2. ControlTypes
    BY <1>5, Zenon DEF TypeOK, LcTypeOK, ControlTypes, WState, lcVars, writeVars, subVars, mdVars, envVars, PrepareAppsStuck, AppHead, lc_get_fails, AfterPrepare
  <2>3. ControlPc
    BY <1>5, Zenon DEF OneTransaction, ControlPc, Committing, lcVars, writeVars, subVars, mdVars, envVars, PrepareAppsStuck, AppHead, lc_get_fails, AfterPrepare
  <2>4. \A v \in Writes : ControlMove(v)
    BY <1>5, SMT DEF TypeOK, ControlMove, Waiting, lcVars, writeVars, subVars, mdVars, envVars, PrepareAppsStuck, AppHead, lc_get_fails, AfterPrepare
  <2> QED
    BY <2>1, <2>2, <2>3, <2>4 DEF Control
<1> QED
  BY <1>1, <1>2, <1>3, <1>4, <1>5

\* The others.
LEMMA SubmitterControl ==
  ASSUME TypeOK, OneTransaction,
         DoSubmit \/ FastEnd \/ PrepareBegin \/ PrepareEnd \/ FillUp \/ FillEnd \/ CommitNothing \/ SubmitEnd \/ Disconnect
  PROVE  Control
\* do_submit() grabs what is queued.
<1>1. CASE DoSubmit
  <2>1. ControlFrame
    BY <1>1, Zenon DEF ControlFrame, lcVars, writeVars, subVars, mdVars, envVars, DoSubmit, GrabIncoming
  <2>2. ControlTypes
    BY <1>1, Zenon DEF TypeOK, LcTypeOK, ControlTypes, WState, lcVars, writeVars, subVars, mdVars, envVars, DoSubmit, GrabIncoming
  <2>3. ControlPc
    BY <1>1, Zenon DEF OneTransaction, ControlPc, Committing, lcVars, writeVars, subVars, mdVars, envVars, DoSubmit, GrabIncoming
  <2>4. \A v \in Writes : ControlMove(v)
    BY <1>1, SMT DEF TypeOK, ControlMove, Waiting, lcVars, writeVars, subVars, mdVars, envVars, DoSubmit, GrabIncoming
  <2> QED
    BY <2>1, <2>2, <2>3, <2>4 DEF Control
\* submit_fast_path() is through.
<1>2. CASE FastEnd
  <2>1. ControlFrame
    BY <1>2, Zenon DEF ControlFrame, lcVars, writeVars, subVars, mdVars, envVars, FastEnd
  <2>2. ControlTypes
    BY <1>2, Zenon DEF TypeOK, LcTypeOK, ControlTypes, WState, lcVars, writeVars, subVars, mdVars, envVars, FastEnd
  <2>3. ControlPc
    BY <1>2, Zenon DEF OneTransaction, ControlPc, Committing, lcVars, writeVars, subVars, mdVars, envVars, FastEnd
  <2>4. \A v \in Writes : ControlMove(v)
    BY <1>2, SMT DEF TypeOK, ControlMove, Waiting, lcVars, writeVars, subVars, mdVars, envVars, FastEnd
  <2> QED
    BY <2>1, <2>2, <2>3, <2>4 DEF Control
\* prepare_al_transaction_nonblock() takes al_lock.
<1>3. CASE PrepareBegin
  <2>1. ControlFrame
    BY <1>3, Zenon DEF ControlFrame, lcVars, writeVars, subVars, mdVars, envVars, PrepareBegin
  <2>2. ControlTypes
    BY <1>3, Zenon DEF TypeOK, LcTypeOK, ControlTypes, WState, lcVars, writeVars, subVars, mdVars, envVars, PrepareBegin
  <2>3. ControlPc
    BY <1>3, SMT DEF OneTransaction, ControlPc, Committing, lcVars, writeVars, subVars, mdVars, envVars, PrepareBegin
  <2>4. \A v \in Writes : ControlMove(v)
    BY <1>3, SMT DEF TypeOK, ControlMove, Waiting, lcVars, writeVars, subVars, mdVars, envVars, PrepareBegin
  <2> QED
    BY <2>1, <2>2, <2>3, <2>4 DEF Control
\* prepare_al_transaction_nonblock() returns.
<1>4. CASE PrepareEnd
  <2>1. ControlFrame
    BY <1>4, Zenon DEF ControlFrame, lcVars, writeVars, subVars, mdVars, envVars, PrepareEnd, AfterPrepare
  <2>2. ControlTypes
    BY <1>4, Zenon DEF TypeOK, LcTypeOK, ControlTypes, WState, lcVars, writeVars, subVars, mdVars, envVars, PrepareEnd, AfterPrepare
  <2>3. ControlPc
    BY <1>4, Zenon DEF OneTransaction, ControlPc, Committing, lcVars, writeVars, subVars, mdVars, envVars, PrepareEnd, AfterPrepare
  <2>4. \A v \in Writes : ControlMove(v)
    BY <1>4, SMT DEF TypeOK, ControlMove, Waiting, lcVars, writeVars, subVars, mdVars, envVars, PrepareEnd, AfterPrepare
  <2> QED
    BY <2>1, <2>2, <2>3, <2>4 DEF Control
\* do_submit() adds writes that came in meanwhile.
<1>5. CASE FillUp
  <2>1. ControlFrame
    BY <1>5, Zenon DEF ControlFrame, lcVars, writeVars, subVars, mdVars, envVars, FillUp, GrabIncoming
  <2>2. ControlTypes
    BY <1>5, Zenon DEF TypeOK, LcTypeOK, ControlTypes, WState, lcVars, writeVars, subVars, mdVars, envVars, FillUp, GrabIncoming
  <2>3. ControlPc
    BY <1>5, Zenon DEF OneTransaction, ControlPc, Committing, lcVars, writeVars, subVars, mdVars, envVars, FillUp, GrabIncoming
  <2>4. \A v \in Writes : ControlMove(v)
    BY <1>5, SMT DEF TypeOK, ControlMove, Waiting, lcVars, writeVars, subVars, mdVars, envVars, FillUp, GrabIncoming
  <2> QED
    BY <2>1, <2>2, <2>3, <2>4 DEF Control
\* do_submit() stops filling the transaction.
<1>6. CASE FillEnd
  <2>1. ControlFrame
    BY <1>6, Zenon DEF ControlFrame, lcVars, writeVars, subVars, mdVars, envVars, FillEnd
  <2>2. ControlTypes
    BY <1>6, Zenon DEF TypeOK, LcTypeOK, ControlTypes, WState, lcVars, writeVars, subVars, mdVars, envVars, FillEnd
  <2>3. ControlPc
    BY <1>6, SMT DEF OneTransaction, ControlPc, Committing, lcVars, writeVars, subVars, mdVars, envVars, FillEnd
  <2>4. \A v \in Writes : ControlMove(v)
    BY <1>6, SMT DEF TypeOK, ControlMove, Waiting, lcVars, writeVars, subVars, mdVars, envVars, FillEnd
  <2> QED
    BY <2>1, <2>2, <2>3, <2>4 DEF Control
\* drbd_al_begin_io_commit() finds no change pending.
<1>7. CASE CommitNothing
  <2>1. ControlFrame
    BY <1>7, Zenon DEF ControlFrame, lcVars, writeVars, subVars, mdVars, envVars, CommitNothing
  <2>2. ControlTypes
    BY <1>7, Zenon DEF TypeOK, LcTypeOK, ControlTypes, WState, lcVars, writeVars, subVars, mdVars, envVars, CommitNothing
  <2>3. ControlPc
    BY <1>7, Zenon DEF OneTransaction, ControlPc, Committing, lcVars, writeVars, subVars, mdVars, envVars, CommitNothing
  <2>4. \A v \in Writes : ControlMove(v)
    BY <1>7, SMT DEF TypeOK, ControlMove, Waiting, lcVars, writeVars, subVars, mdVars, envVars, CommitNothing
  <2> QED
    BY <2>1, <2>2, <2>3, <2>4 DEF Control
\* do_submit() has submitted every pending write.
<1>8. CASE SubmitEnd
  <2>1. ControlFrame
    BY <1>8, Zenon DEF ControlFrame, lcVars, writeVars, subVars, mdVars, envVars, SubmitEnd
  <2>2. ControlTypes
    BY <1>8, Zenon DEF TypeOK, LcTypeOK, ControlTypes, WState, lcVars, writeVars, subVars, mdVars, envVars, SubmitEnd
  <2>3. ControlPc
    BY <1>8, Zenon DEF OneTransaction, ControlPc, Committing, lcVars, writeVars, subVars, mdVars, envVars, SubmitEnd
  <2>4. \A v \in Writes : ControlMove(v)
    BY <1>8, SMT DEF TypeOK, ControlMove, Waiting, lcVars, writeVars, subVars, mdVars, envVars, SubmitEnd
  <2> QED
    BY <2>1, <2>2, <2>3, <2>4 DEF Control
\* The connection is lost.
<1>9. CASE Disconnect
  <2>1. ControlFrame
    BY <1>9, Zenon DEF ControlFrame, lcVars, writeVars, subVars, mdVars, envVars, Disconnect
  <2>2. ControlTypes
    BY <1>9, Zenon DEF TypeOK, LcTypeOK, ControlTypes, WState, lcVars, writeVars, subVars, mdVars, envVars, Disconnect
  <2>3. ControlPc
    BY <1>9, Zenon DEF OneTransaction, ControlPc, Committing, lcVars, writeVars, subVars, mdVars, envVars, Disconnect
  <2>4. \A v \in Writes : ControlMove(v)
    BY <1>9, SMT DEF TypeOK, ControlMove, Waiting, lcVars, writeVars, subVars, mdVars, envVars, Disconnect
  <2> QED
    BY <2>1, <2>2, <2>3, <2>4 DEF Control
<1> QED
  BY <1>1, <1>2, <1>3, <1>4, <1>5, <1>6, <1>7, <1>8, <1>9

-----------------------------------------------------------------------------
\* The transaction is written.
LEMMA TransactionRefs ==
  ASSUME RefsInv,
         CommitBegin \/ WriteHintedEnd \/ WriteHintedFails \/ WriteLog \/ WriteLogFails
  PROVE  RefsInv'
\* __al_write_transaction() starts under the lock.
<1>1. CASE CommitBegin
  <2>1. TypeOK'
    <3>1. LcTypeOK'
      BY <1>1, ZenonT(30) DEF RefsInv, TypeOK, LcTypeOK, lcVars, CommitBegin, lc_try_lock_for_transaction
    <3>2. pc' \in {"idle", "fast", "wait", "prepare", "fill", "commit", "bitmap", "log", "committed", "submit"}
      BY <1>1, Zenon DEF CommitBegin
    <3>3. hinted' \in SUBSET Extents
      BY <1>1 DEF CommitBegin, RefsInv, TypeOK, LcTypeOK, Labels, ToBeChanged
    <3> QED
      BY <1>1, <3>1, <3>2, <3>3, ZenonT(30) DEF RefsInv, TypeOK, writeVars, subVars, mdVars, envVars, CommitBegin
  <2>2. OneTransaction'
    BY <1>1 DEF RefsInv, OneTransaction, ToBeChanged, Committing, AdminLocked,
       lcVars, subVars, envVars, CommitBegin, lc_try_lock_for_transaction
  <2>3. SameCache
    BY <1>1, Zenon DEF SameCache, lcVars, writeVars, CommitBegin, lc_try_lock_for_transaction
  <2>4. \A v \in Writes : SameSide(v)
    BY <1>1 DEF SameSide, writeVars, CommitBegin
  <2> QED
    BY <2>1, <2>2, <2>3, <2>4, SameCacheStep, Zenon
\* The pages are written.
<1>2. CASE WriteHintedEnd
  <2>1. TypeOK'
    <3>1. LcTypeOK'
      BY <1>2, Zenon DEF RefsInv, TypeOK, LcTypeOK, lcVars, WriteHintedEnd
    <3>2. pc' = "log"
      BY <1>2, Zenon DEF WriteHintedEnd
    <3>3. /\ UNCHANGED <<wstate, next_enr, in_actlog, tried, peers_done, made_progress, filling, hinted, al_on_disk>>
         /\ UNCHANGED <<bm_on_disk, bm, differs, disk, connected, al_suspended, adm, crashes, resizes, suspends>>
      BY <1>2, Zenon DEF WriteHintedEnd, writeVars, subVars, mdVars, envVars
    <3>4. TypeOK
      BY Zenon DEF RefsInv
    <3> QED
      BY <3>1, <3>2, <3>3, <3>4 DEF TypeOK
  <2>2. OneTransaction'
    BY <1>2 DEF RefsInv, OneTransaction, ToBeChanged, Committing, AdminLocked,
       lcVars, subVars, envVars, WriteHintedEnd
  <2>3. SameCache
    BY <1>2 DEF SameCache, lcVars, writeVars, WriteHintedEnd
  <2>4. \A v \in Writes : SameSide(v)
    BY <1>2 DEF SameSide, writeVars, WriteHintedEnd
  <2> QED
    BY <2>1, <2>2, <2>3, <2>4, SameCacheStep, Zenon
\* The pages cannot be written.
<1>3. CASE WriteHintedFails
  <2>1. TypeOK'
    <3>1. LcTypeOK'
      BY <1>3, ZenonT(30) DEF RefsInv, TypeOK, LcTypeOK, lcVars, WriteHintedFails
    <3>2. pc' = "committed" /\ disk' = "failed" /\ hinted' = {}
      BY <1>3, Zenon DEF WriteHintedFails
    <3>3. /\ UNCHANGED <<wstate, next_enr, in_actlog, tried, peers_done, made_progress, filling, al_on_disk>>
         /\ UNCHANGED <<bm_on_disk, bm, differs, connected, al_suspended, adm, crashes, resizes, suspends>>
      BY <1>3, Zenon DEF WriteHintedFails, writeVars, subVars, mdVars, envVars
    <3>4. TypeOK
      BY Zenon DEF RefsInv
    <3> QED
      BY <3>1, <3>2, <3>3, <3>4 DEF TypeOK
  <2>2. OneTransaction'
    BY <1>3 DEF RefsInv, OneTransaction, ToBeChanged, Committing, AdminLocked,
       lcVars, subVars, envVars, WriteHintedFails
  <2>3. SameCache
    BY <1>3, Zenon DEF SameCache, lcVars, writeVars, WriteHintedFails
  <2>4. \A v \in Writes : SameSide(v)
    BY <1>3 DEF SameSide, writeVars, WriteHintedFails
  <2> QED
    BY <2>1, <2>2, <2>3, <2>4, SameCacheStep, Zenon
\* The transaction block is written.
<1>4. CASE WriteLog
  <2>1. TypeOK'
    <3>1. LcTypeOK'
      BY <1>4, ZenonT(30) DEF RefsInv, TypeOK, LcTypeOK, lcVars, WriteLog, Transaction
    <3>2. pc' = "committed"
      BY <1>4, Zenon DEF WriteLog
    <3>3. al_on_disk' \in [Slots -> Labels]
      BY <1>4, Zenon DEF WriteLog, Transaction, ToBeChanged, RefsInv, TypeOK, LcTypeOK
    <3>4. /\ UNCHANGED <<wstate, next_enr, in_actlog, tried, peers_done, made_progress, filling, hinted, bm_on_disk>>
         /\ UNCHANGED <<bm, differs, disk, connected, al_suspended, adm, crashes, resizes, suspends>>
      BY <1>4, Zenon DEF WriteLog, writeVars, subVars, mdVars, envVars
    <3>5. TypeOK
      BY Zenon DEF RefsInv
    <3> QED
      BY <3>1, <3>2, <3>3, <3>4, <3>5 DEF TypeOK
  <2>2. OneTransaction'
    BY <1>4, Zenon DEF RefsInv, OneTransaction, ToBeChanged, Committing, AdminLocked,
       lcVars, subVars, envVars, WriteLog, Transaction
  <2>3. SameCache
    BY <1>4, Zenon DEF SameCache, lcVars, writeVars, WriteLog, Transaction
  <2>4. \A v \in Writes : SameSide(v)
    BY <1>4, ZenonT(30) DEF SameSide, writeVars, WriteLog
  <2> QED
    BY <2>1, <2>2, <2>3, <2>4, SameCacheStep, Zenon
\* The transaction block cannot be written.
<1>5. CASE WriteLogFails
  <2>1. TypeOK'
    <3>1. LcTypeOK'
      BY <1>5, ZenonT(30) DEF RefsInv, TypeOK, LcTypeOK, lcVars, WriteLogFails, Transaction
    <3>2. pc' = "committed" /\ disk' = "failed"
      BY <1>5, Zenon DEF WriteLogFails
    <3>3. al_on_disk' \in [Slots -> Labels]
      BY <1>5, Zenon DEF WriteLogFails, Transaction, ToBeChanged, RefsInv, TypeOK, LcTypeOK
    <3>4. /\ UNCHANGED <<wstate, next_enr, in_actlog, tried, peers_done, made_progress, filling, hinted>>
         /\ UNCHANGED <<bm_on_disk, bm, differs, connected, al_suspended, adm, crashes, resizes, suspends>>
      BY <1>5, Zenon DEF WriteLogFails, writeVars, subVars, mdVars, envVars
    <3>5. TypeOK
      BY Zenon DEF RefsInv
    <3> QED
      BY <3>1, <3>2, <3>3, <3>4, <3>5 DEF TypeOK
  <2>2. OneTransaction'
    BY <1>5, ZenonT(30) DEF RefsInv, OneTransaction, ToBeChanged, Committing, AdminLocked,
       lcVars, subVars, envVars, WriteLogFails, Transaction
  <2>3. SameCache
    BY <1>5, Zenon DEF SameCache, lcVars, writeVars, WriteLogFails, Transaction
  <2>4. \A v \in Writes : SameSide(v)
    BY <1>5 DEF SameSide, writeVars, WriteLogFails
  <2> QED
    BY <2>1, <2>2, <2>3, <2>4, SameCacheStep, Zenon
<1> QED
  BY <1>1, <1>2, <1>3, <1>4, <1>5

\* The disk, the connection and the administrator.
LEMMA EnvironmentRefs ==
  ASSUME RefsInv,
         DiskFails \/ Connect \/ SetAllSuspendAl \/ Resize \/ ResizeLock \/ AlShrunk
  PROVE  RefsInv'
\* The disk fails.
<1>1. CASE DiskFails
  <2>1. TypeOK'
    <3>1. LcTypeOK'
      BY <1>1, Zenon DEF RefsInv, TypeOK, LcTypeOK, lcVars, DiskFails
    <3>2. disk' \in {"up", "failed"}
      BY <1>1, Zenon DEF DiskFails
    <3> QED
      BY <1>1, <3>1, <3>2, ZenonT(30) DEF RefsInv, TypeOK, writeVars, subVars, mdVars, envVars, DiskFails
  <2>2. OneTransaction'
    BY <1>1 DEF RefsInv, OneTransaction, ToBeChanged, Committing, AdminLocked,
       lcVars, subVars, envVars, DiskFails
  <2>3. SameCache
    BY <1>1 DEF SameCache, lcVars, writeVars, DiskFails
  <2>4. \A v \in Writes : SameSide(v)
    BY <1>1 DEF SameSide, writeVars, DiskFails
  <2> QED
    BY <2>1, <2>2, <2>3, <2>4, SameCacheStep, Zenon
\* A connection resumes AL updates.
<1>2. CASE Connect
  <2>1. TypeOK'
    <3>1. LcTypeOK'
      BY <1>2, Zenon DEF RefsInv, TypeOK, LcTypeOK, lcVars, Connect
    <3>2. connected' \in BOOLEAN /\ al_suspended' \in BOOLEAN
      BY <1>2, Zenon DEF RefsInv, TypeOK, Connect
    <3> QED
      BY <1>2, <3>1, <3>2, ZenonT(30) DEF RefsInv, TypeOK, writeVars, subVars, mdVars, Connect
  <2>2. OneTransaction'
    BY <1>2 DEF RefsInv, OneTransaction, ToBeChanged, Committing, AdminLocked,
       lcVars, subVars, envVars, Connect
  <2>3. SameCache
    BY <1>2, SMTT(30) DEF SameCache, lcVars, writeVars, Connect
  <2>4. \A v \in Writes : SameSide(v)
    BY <1>2, ZenonT(30) DEF SameSide, writeVars, Connect
  <2> QED
    BY <2>1, <2>2, <2>3, <2>4, SameCacheStep
\* drbd_bmio_set_susp_al() sets all bits and may lock the log.
<1>3. CASE SetAllSuspendAl
  <2>1. TypeOK'
    <3>1. LcTypeOK'
      BY <1>3, ZenonT(30) DEF RefsInv, TypeOK, LcTypeOK, lcVars, SetAllSuspendAl, lc_try_lock, AlLockFree
    <3>2. bm' \in [Extents -> BOOLEAN] /\ bm_on_disk' \in [Extents -> BOOLEAN]
      BY <1>3, Zenon DEF SetAllSuspendAl
    <3>3. adm' \in {"idle", "suspend", "resize_lock", "resize"}
      BY <1>3, Zenon DEF SetAllSuspendAl, RefsInv, TypeOK
    <3>4. suspends' \in Nat
      BY <1>3 DEF SetAllSuspendAl, RefsInv, TypeOK
    <3> QED
      BY <1>3, <3>1, <3>2, <3>3, <3>4, ZenonT(30) DEF RefsInv, TypeOK, writeVars, subVars, mdVars, envVars, SetAllSuspendAl
  <2>2. OneTransaction'
    BY <1>3, ZenonT(30) DEF RefsInv, OneTransaction, ToBeChanged, Committing, AdminLocked,
       lcVars, subVars, envVars, SetAllSuspendAl, lc_try_lock, AlLockFree
  <2>3. SameCache
    BY <1>3, Zenon DEF SameCache, lcVars, writeVars, SetAllSuspendAl, lc_try_lock, AlLockFree
  <2>4. \A v \in Writes : SameSide(v)
    BY <1>3 DEF SameSide, writeVars, SetAllSuspendAl
  <2> QED
    BY <2>1, <2>2, <2>3, <2>4, SameCacheStep, Zenon
\* disk_opts_check_al_size()
<1>4. CASE Resize
  <2>1. TypeOK'
    <3>1. LcTypeOK'
      BY <1>4, ZenonT(30) DEF RefsInv, TypeOK, LcTypeOK, lcVars, Resize
    <3>2. adm' \in {"idle", "suspend", "resize_lock", "resize"}
      BY <1>4, Zenon DEF Resize
    <3>3. resizes' \in Nat
      BY <1>4 DEF Resize, RefsInv, TypeOK
    <3> QED
      BY <1>4, <3>1, <3>2, <3>3, ZenonT(30) DEF RefsInv, TypeOK, writeVars, subVars, mdVars, envVars, Resize
  <2>2. OneTransaction'
    BY <1>4 DEF RefsInv, OneTransaction, ToBeChanged, Committing, AdminLocked,
       lcVars, subVars, envVars, Resize
  <2>3. SameCache
    BY <1>4, Zenon DEF SameCache, lcVars, writeVars, Resize
  <2>4. \A v \in Writes : SameSide(v)
    BY <1>4 DEF SameSide, writeVars, Resize
  <2> QED
    BY <2>1, <2>2, <2>3, <2>4, SameCacheStep, Zenon
\* drbd_check_al_size() locks the log.
<1>5. CASE ResizeLock
  <2>1. TypeOK'
    <3>1. LcTypeOK'
      BY <1>5, ZenonT(30) DEF RefsInv, TypeOK, LcTypeOK, lcVars, ResizeLock, lc_try_lock, AlLockFree
    <3>2. adm' = "resize"
      BY <1>5, Zenon DEF ResizeLock
    <3>3. /\ UNCHANGED <<wstate, next_enr, in_actlog, pc, tried, peers_done, made_progress, filling, hinted>>
         /\ UNCHANGED <<al_on_disk, bm_on_disk, bm, differs, disk, connected, al_suspended, crashes, resizes, suspends>>
      BY <1>5, Zenon DEF ResizeLock, writeVars, subVars, mdVars, envVars
    <3>4. TypeOK
      BY Zenon DEF RefsInv
    <3> QED
      BY <3>1, <3>2, <3>3, <3>4 DEF TypeOK
  <2>2. OneTransaction'
    BY <1>5 DEF RefsInv, OneTransaction, ToBeChanged, Committing, AdminLocked,
       lcVars, subVars, envVars, ResizeLock, lc_try_lock, AlLockFree
  <2>3. SameCache
    BY <1>5, SMTT(30) DEF SameCache, lcVars, writeVars, ResizeLock, lc_try_lock, AlLockFree
  <2>4. \A v \in Writes : SameSide(v)
    BY <1>5, ZenonT(30) DEF SameSide, writeVars, ResizeLock
  <2> QED
    BY <2>1, <2>2, <2>3, <2>4, SameCacheStep, Zenon
\* The emptied log is unlocked.
<1>6. CASE AlShrunk
  <2>1. TypeOK'
    <3>1. LcTypeOK'
      BY <1>6, Zenon DEF RefsInv, TypeOK, LcTypeOK, lcVars, AlShrunk, lc_unlock
    <3>2. connected' \in BOOLEAN /\ al_suspended' \in BOOLEAN
      BY <1>6, Zenon DEF RefsInv, TypeOK, AlShrunk
    <3> QED
      BY <1>6, <3>1, <3>2, ZenonT(30) DEF RefsInv, TypeOK, writeVars, subVars, mdVars, AlShrunk
  <2>2. OneTransaction'
    BY <1>6, ZenonT(30) DEF RefsInv, OneTransaction, ToBeChanged, Committing, AdminLocked,
       lcVars, subVars, envVars, AlShrunk, lc_unlock
  <2>3. SameCache
    BY <1>6, Zenon DEF SameCache, lcVars, writeVars, AlShrunk, lc_unlock
  <2>4. \A v \in Writes : SameSide(v)
    BY <1>6, Zenon DEF SameSide, writeVars, AlShrunk
  <2> QED
    BY <2>1, <2>2, <2>3, <2>4, SameCacheStep
<1> QED
  BY <1>1, <1>2, <1>3, <1>4, <1>5, <1>6

\* The bitmap.
LEMMA BitmapRefs ==
  ASSUME RefsInv, NEW e \in Extents,
         WriteHinted(e) \/ ResyncClears(e) \/ WriteLazy(e)
  PROVE  RefsInv'
\* A page of the bitmap is written.
<1>1. CASE WriteHinted(e)
  <2>1. TypeOK'
    <3>1. LcTypeOK'
      BY <1>1, ZenonT(30) DEF RefsInv, TypeOK, LcTypeOK, lcVars, WriteHinted
    <3>2. hinted' \in SUBSET Extents
      BY <1>1, Zenon DEF WriteHinted, RefsInv, TypeOK, LcTypeOK
    <3>3. bm_on_disk' \in [Extents -> BOOLEAN]
      BY <1>1, Zenon DEF WriteHinted, RefsInv, TypeOK, LcTypeOK
    <3>4. /\ UNCHANGED <<wstate, next_enr, in_actlog, pc, tried, peers_done, made_progress, filling, al_on_disk>>
         /\ UNCHANGED <<bm, differs, disk, connected, al_suspended, adm, crashes, resizes, suspends>>
      BY <1>1, Zenon DEF WriteHinted, writeVars, subVars, mdVars, envVars
    <3>5. TypeOK
      BY Zenon DEF RefsInv
    <3> QED
      BY <3>1, <3>2, <3>3, <3>4, <3>5 DEF TypeOK
  <2>2. OneTransaction'
    BY <1>1 DEF RefsInv, OneTransaction, ToBeChanged, Committing, AdminLocked,
       lcVars, subVars, envVars, WriteHinted
  <2>3. SameCache
    BY <1>1, SMTT(30) DEF SameCache, lcVars, writeVars, WriteHinted
  <2>4. \A v \in Writes : SameSide(v)
    BY <1>1, ZenonT(30) DEF SameSide, writeVars, WriteHinted
  <2> QED
    BY <2>1, <2>2, <2>3, <2>4, SameCacheStep, Zenon
\* Resync clears bits.
<1>2. CASE ResyncClears(e)
  <2>1. TypeOK'
    <3>1. LcTypeOK'
      BY <1>2, ZenonT(30) DEF RefsInv, TypeOK, LcTypeOK, lcVars, ResyncClears
    <3>2. bm' \in [Extents -> BOOLEAN]
      BY <1>2, Zenon DEF ResyncClears, RefsInv, TypeOK, LcTypeOK
    <3>3. differs' \in SUBSET Extents
      BY <1>2, Zenon DEF ResyncClears, RefsInv, TypeOK, LcTypeOK
    <3>4. /\ UNCHANGED <<wstate, next_enr, in_actlog, pc, tried, peers_done, made_progress, filling, hinted>>
         /\ UNCHANGED <<al_on_disk, bm_on_disk, disk, connected, al_suspended, adm, crashes, resizes, suspends>>
      BY <1>2, Zenon DEF ResyncClears, writeVars, subVars, mdVars, envVars
    <3>5. TypeOK
      BY Zenon DEF RefsInv
    <3> QED
      BY <3>1, <3>2, <3>3, <3>4, <3>5 DEF TypeOK
  <2>2. OneTransaction'
    BY <1>2 DEF RefsInv, OneTransaction, ToBeChanged, Committing, AdminLocked,
       lcVars, subVars, envVars, ResyncClears
  <2>3. SameCache
    BY <1>2, Zenon DEF SameCache, lcVars, writeVars, ResyncClears
  <2>4. \A v \in Writes : SameSide(v)
    BY <1>2 DEF SameSide, writeVars, ResyncClears
  <2> QED
    BY <2>1, <2>2, <2>3, <2>4, SameCacheStep, Zenon
\* drbd_bm_write_lazy()
<1>3. CASE WriteLazy(e)
  <2>1. TypeOK'
    <3>1. LcTypeOK'
      BY <1>3, ZenonT(30) DEF RefsInv, TypeOK, LcTypeOK, lcVars, WriteLazy
    <3>2. bm_on_disk' \in [Extents -> BOOLEAN]
      BY <1>3 DEF WriteLazy, RefsInv, TypeOK
    <3>3. UNCHANGED <<wstate, next_enr, in_actlog, pc, tried, peers_done, made_progress, filling, hinted, al_on_disk, bm, differs, disk>>
      BY <1>3, Zenon DEF writeVars, subVars, mdVars, WriteLazy
    <3>4. UNCHANGED <<connected, al_suspended, adm, crashes, resizes, suspends>> /\ TypeOK
      BY <1>3, Zenon DEF envVars, RefsInv, WriteLazy
    <3> QED
      BY <3>1, <3>2, <3>3, <3>4 DEF TypeOK
  <2>2. OneTransaction'
    BY <1>3 DEF RefsInv, OneTransaction, ToBeChanged, Committing, AdminLocked,
       lcVars, subVars, envVars, WriteLazy
  <2>3. SameCache
    BY <1>3, Zenon DEF SameCache, lcVars, writeVars, WriteLazy
  <2>4. \A v \in Writes : SameSide(v)
    BY <1>3 DEF SameSide, writeVars, WriteLazy
  <2> QED
    BY <2>1, <2>2, <2>3, <2>4, SameCacheStep, Zenon
<1> QED
  BY <1>1, <1>2, <1>3

\* The end of a write.
LEMMA SettleRefs ==
  ASSUME RefsInv, NEW w \in Writes,
         SettleInSync(w) \/ SettleOutOfSync(w)
  PROVE  RefsInv'
\* Every replica has the data of a write.
<1>1. CASE SettleInSync(w)
  <2>1. TypeOK'
    <3>1. LcTypeOK'
      BY <1>1, ZenonT(30) DEF RefsInv, TypeOK, LcTypeOK, lcVars, SettleInSync
    <3>2. wstate' \in [Writes -> WState]
      BY <1>1 DEF SettleInSync, RefsInv, TypeOK, WState
    <3>3. differs' \in SUBSET Extents
      BY <1>1 DEF SettleInSync, RefsInv, TypeOK
    <3>4. UNCHANGED <<next_enr, in_actlog, pc, tried, peers_done, made_progress, filling, hinted, al_on_disk, bm, bm_on_disk, disk>>
      BY <1>1, Zenon DEF writeVars, subVars, mdVars, SettleInSync
    <3>5. UNCHANGED <<connected, al_suspended, adm, crashes, resizes, suspends>> /\ TypeOK
      BY <1>1, Zenon DEF envVars, RefsInv, SettleInSync
    <3> QED
      BY <3>1, <3>2, <3>3, <3>4, <3>5 DEF TypeOK
  <2>2. OneTransaction'
    BY <1>1, ZenonT(30) DEF RefsInv, OneTransaction, ToBeChanged, Committing, AdminLocked,
       lcVars, subVars, envVars, SettleInSync
  <2>3. SameCache
    BY <1>1, ZenonT(30) DEF SameCache, lcVars, writeVars, SettleInSync
  <2>4. \A v \in Writes : SameSide(v)
    BY <1>1 DEF SameSide, RefsInv, TypeOK, Submitted, SettleInSync
  <2> QED
    BY <2>1, <2>2, <2>3, <2>4, SameCacheStep, Zenon
\* Some replica has not.
<1>2. CASE SettleOutOfSync(w)
  <2>1. TypeOK'
    <3>1. LcTypeOK'
      BY <1>2, ZenonT(30) DEF RefsInv, TypeOK, LcTypeOK, lcVars, SettleOutOfSync
    <3>2. wstate' \in [Writes -> WState]
      BY <1>2 DEF SettleOutOfSync, RefsInv, TypeOK, WState
    <3>3. bm' \in [Extents -> BOOLEAN]
      BY <1>2 DEF SettleOutOfSync, RefsInv, TypeOK
    <3>4. UNCHANGED <<next_enr, in_actlog, pc, tried, peers_done, made_progress, filling, hinted, al_on_disk, bm_on_disk, differs, disk>>
      BY <1>2, Zenon DEF writeVars, subVars, mdVars, SettleOutOfSync
    <3>5. UNCHANGED <<connected, al_suspended, adm, crashes, resizes, suspends>> /\ TypeOK
      BY <1>2, Zenon DEF envVars, RefsInv, SettleOutOfSync
    <3> QED
      BY <3>1, <3>2, <3>3, <3>4, <3>5 DEF TypeOK
  <2>2. OneTransaction'
    BY <1>2, Zenon DEF RefsInv, OneTransaction, ToBeChanged, Committing, AdminLocked,
       lcVars, subVars, envVars, SettleOutOfSync
  <2>3. SameCache
    BY <1>2, Zenon DEF SameCache, lcVars, writeVars, SettleOutOfSync
  <2>4. \A v \in Writes : SameSide(v)
    BY <1>2 DEF SameSide, RefsInv, TypeOK, Submitted, SettleOutOfSync
  <2> QED
    BY <2>1, <2>2, <2>3, <2>4, SameCacheStep, Zenon
<1> QED
  BY <1>1, <1>2
=============================================================================

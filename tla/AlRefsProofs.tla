---------------------------- MODULE AlRefsProofs ----------------------------
(***************************************************************************)
(* The reference counts of the activity log are exact: the steps that take *)
(* and put references or change labels preserve RefsInv as well, whatever  *)
(* the administrator does to the log.  With it no slot is recycled under a *)
(* write and no application write pins one for ever.                       *)
(***************************************************************************)
EXTENDS AlStepProofs, TLAPS

USE DEF Writes

\* The submission of a write keeps the types.
LEMMA SubmitType ==
  ASSUME TypeOK, NEW w \in Writes, NEW logged \in BOOLEAN, Submit(w, logged),
         refs' \in [Slots -> SUBSET Users],
         UNCHANGED <<lc_number, lc_new_number, age, starving, dirty, locked>>,
         UNCHANGED <<subVars, mdVars, disk, envVars>>
  PROVE  TypeOK'
<1>1. wstate' \in [Writes -> WState]
  BY DEF TypeOK, Submit, WState
<1>2. in_actlog' \in [Writes -> BOOLEAN]
  BY DEF TypeOK, Submit
<1>3. differs' \in SUBSET Extents
  BY ExtFacts DEF TypeOK, Submit
<1>4. bm' \in [Extents -> BOOLEAN]
  BY DEF TypeOK, Submit
<1>5. next_enr' = next_enr
  BY DEF Submit
<1>6. LcTypeOK'
  BY Zenon DEF TypeOK, LcTypeOK
<1> QED
  BY <1>1, <1>2, <1>3, <1>4, <1>5, <1>6, SMT DEF TypeOK, subVars, mdVars, envVars

\* The submission of a write that holds just the slots of its extents, or none when
\* the log is suspended.
LEMMA SubmitRefs ==
  ASSUME RefsInv, TypeOK', NEW w \in Writes, NEW logged \in BOOLEAN,
         Submit(w, logged),
         UNCHANGED <<lc_number, lc_new_number, dirty, locked, pc, adm>>,
         \A v \in Writes : v # w => \A i \in Slots : v \in refs'[i] <=> v \in refs[i],
         logged => \A e \in Ext(w) : \E i \in Slots :
                     w \in refs'[i] /\ lc_number[i] = e /\ lc_new_number[i] = e,
         Kind[w] = "app" =>
           \A i \in Slots : w \in refs'[i] => logged /\ lc_new_number[i] \in Ext(w)
  PROVE  RefsInv'
<1>1. /\ wstate'[w] \in {"inflight", "refused"} /\ in_actlog'[w] = logged
      /\ \A v \in Writes : v # w => wstate'[v] = wstate[v] /\ in_actlog'[v] = in_actlog[v]
      /\ next_enr' = next_enr
  BY DEF Submit, RefsInv, TypeOK
<1>2. UniqueLabels' /\ OneTransaction'
  BY DEF RefsInv, UniqueLabels, OneTransaction, ToBeChanged, Committing, AdminLocked
<1>3. WaitersHold'
  <2> SUFFICES ASSUME NEW v \in Writes PROVE WaitersHold!(v)'
    BY DEF WaitersHold
  <2>1. CASE v = w
    BY <1>1, <2>1 DEF Waiting
  <2>2. CASE v # w
    BY <1>1, <2>2 DEF RefsInv, WaitersHold, Ext
  <2> QED
    BY <2>1, <2>2
<1>4. SubmittedHold'
  <2> SUFFICES ASSUME NEW v \in Writes, wstate'[v] \in Submitted, in_actlog'[v], NEW e \in Ext(v)
               PROVE  \E i \in Slots : v \in refs'[i] /\ lc_number[i] = e /\ lc_new_number[i] = e
    BY DEF SubmittedHold, Ext
  <2>1. CASE v = w
    BY <1>1, <2>1
  <2>2. CASE v # w
    BY <1>1, <2>2 DEF RefsInv, SubmittedHold
  <2> QED
    BY <2>1, <2>2
<1>6. PendingComplete'
  BY <1>1 DEF RefsInv, PendingComplete
<1>5. NoneLeft'
  <2> SUFFICES ASSUME NEW v \in Writes, Kind[v] = "app", NEW i \in Slots, v \in refs'[i]
               PROVE  Holds(v, lc_new_number[i])'
    BY DEF NoneLeft
  <2>1. CASE v = w
    BY <1>1, <2>1 DEF Holds, Ext
  <2>2. CASE v # w
    <3>1. Holds(v, lc_new_number[i])
      BY <2>2 DEF RefsInv, NoneLeft
    <3> QED
      BY <1>1, <2>2, <3>1 DEF Holds, Ext
  <2> QED
    BY <2>1, <2>2
<1> QED
  BY <1>2, <1>3, <1>4, <1>5, <1>6 DEF RefsInv


-----------------------------------------------------------------------------
(***************************************************************************)
(* The steps that take and put references, or change labels.               *)
(***************************************************************************)
\* drbd_al_begin_io_fastpath() adds one holder to the one slot of a hot write that
\* holds nothing yet.
LEMMA FastPathRefs ==
  ASSUME RefsInv, NEW w \in Writes, wstate[w] \in Waiting, FastPath(w), Submit(w, TRUE),
         UNCHANGED <<subVars, mdVars, disk, envVars>>
  PROVE  RefsInv'
<1>1. /\ UNCHANGED <<lc_number, lc_new_number, age, starving, dirty, locked>>
      /\ refs' = [i \in Slots |-> IF lc_new_number[i] = First[w] /\ lc_number[i] = First[w]
                                    THEN refs[i] \cup {w} ELSE refs[i]]
      /\ \E i \in Slots : lc_new_number[i] = First[w] /\ lc_number[i] = First[w]
      /\ \A e \in Ext(w) : e = First[w]
  BY ExtFacts DEF FastPath, lc_try_get, lc_find
<1>2. refs' \in [Slots -> SUBSET Users]
  BY <1>1 DEF RefsInv, TypeOK, LcTypeOK
<1>3. TypeOK'
  BY <1>1, <1>2, SubmitType, Zenon DEF RefsInv
<1>4. \A v \in Writes : v # w => \A i \in Slots : v \in refs'[i] <=> v \in refs[i]
  BY <1>1 DEF RefsInv, TypeOK, LcTypeOK
<1>5. \A e \in Ext(w) : \E i \in Slots :
        w \in refs'[i] /\ lc_number[i] = e /\ lc_new_number[i] = e
  BY <1>1
<1>6. ASSUME Kind[w] = "app", NEW i \in Slots, w \in refs[i] PROVE FALSE
  <2>1. Holds(w, lc_new_number[i])
    BY <1>6 DEF RefsInv, NoneLeft
  <2>2. lc_new_number[i] \in Int /\ next_enr[w] \in Ext(w) /\ First[w] \in Nat
    BY ExtFacts, LabelFacts, Zenon DEF RefsInv, WaitersHold
  <2> QED
    BY <1>1, <2>1, <2>2 DEF Holds, Waiting
<1>7. Kind[w] = "app" => \A i \in Slots : w \in refs'[i] => lc_new_number[i] \in Ext(w)
  BY <1>1, <1>6, ExtFacts
<1> QED
  BY <1>1, <1>3, <1>4, <1>5, <1>7, SubmitRefs, Zenon DEF subVars, envVars

\* A write that arrives hot, or is found hot by submit_fast_path().
LEMMA FastRefs ==
  ASSUME RefsInv, NEW w \in Writes, ArriveHot(w) \/ FastSubmit(w) PROVE RefsInv'
<1>1. wstate[w] \in Waiting
  BY ZenonT(30) DEF ArriveHot, Arrives, FastSubmit, NextUntried, Untried, In, IsFirst, Waiting
<1> QED
  BY <1>1, FastPathRefs, Zenon DEF ArriveHot, FastSubmit

\* An application write that arrives while the log is suspended holds nothing.
LEMMA ArriveUnloggedRefs == ASSUME RefsInv, NEW w \in Writes, ArriveUnlogged(w) PROVE RefsInv'
<1>1. wstate[w] = "new" /\ Submit(w, FALSE) /\ UNCHANGED <<lcVars, subVars, mdVars, disk, envVars>>
  BY ZenonT(30) DEF ArriveUnlogged, Arrives
<1>2. TypeOK'
  BY <1>1, SubmitType, Zenon DEF RefsInv, TypeOK, LcTypeOK, lcVars
<1>3. Kind[w] = "app" => \A i \in Slots : w \notin refs[i]
  BY <1>1 DEF RefsInv, NoneLeft, Holds
<1> QED
  BY <1>1, <1>2, <1>3, SubmitRefs, Zenon DEF lcVars, subVars, envVars

\* A write of a committed transaction holds all its extents, and every label is
\* committed.
LEMMA SubmitPendingRefs == ASSUME RefsInv, NEW w \in Writes, SubmitPending(w) PROVE RefsInv'
<1>1. /\ wstate[w] = "pending" /\ pc = "submit" /\ Submit(w, TRUE)
      /\ UNCHANGED <<lcVars, subVars, mdVars, disk, envVars>>
  BY ZenonT(30) DEF SubmitPending, In, IsFirst
<1>2. TypeOK'
  BY <1>1, SubmitType, Zenon DEF RefsInv, TypeOK, LcTypeOK, lcVars
<1>3. \A i \in Slots : lc_number[i] = lc_new_number[i] /\ lc_new_number[i] \in Int
  BY <1>1, LabelFacts DEF RefsInv, OneTransaction, ToBeChanged
<1>4. next_enr[w] \in Nat /\ next_enr[w] > Last[w]
  BY <1>1 DEF RefsInv, WaitersHold, TypeOK
<1>5. ASSUME NEW e \in Ext(w)
      PROVE  \E i \in Slots : w \in refs[i] /\ lc_number[i] = e /\ lc_new_number[i] = e
  <2>1. e < next_enr[w]
    BY <1>4, ExtFacts
  <2>2. WaitersHold
    BY DEF RefsInv
  <2>3. PICK i \in Slots : w \in refs[i] /\ lc_new_number[i] = e
    BY <1>1, <2>1, <2>2, Zenon DEF WaitersHold
  <2> QED
    BY <1>3, <2>3
<1>6. ASSUME Kind[w] = "app", NEW i \in Slots, w \in refs[i] PROVE lc_new_number[i] \in Ext(w)
  <2>1. Holds(w, lc_new_number[i])
    BY <1>6 DEF RefsInv, NoneLeft
  <2>2. First[w] <= lc_new_number[i] /\ lc_new_number[i] < next_enr[w]
    BY <1>1, <2>1 DEF Holds
  <2>3. next_enr[w] = Last[w] + 1
    BY <1>1 DEF RefsInv, PendingComplete
  <2> QED
    BY <1>3, <1>4, <2>2, <2>3, ExtFacts DEF Ext
<1> QED
  BY <1>1, <1>2, <1>5, <1>6, SubmitRefs, Zenon DEF lcVars, subVars, envVars

\* drbd_al_begin_io_nonblock() takes a reference on the slot of one more extent; a
\* slot somebody holds is not recycled.
LEMMA PrepareActivateRefs == ASSUME RefsInv, NEW w \in Writes, PrepareActivate(w) PROVE RefsInv'
<1> DEFINE e0 == next_enr[w]
<1>a. wstate[w] = "incoming" /\ pc = "prepare" /\ ~locked
  BY DEF PrepareActivate, PeerHead, AppHead, In, IsFirst, RefsInv, OneTransaction
<1>b. e0 \in Ext(w) /\ e0 \in Extents /\ e0 \in Nat /\ e0 # LC_FREE
  BY <1>a, ExtFacts, SMTT(30) DEF RefsInv, WaitersHold, Waiting
<1>c. /\ UNCHANGED <<lc_number, age, locked, in_actlog, pc, peers_done, filling, hinted>>
      /\ UNCHANGED <<al_on_disk, bm_on_disk, bm, differs, disk, connected, al_suspended, adm,
                     crashes, resizes, suspends>>
      /\ starving' = FALSE
  <2>1. ~starving /\ (lc_get_present(w, e0) \/ lc_get_change(w, e0))
    BY ZenonT(30) DEF PrepareActivate, lc_get_present, lc_get_change
  <2> QED
    BY <2>1 DEF PrepareActivate, lc_get_present, lc_get_change, mdVars, envVars, RefsInv, TypeOK, LcTypeOK
<1>d. \/ /\ lc_new_number' = lc_new_number /\ dirty' = dirty
         /\ refs' = [i \in Slots |-> IF lc_new_number[i] = e0 THEN refs[i] \cup {w} ELSE refs[i]]
         /\ \E i \in Slots : lc_new_number[i] = e0
      \/ /\ dirty' = TRUE
         /\ \A i \in Slots : lc_new_number[i] # e0
         /\ \E k \in Slots :
              /\ lc_number[k] = lc_new_number[k] /\ (lc_number[k] = LC_FREE \/ refs[k] = {})
              /\ lc_new_number' = [lc_new_number EXCEPT ![k] = e0]
              /\ refs' = [refs EXCEPT ![k] = @ \cup {w}]
  BY DEF PrepareActivate, lc_get_present, lc_get_change, lc_find_changing, Recyclable, FreeList, Lru
<1>f. /\ next_enr' = [next_enr EXCEPT ![w] = e0 + 1]
      /\ wstate' = [wstate EXCEPT ![w] = IF e0 = Last[w] THEN "pending" ELSE "incoming"]
  <2>1. wstate \in [Writes -> WState]
    BY DEF RefsInv, TypeOK
  <2> QED
    BY <1>a, <2>1 DEF PrepareActivate
<1>g. TypeOK'
  <2>1. lc_new_number' \in [Slots -> Labels]
    BY <1>b, <1>d DEF RefsInv, TypeOK, LcTypeOK, Labels
  <2>2. refs' \in [Slots -> SUBSET Users]
    BY <1>d DEF RefsInv, TypeOK, LcTypeOK
  <2>3. dirty' \in BOOLEAN /\ made_progress' \in BOOLEAN
    BY <1>d, Zenon DEF RefsInv, TypeOK, LcTypeOK, PrepareActivate
  <2>4. next_enr' \in [Writes -> Nat] /\ wstate' \in [Writes -> WState]
    BY <1>b, <1>f DEF RefsInv, TypeOK, WState
  <2>5. LcTypeOK'
    BY <1>c, <2>1, <2>2, <2>3, Zenon DEF RefsInv, TypeOK, LcTypeOK
  <2>6. tried' \in SUBSET Writes
    <3>1. tried' = {} \/ tried' = {w}
      BY Zenon DEF PrepareActivate
    <3> QED
      BY <3>1
  <2> QED
    BY <1>c, <2>3, <2>4, <2>5, <2>6, SMTT(30) DEF RefsInv, TypeOK
<1>t. /\ lc_number \in [Slots -> Labels] /\ lc_new_number \in [Slots -> Labels]
      /\ refs \in [Slots -> SUBSET Users]
  BY Zenon DEF RefsInv, TypeOK, LcTypeOK
<1>u. wstate \in [Writes -> WState] /\ next_enr \in [Writes -> Nat]
  BY Zenon DEF RefsInv, TypeOK
\* A free slot is held by nobody whose write counts its references.
<1>h. \A i \in Slots, v \in Writes : v \in refs[i] => v \in refs'[i]
  BY <1>d, <1>t
<1>i. \E i \in Slots : w \in refs'[i] /\ lc_new_number'[i] = e0
  BY <1>d, <1>t
<1>j. \A i \in Slots : refs[i] # {} /\ lc_new_number[i] # LC_FREE => lc_new_number'[i] = lc_new_number[i]
  BY <1>d, <1>t, Zenon
<1>k. \A i \in Slots, v \in Writes : v \in refs'[i] /\ v \notin refs[i] => v = w /\ lc_new_number'[i] = e0
  BY <1>d, <1>t
<1>1. UniqueLabels'
  <2>1. UniqueLabels
    BY Zenon DEF RefsInv
  <2> QED
    BY <1>c, <1>d, <1>t, <2>1 DEF UniqueLabels
<1>2. OneTransaction'
  <2>1. ~AdminLocked /\ ~Committing
    BY <1>a, SMTT(30) DEF RefsInv, OneTransaction, AdminLocked, Committing
  <2>2. ToBeChanged' # {} => dirty'
    BY <1>c, <1>d, Zenon DEF RefsInv, OneTransaction, ToBeChanged
  <2> QED
    BY <1>a, <1>c, <2>1, <2>2 DEF OneTransaction, AdminLocked, Committing
<1>3. WaitersHold'
  <2> SUFFICES ASSUME NEW v \in Writes
               PROVE  WaitersHold!(v)'
    BY DEF WaitersHold
  <2>1. CASE v = w
    <3>1. wstate'[w] = "pending" => next_enr'[w] > Last[w]
      BY <1>b, <1>f, <1>u, ExtFacts
    <3>2. wstate'[w] \in Waiting => next_enr'[w] \in Ext(w)
      BY <1>b, <1>f, <1>u, ExtFacts DEF Waiting, Ext
    <3>3. ASSUME NEW e \in Ext(w), e < next_enr'[w]
          PROVE  \E i \in Slots : w \in refs'[i] /\ lc_new_number'[i] = e
      <4>1. next_enr'[w] = e0 + 1 /\ e \in Nat /\ e # LC_FREE
        BY <1>f, <1>u, ExtFacts
      <4>2. CASE e = e0
        BY <4>2, <1>i
      <4>3. CASE e # e0
        <5>1. e < e0
          BY <3>3, <4>1, <4>3, <1>b
        <5>2. PICK i \in Slots : w \in refs[i] /\ lc_new_number[i] = e
          BY <5>1, <1>a, Zenon DEF RefsInv, WaitersHold, Waiting
        <5> QED
          BY <5>2, <4>1, <1>h, <1>j
      <4> QED
        BY <4>2, <4>3
    <3> QED
      BY <2>1, <3>1, <3>2, <3>3, Zenon
  <2>2. CASE v # w
    <3>1. wstate'[v] = wstate[v] /\ next_enr'[v] = next_enr[v]
      BY <2>2, <1>f, Zenon DEF RefsInv, TypeOK
    <3>2. ASSUME NEW e \in Ext(v), NEW i \in Slots, v \in refs[i], lc_new_number[i] = e
          PROVE  v \in refs'[i] /\ lc_new_number'[i] = e
      BY <3>2, <1>h, <1>j, ExtFacts, Zenon
    <3> QED
      BY <3>1, <3>2 DEF RefsInv, WaitersHold
  <2> QED
    BY <2>1, <2>2, Zenon
<1>4. PendingComplete'
  BY <1>a, <1>f, SMTT(30) DEF RefsInv, PendingComplete, TypeOK
<1>5. SubmittedHold'
  <2> SUFFICES ASSUME NEW v \in Writes, wstate'[v] \in Submitted, in_actlog'[v], NEW e \in Ext(v)
               PROVE  \E i \in Slots : v \in refs'[i] /\ lc_number'[i] = e /\ lc_new_number'[i] = e
    BY Zenon DEF SubmittedHold, Ext
  <2>1. wstate[v] \in Submitted /\ in_actlog[v]
    BY <1>c, <1>f, ZenonT(30) DEF RefsInv, TypeOK, Submitted
  <2>2. PICK i \in Slots : v \in refs[i] /\ lc_number[i] = e /\ lc_new_number[i] = e
    BY <2>1 DEF RefsInv, SubmittedHold
  <2> QED
    BY <2>2, <1>c, <1>h, <1>j, ExtFacts, ZenonT(30)
<1>6. NoneLeft'
  <2> SUFFICES ASSUME NEW v \in Writes, Kind[v] = "app", NEW i \in Slots, v \in refs'[i]
               PROVE  Holds(v, lc_new_number[i])'
    BY DEF NoneLeft
  <2>1. CASE v \notin refs[i]
    <3>1. v = w /\ lc_new_number'[i] = e0
      BY <2>1, <1>k, Zenon
    <3>2. /\ wstate'[w] \in {"queued", "incoming", "pending"} /\ next_enr'[w] = e0 + 1
          /\ First[w] <= e0 /\ e0 < e0 + 1
      BY <1>b, <1>f, <1>u, ExtFacts
    <3> QED
      BY <3>1, <3>2 DEF Holds
  <2>2. CASE v \in refs[i]
    <3>1. Holds(v, lc_new_number[i])
      BY <2>2, ZenonT(30) DEF RefsInv, NoneLeft
    <3>2. lc_new_number[i] # LC_FREE
      BY <3>1, ExtFacts DEF Holds, LC_FREE
    <3>3. lc_new_number'[i] = lc_new_number[i]
      BY <2>2, <3>2, <1>j, Zenon
    <3>4. CASE v # w
      BY <3>1, <3>3, <3>4, <1>c, <1>f, Zenon DEF Holds, Ext, RefsInv, TypeOK
    <3>5. CASE v = w
      <4>1. First[w] <= lc_new_number[i] /\ lc_new_number[i] < e0 /\ lc_new_number[i] \in Int
        BY <1>a, <3>1, <3>5, LabelFacts, ZenonT(30) DEF Holds, RefsInv
      <4>2. wstate'[w] \in {"queued", "incoming", "pending"} /\ next_enr'[w] = e0 + 1
        BY <1>f, <1>u
      <4>3. First[w] <= lc_new_number'[i] /\ lc_new_number'[i] < next_enr'[w]
        <5> HIDE DEF e0
        <5>1. e0 \in Nat
          BY <1>b, Zenon
        <5>2. \A x \in Int : x < e0 => x < e0 + 1
          BY <5>1
        <5> QED
          BY <5>2, <3>3, <4>1, <4>2, Zenon
      <4> QED
        BY <3>5, <4>2, <4>3, Zenon DEF Holds
    <3> QED
      BY <3>4, <3>5
  <2> QED
    BY <2>1, <2>2
<1> QED
  BY <1>g, <1>1, <1>2, <1>3, <1>4, <1>5, <1>6, Zenon DEF RefsInv

\* The number of slots of a set is a number; proved in DrbdActivityLogProofs.
SlotsCounted == \A S \in SUBSET Slots : Cardinality(S) \in Nat

\* Putting references leaves ages that are numbers.
LEMMA PutType ==
  ASSUME LcTypeOK, SlotsCounted, NEW w \in Writes, NEW es, lc_put(w, es)
  PROVE  LcTypeOK'
<1> DEFINE put == {i \in Slots : lc_number[i] = lc_new_number[i] /\ lc_number[i] \in es}
           idle == {i \in put : refs[i] = {w}}
           newer(i) == {j \in idle : lc_number[j] > lc_number[i]}
           older(i) == {j \in idle : age[j] > age[i]}
<1>1. \A i \in Slots : newer(i) \in SUBSET Slots /\ older(i) \in SUBSET Slots
  BY Zenon
<1>2. age' = [i \in Slots |-> IF i \in idle THEN Cardinality(newer(i))
                              ELSE age[i] + Cardinality(older(i))]
  BY ZenonT(30) DEF lc_put
<1>3. refs' = [i \in Slots |-> IF i \in put THEN refs[i] \ {w} ELSE refs[i]]
  BY DEF lc_put
<1>4. starving' \in BOOLEAN
  BY Zenon DEF lc_put, LcTypeOK
<1> HIDE DEF newer, older, idle, put
<1>5. \A i \in Slots : Cardinality(newer(i)) \in Nat /\ Cardinality(older(i)) \in Nat
  BY <1>1, Zenon DEF SlotsCounted
<1>6. age \in [Slots -> Nat] /\ refs \in [Slots -> SUBSET Users]
  BY DEF LcTypeOK
<1>7. age' \in [Slots -> Nat]
  BY <1>2, <1>5, <1>6
<1>8. refs' \in [Slots -> SUBSET Users]
  BY <1>3, <1>6
<1>9. UNCHANGED <<lc_number, lc_new_number, dirty, locked>>
  BY Zenon DEF lc_put
<1> QED
  BY <1>4, <1>7, <1>8, <1>9, Zenon DEF LcTypeOK

\* drbd_al_complete_io() puts every reference of an application write.
LEMMA AlCompleteIoRefs ==
  ASSUME RefsInv, SlotsCounted, NEW w \in Writes, AlCompleteIo(w) PROVE RefsInv'
<1>a. /\ wstate[w] = "settled" /\ wstate' = [wstate EXCEPT ![w] = "done"]
      /\ UNCHANGED <<next_enr, in_actlog, pc, adm>>
  BY ZenonT(30) DEF AlCompleteIo, subVars, envVars
<1>b. TypeOK'
  <2>1. LcTypeOK'
    <3>1. CASE in_actlog[w] /\ HasLdev(w)
      BY <3>1, PutType, ZenonT(30) DEF AlCompleteIo, RefsInv, TypeOK
    <3>2. CASE ~(in_actlog[w] /\ HasLdev(w))
      BY <3>2 DEF AlCompleteIo, RefsInv, TypeOK, LcTypeOK, lcVars
    <3> QED
      BY <3>1, <3>2
  <2> QED
    BY <1>a, <2>1, SMTT(30) DEF RefsInv, TypeOK, WState, AlCompleteIo, subVars, mdVars, envVars
<1>c. wstate'[w] = "done" /\ \A v \in Writes : v # w => wstate'[v] = wstate[v]
  BY <1>a, Zenon DEF RefsInv, TypeOK
<1>d. /\ UNCHANGED <<lc_number, lc_new_number, dirty, locked>>
      /\ \A i \in Slots, v \in Writes : v # w => (v \in refs[i] <=> v \in refs'[i])
      /\ \A i \in Slots : w \in refs'[i] => w \in refs[i]
      /\ in_actlog[w] /\ HasLdev(w) =>
           \A i \in Slots : lc_number[i] = lc_new_number[i] /\ lc_number[i] \in Ext(w) => w \notin refs'[i]
  <2>1. CASE in_actlog[w] /\ HasLdev(w)
    <3>1. lc_put(w, Ext(w))
      BY <2>1, Zenon DEF AlCompleteIo
    <3>2. UNCHANGED <<lc_number, lc_new_number, dirty, locked>>
      BY <3>1, ZenonT(30) DEF lc_put
    <3>3. refs' = [i \in Slots |-> IF lc_number[i] = lc_new_number[i] /\ lc_number[i] \in Ext(w)
                                   THEN refs[i] \ {w} ELSE refs[i]]
      BY <3>1 DEF lc_put
    <3> QED
      BY <3>2, <3>3, Zenon
  <2>2. CASE ~(in_actlog[w] /\ HasLdev(w))
    BY <2>2, ZenonT(30) DEF AlCompleteIo, lcVars
  <2> QED
    BY <2>1, <2>2, Zenon
<1>1. UniqueLabels'
  BY <1>d, Zenon DEF RefsInv, UniqueLabels
<1>2. OneTransaction'
  BY <1>a, <1>d, Zenon DEF RefsInv, OneTransaction, ToBeChanged, Committing, AdminLocked
<1>3. WaitersHold' /\ PendingComplete'
  <2>0. next_enr' = next_enr /\ WaitersHold /\ PendingComplete
    BY <1>a, Zenon DEF RefsInv
  <2>1. \A v \in Writes : wstate'[v] \in Waiting \cup {"pending"} => v # w /\ wstate'[v] = wstate[v]
    BY <1>c, Zenon DEF Waiting
  <2>2. PendingComplete'
    BY <2>0, <2>1, Zenon DEF PendingComplete
  <2>3. ASSUME NEW v \in Writes PROVE WaitersHold!(v)'
    <3>1. CASE v = w
      BY <2>1, <3>1, <1>c, Zenon DEF Waiting
    <3>2. CASE v # w
      <4>0. WaitersHold!(v)
        BY <2>0, Zenon DEF WaitersHold
      <4>1. wstate'[v] = wstate[v] /\ next_enr'[v] = next_enr[v]
        BY <2>0, <3>2, <1>c, Zenon
      <4>2. \A i \in Slots : v \in refs[i] => v \in refs'[i] /\ lc_new_number'[i] = lc_new_number[i]
        BY <3>2, <1>d, Zenon
      <4>3. Ext(v)' = Ext(v)
        BY Zenon DEF Ext
      <4> QED
        BY <4>0, <4>1, <4>2, <4>3, Zenon
    <3> QED
      BY <3>1, <3>2, Zenon
  <2> QED
    BY <2>2, <2>3, Zenon DEF WaitersHold
<1>4. SubmittedHold'
  <2> SUFFICES ASSUME NEW v \in Writes, wstate'[v] \in Submitted, in_actlog'[v], NEW e \in Ext(v)
               PROVE  \E i \in Slots : v \in refs'[i] /\ lc_number'[i] = e /\ lc_new_number'[i] = e
    BY Zenon DEF SubmittedHold, Ext
  <2>1. v # w /\ wstate[v] \in Submitted /\ in_actlog[v]
    BY <1>a, <1>c DEF Submitted
  <2>2. PICK i \in Slots : v \in refs[i] /\ lc_number[i] = e /\ lc_new_number[i] = e
    BY <2>1, Zenon DEF RefsInv, SubmittedHold
  <2> QED
    BY <2>1, <2>2, <1>d, Zenon
<1>5. NoneLeft'
  <2> SUFFICES ASSUME NEW v \in Writes, Kind[v] = "app", NEW i \in Slots, v \in refs'[i]
               PROVE  Holds(v, lc_new_number[i])'
    BY Zenon DEF NoneLeft
  <2>1. Holds(v, lc_new_number[i])
    BY <1>d, ZenonT(30) DEF RefsInv, NoneLeft
  <2>2. CASE v # w
    BY <2>1, <2>2, <1>a, <1>c, <1>d, Zenon DEF Holds, Ext
  <2>3. CASE v = w
    <3>1. in_actlog[w] /\ HasLdev(w) /\ lc_new_number[i] \in Ext(w)
      BY <1>a, <2>1, <2>3, Zenon DEF Holds, HasLdev
    <3>2. PICK j \in Slots : lc_number[j] = lc_new_number[i] /\ lc_new_number[j] = lc_new_number[i]
      BY <1>a, <3>1, ZenonT(30) DEF RefsInv, SubmittedHold, Submitted
    <3>3. i = j
      BY <3>1, <3>2, ExtFacts DEF RefsInv, UniqueLabels
    <3> QED
      BY <3>1, <3>2, <3>3, <2>3, <1>d, Zenon
  <2> QED
    BY <2>2, <2>3
<1> QED
  BY <1>b, <1>1, <1>2, <1>3, <1>4, <1>5 DEF RefsInv
=============================================================================

-------------------------- MODULE DrbdActivityLog --------------------------
(***************************************************************************)
(* The activity log of one device (drbd_actlog.c) with its users: the      *)
(* application writes and peer writes that need their extents "hot", the   *)
(* submitter work do_submit() (drbd_req.c) that batches cold extents into  *)
(* on-disk transactions, the administrative operations that empty the log  *)
(* (drbd_nl.c), the bitmap it protects, and crashes.                       *)
(*                                                                         *)
(* The log exists for one promise: after a crash, every extent on which    *)
(* this node's data may differ from a peer's is found again, in the        *)
(* on-disk bitmap or in the on-disk activity log (CrashSafe).              *)
(*                                                                         *)
(* Data.  A write is its kind and its range of extents; a bitmap bit       *)
(* stands for "some block of the extent is out of sync".  The on-disk log  *)
(* is the label it records per slot; how a ring of transactions            *)
(* represents this map is module AlRing's subject.                         *)
(***************************************************************************)
EXTENDS LruCache

CONSTANTS
    Kind,           \* write -> "app" (drbd_request) or "peer" (peer_request)
    First, Last,    \* write -> the extents it covers, First[w] .. Last[w]
    MaxCrashes,     \* bound on Crash
    MaxResizes,     \* bound on changes of the al-extents setting
    MaxSuspends,    \* bound on invalidations of the peer that suspend the log
    DiskCanFail,    \* whether IO errors of the backing device are considered
    PeerCanLeave,   \* whether the loss of the connection is considered
    BitmapVaries    \* whether every initial bitmap, resync and lazy writes are considered

Writes == Users

ASSUME DiskCanFailAssumption == DiskCanFail \in BOOLEAN
ASSUME PeerCanLeaveAssumption == PeerCanLeave \in BOOLEAN
ASSUME BitmapVariesAssumption == BitmapVaries \in BOOLEAN
ASSUME WritesAssumption ==
    /\ Users \subseteq Nat
    /\ Kind \in [Users -> {"app", "peer"}]
    /\ First \in [Users -> Extents]
    /\ Last \in [Users -> Extents]
    /\ \A w \in Users : First[w] <= Last[w] /\ First[w] .. Last[w] \subseteq Extents

VARIABLES
    wstate,         \* where each write is
    next_enr,       \* partially_in_al_next_enr: the next extent to activate
    in_actlog,      \* RQ_IN_ACT_LOG / EE_IN_ACTLOG
    pc,             \* step of do_submit()
    tried,          \* the incoming writes submit_fast_path() has looked at, or the
                    \* one whose extents are being activated
    peers_done,     \* the peer loop of prepare_al_transaction_nonblock() ended
    made_progress,  \* its result
    filling,        \* called to fill up a transaction that will be committed
    hinted,         \* extents whose bitmap pages the transaction writes first
    al_on_disk,     \* label per slot, as recovery would read it
    bm,             \* the bitmap in memory
    bm_on_disk,     \* the bitmap on stable storage
    differs,        \* extents whose data may differ from a peer (ghost)
    disk,           \* "up", or "failed" (D_FAILED and below)
    connected,      \* the peer is C_CONNECTED, L_ESTABLISHED
    al_suspended,   \* AL_SUSPENDED
    adm,            \* step of the administrative operation; IO is suspended
                    \* while there is one
    crashes, resizes, suspends

writeVars == <<wstate, next_enr, in_actlog>>
subVars == <<pc, tried, peers_done, made_progress, filling, hinted>>
mdVars == <<al_on_disk, bm_on_disk>>
envVars == <<connected, al_suspended, adm, crashes, resizes, suspends>>
alVars == <<lcVars, writeVars, subVars, mdVars, bm, differs, disk, envVars>>

WState == {"new", "queued", "incoming", "pending", "inflight", "refused", "settled", "done"}

TypeOK ==
    /\ LcTypeOK
    /\ wstate \in [Writes -> WState]
    /\ next_enr \in [Writes -> Nat]
    /\ in_actlog \in [Writes -> BOOLEAN]
    /\ pc \in {"idle", "fast", "wait", "prepare", "fill", "commit", "bitmap", "log",
               "committed", "submit"}
    /\ tried \in SUBSET Writes
    /\ peers_done \in BOOLEAN /\ made_progress \in BOOLEAN /\ filling \in BOOLEAN
    /\ hinted \in SUBSET Extents
    /\ al_on_disk \in [Slots -> Labels]
    /\ bm \in [Extents -> BOOLEAN] /\ bm_on_disk \in [Extents -> BOOLEAN]
    /\ differs \in SUBSET Extents
    /\ disk \in {"up", "failed"}
    /\ connected \in BOOLEAN /\ al_suspended \in BOOLEAN
    /\ adm \in {"idle", "suspend", "resize_lock", "resize"}
    /\ crashes \in Nat /\ resizes \in Nat /\ suspends \in Nat

Ext(w) == First[w] .. Last[w]

\* al_lock is only held across steps by prepare_al_transaction_nonblock().
AlLockFree == pc # "prepare"

In(state, kind) == {w \in Writes : wstate[w] = state /\ Kind[w] = kind}
IsFirst(w, S) == w \in S /\ \A v \in S : w <= v

\* After attaching: the bitmap is read, the log is empty, and with every bit set
\* and no peer drbd_try_suspend_al() has turned the log off.
Init ==
    /\ LcInit
    /\ wstate = [w \in Writes |-> "new"]
    /\ next_enr = First
    /\ in_actlog = [w \in Writes |-> FALSE]
    /\ pc = "idle" /\ tried = {} /\ hinted = {}
    /\ peers_done = FALSE /\ made_progress = FALSE /\ filling = FALSE
    /\ al_on_disk = [i \in Slots |-> LC_FREE]
    /\ bm \in [Extents -> BOOLEAN] /\ bm_on_disk = bm
    /\ BitmapVaries \/ \A e, f \in Extents : bm[e] = bm[f]
    /\ differs = {e \in Extents : bm[e]}
    /\ disk = "up"
    /\ connected = FALSE
    /\ al_suspended = \A e \in Extents : bm[e]
    /\ adm = "idle"
    /\ crashes = 0 /\ resizes = 0 /\ suspends = 0

(***************************************************************************)
(* A write reaches the backing device.  drbd_submit_req_private_bio()      *)
(* checks the disk state again, so an application write is refused after a *)
(* failed transaction; a peer write goes to the failing device, but then   *)
(* the peer never gets a positive ack and keeps the block out of sync.     *)
(* A peer write for a third node sets its bit just before it is submitted  *)
(* (EE_SET_OUT_OF_SYNC).                                                   *)
(***************************************************************************)
Submit(w, logged) ==
    /\ wstate' = [wstate EXCEPT ![w] = IF disk = "up" THEN "inflight" ELSE "refused"]
    /\ in_actlog' = [in_actlog EXCEPT ![w] = logged]
    /\ differs' = IF disk = "up" THEN differs \cup Ext(w) ELSE differs
    /\ \E oos \in BOOLEAN :
         /\ oos => Kind[w] = "peer"
         /\ bm' = [e \in Extents |-> bm[e] \/ (oos /\ e \in Ext(w))]
    /\ UNCHANGED next_enr

\* drbd_al_begin_io_fastpath()
FastPath(w) == First[w] = Last[w] /\ lc_try_get(w, First[w])
FastPathFails(w) == First[w] # Last[w] \/ lc_try_get_fails(First[w])

\* drbd_request_prepare() and submit_peer_request_activity_log(): writes of a
\* kind arrive in order; IO is not suspended, the peer is connected.
Arrives(w) ==
    /\ wstate[w] = "new"
    /\ \A v \in Writes : v < w /\ Kind[v] = Kind[w] => wstate[v] # "new"
    /\ disk = "up"
    /\ IF Kind[w] = "app" THEN adm = "idle" ELSE connected

Unlogged(w) == Kind[w] = "app" /\ al_suspended

ArriveHot(w) ==
    /\ Arrives(w) /\ ~Unlogged(w) /\ AlLockFree
    /\ FastPath(w)
    /\ Submit(w, TRUE)
    /\ UNCHANGED <<subVars, mdVars, disk, envVars>>

ArriveUnlogged(w) ==
    /\ Arrives(w) /\ Unlogged(w)
    /\ Submit(w, FALSE)
    /\ UNCHANGED <<lcVars, subVars, mdVars, disk, envVars>>

\* drbd_queue_write(), drbd_queue_peer_request()
ArriveCold(w) ==
    /\ Arrives(w) /\ ~Unlogged(w) /\ AlLockFree
    /\ FastPathFails(w)
    /\ wstate' = [wstate EXCEPT ![w] = "queued"]
    /\ UNCHANGED <<lcVars, next_enr, in_actlog, subVars, mdVars, bm, differs, disk, envVars>>

(***************************************************************************)
(* do_submit()                                                             *)
(***************************************************************************)
GrabIncoming ==
    wstate' = [w \in Writes |-> IF wstate[w] = "queued" THEN "incoming" ELSE wstate[w]]

\* The work starts: grab_new_incoming_requests(.., false).
DoSubmit ==
    /\ pc = "idle"
    /\ \E w \in Writes : wstate[w] = "queued"
    /\ GrabIncoming
    /\ pc' = "fast" /\ tried' = {}
    /\ UNCHANGED <<lcVars, next_enr, in_actlog, peers_done, made_progress, filling, hinted,
                   mdVars, bm, differs, disk, envVars>>

\* submit_fast_path() looks at the peer writes, then at the application writes.
Untried(kind) == In("incoming", kind) \ tried
NextUntried(w) ==
    /\ pc = "fast"
    /\ IF Untried("peer") # {} THEN IsFirst(w, Untried("peer"))
       ELSE IsFirst(w, Untried("app"))

\* AL updates are only suspended while no application write waits here, so that
\* the branch for a suspended log is never taken.
FastSubmit(w) ==
    /\ NextUntried(w) /\ ~Unlogged(w)
    /\ FastPath(w)
    /\ Submit(w, TRUE)
    /\ UNCHANGED <<subVars, mdVars, disk, envVars>>

FastSkip(w) ==
    /\ NextUntried(w) /\ ~Unlogged(w)
    /\ FastPathFails(w)
    /\ tried' = tried \cup {w}
    /\ UNCHANGED <<lcVars, writeVars, pc, peers_done, made_progress, filling, hinted,
                   mdVars, bm, differs, disk, envVars>>

FastEnd ==
    /\ pc = "fast"
    /\ Untried("peer") = {} /\ Untried("app") = {}
    /\ pc' = IF \E w \in Writes : wstate[w] = "incoming" THEN "wait" ELSE "idle"
    /\ tried' = {}
    /\ filling' = FALSE
    /\ UNCHANGED <<lcVars, writeVars, peers_done, made_progress, hinted,
                   mdVars, bm, differs, disk, envVars>>

\* prepare_al_transaction_nonblock() takes al_lock, unless the log is locked.
\* The submitter calls it from its wait loop, after any wake-up.
PrepareBegin ==
    /\ pc = "wait"
    /\ ~locked
    /\ pc' = "prepare"
    /\ peers_done' = FALSE /\ made_progress' = FALSE
    /\ UNCHANGED <<lcVars, writeVars, tried, filling, hinted, mdVars, bm, differs, disk, envVars>>

PeerHead(w) == pc = "prepare" /\ ~peers_done /\ IsFirst(w, In("incoming", "peer"))
AppHead(w) ==
    /\ pc = "prepare"
    /\ peers_done \/ In("incoming", "peer") = {}
    /\ IsFirst(w, In("incoming", "app"))

\* The connection is looked at once per peer write, before its first extent.
Cancelled(w) == ~connected /\ w \notin tried

\* A peer write whose connection is gone is dropped, drbd_cleanup_peer_requests_wfa()
\* frees it; the extents it has activated so far keep its references.
PrepareCleanup(w) ==
    /\ PeerHead(w) /\ Cancelled(w)
    /\ wstate' = [wstate EXCEPT ![w] = "done"]
    /\ made_progress' = TRUE
    /\ UNCHANGED <<lcVars, next_enr, in_actlog, pc, tried, peers_done, filling, hinted,
                   mdVars, bm, differs, disk, envVars>>

\* drbd_al_begin_io_nonblock(), one extent of the write at the head.
PrepareActivate(w) ==
    /\ (PeerHead(w) /\ ~Cancelled(w)) \/ AppHead(w)
    /\ lc_get_present(w, next_enr[w]) \/ lc_get_change(w, next_enr[w])
    /\ next_enr' = [next_enr EXCEPT ![w] = @ + 1]
    /\ IF next_enr[w] = Last[w]
         THEN /\ wstate' = [wstate EXCEPT ![w] = "pending"]
              /\ made_progress' = TRUE
              /\ tried' = {}
         ELSE tried' = {w} /\ UNCHANGED <<wstate, made_progress>>
    /\ UNCHANGED <<in_actlog, pc, peers_done, filling, hinted,
                   mdVars, bm, differs, disk, envVars>>

\* -ENOBUFS ends the loop over the peer writes, then the one over the others.
AfterPrepare ==
    IF made_progress \/ filling THEN "fill" ELSE "wait"

PreparePeersStuck(w) ==
    /\ PeerHead(w) /\ ~Cancelled(w)
    /\ lc_get_fails(next_enr[w])
    /\ peers_done' = TRUE
    /\ tried' = {}
    /\ UNCHANGED <<writeVars, pc, made_progress, filling, hinted,
                   mdVars, bm, differs, disk, envVars>>

PrepareAppsStuck(w) ==
    /\ AppHead(w)
    /\ lc_get_fails(next_enr[w])
    /\ pc' = AfterPrepare
    /\ tried' = {}
    /\ UNCHANGED <<writeVars, peers_done, made_progress, filling, hinted,
                   mdVars, bm, differs, disk, envVars>>

PrepareEnd ==
    /\ pc = "prepare"
    /\ In("incoming", "app") = {}
    /\ peers_done \/ In("incoming", "peer") = {}
    /\ pc' = AfterPrepare
    /\ UNCHANGED <<lcVars, writeVars, tried, peers_done, made_progress, filling, hinted,
                   mdVars, bm, differs, disk, envVars>>

\* With nothing left on incoming the transaction takes in what was queued
\* meanwhile, as long as that makes progress.
FillUp ==
    /\ pc = "fill"
    /\ ~ \E w \in Writes : wstate[w] = "incoming"
    /\ \E w \in Writes : wstate[w] = "queued"
    /\ made_progress
    /\ GrabIncoming
    /\ filling' = TRUE
    /\ peers_done' = FALSE /\ made_progress' = FALSE
    /\ pc' = IF locked THEN "fill" ELSE "prepare"
    /\ UNCHANGED <<lcVars, next_enr, in_actlog, tried, hinted, mdVars, bm, differs, disk, envVars>>

FillEnd ==
    /\ pc = "fill"
    /\ \/ \E w \in Writes : wstate[w] = "incoming"
       \/ ~ \E w \in Writes : wstate[w] = "queued"
       \/ ~made_progress
    /\ pc' = "commit"
    /\ UNCHANGED <<lcVars, writeVars, tried, peers_done, made_progress, filling, hinted,
                   mdVars, bm, differs, disk, envVars>>

\* drbd_al_begin_io_commit(): nothing to commit, or the lock and a transaction.
CommitNothing ==
    /\ pc = "commit"
    /\ ToBeChanged = {}
    /\ pc' = "submit"
    /\ UNCHANGED <<lcVars, writeVars, tried, peers_done, made_progress, filling, hinted,
                   mdVars, bm, differs, disk, envVars>>

\* al_write_transaction() refuses a failed disk; __al_write_transaction() marks
\* the bitmap pages of the labels that leave the log for writeout.
CommitBegin ==
    /\ pc = "commit"
    /\ ToBeChanged # {}
    /\ lc_try_lock_for_transaction
    /\ IF disk = "up"
         THEN /\ pc' = "bitmap"
              /\ hinted' = {lc_number[i] : i \in ToBeChanged} \ {LC_FREE}
         ELSE pc' = "committed" /\ UNCHANGED hinted
    /\ UNCHANGED <<writeVars, tried, peers_done, made_progress, filling,
                   mdVars, bm, differs, disk, envVars>>

\* drbd_bm_write_hinted(): the pages are written in any order.
WriteHinted(e) ==
    /\ pc = "bitmap" /\ e \in hinted
    /\ bm_on_disk' = [bm_on_disk EXCEPT ![e] = bm[e]]
    /\ hinted' = hinted \ {e}
    /\ UNCHANGED <<lcVars, writeVars, pc, tried, peers_done, made_progress, filling,
                   al_on_disk, bm, differs, disk, envVars>>

WriteHintedEnd ==
    /\ pc = "bitmap" /\ hinted = {}
    /\ pc' = "log"
    /\ UNCHANGED <<lcVars, writeVars, tried, peers_done, made_progress, filling, hinted,
                   mdVars, bm, differs, disk, envVars>>

\* The bitmap write reports an error: the disk fails, no transaction is written.
WriteHintedFails ==
    /\ DiskCanFail
    /\ pc = "bitmap"
    /\ disk' = "failed"
    /\ hinted' = {}
    /\ pc' = "committed"
    /\ UNCHANGED <<lcVars, writeVars, tried, peers_done, made_progress, filling,
                   mdVars, bm, differs, envVars>>

\* Fault: the transaction repeats the old labels.
Transaction_old == [i \in Slots |-> IF i \in ToBeChanged THEN lc_number[i] ELSE al_on_disk[i]]

Transaction == [i \in Slots |-> IF i \in ToBeChanged THEN lc_new_number[i] ELSE al_on_disk[i]]

\* drbd_md_sync_page_io() of the transaction block.
WriteLog ==
    /\ pc = "log"
    /\ al_on_disk' = Transaction
    /\ pc' = "committed"
    /\ UNCHANGED <<lcVars, writeVars, tried, peers_done, made_progress, filling, hinted,
                   bm_on_disk, bm, differs, disk, envVars>>

\* On an error the block may or may not have reached the disk.
WriteLogFails ==
    /\ DiskCanFail
    /\ pc = "log"
    /\ al_on_disk' \in {al_on_disk, Transaction}
    /\ disk' = "failed"
    /\ pc' = "committed"
    /\ UNCHANGED <<lcVars, writeVars, tried, peers_done, made_progress, filling, hinted,
                   bm_on_disk, bm, differs, envVars>>

\* lc_committed() follows even a failed transaction.
CommitEnd ==
    /\ pc = "committed"
    /\ lc_committed_unlock
    /\ pc' = "submit"
    /\ UNCHANGED <<writeVars, tried, peers_done, made_progress, filling, hinted,
                   mdVars, bm, differs, disk, envVars>>

\* send_and_submit_pending()
SubmitPending(w) ==
    /\ pc = "submit"
    /\ IF In("pending", "peer") # {} THEN IsFirst(w, In("pending", "peer"))
       ELSE IsFirst(w, In("pending", "app"))
    /\ Submit(w, TRUE)
    /\ UNCHANGED <<lcVars, subVars, mdVars, disk, envVars>>

SubmitEnd ==
    /\ pc = "submit"
    /\ ~ \E w \in Writes : wstate[w] = "pending"
    /\ pc' = "fast" /\ tried' = {}
    /\ UNCHANGED <<lcVars, writeVars, peers_done, made_progress, filling, hinted,
                   mdVars, bm, differs, disk, envVars>>

(***************************************************************************)
(* The end of a write: drbd_req_done(), or got_peer_ack() and              *)
(* cleanup_unacked_peer_requests().  First the bitmap, then the log.       *)
(***************************************************************************)
InFlightOn(e) == {w \in Writes : wstate[w] = "inflight" /\ e \in Ext(w)}

\* Every replica has the data.
SettleInSync(w) ==
    /\ wstate[w] = "inflight" /\ in_actlog[w]
    /\ wstate' = [wstate EXCEPT ![w] = "settled"]
    /\ differs' = differs \ {e \in Ext(w) : ~bm[e] /\ InFlightOn(e) = {w}}
    /\ UNCHANGED <<lcVars, next_enr, in_actlog, subVars, mdVars, bm, disk, envVars>>

\* For the end of a peer write get_ldev() wants the disk up, for the end of a
\* request D_DETACHING is enough.
HasLdev(w) == Kind[w] = "app" \/ disk = "up"

\* Fault: the end of a write leaves the bits alone.
SettleOutOfSync_nobits(w) ==
    /\ wstate[w] \in {"inflight", "refused"}
    /\ wstate' = [wstate EXCEPT ![w] = "settled"]
    /\ UNCHANGED <<lcVars, next_enr, in_actlog, subVars, mdVars, bm, differs, disk, envVars>>

\* Some replica has not: drbd_set_sync() sets the bits.
SettleOutOfSync(w) ==
    /\ wstate[w] \in {"inflight", "refused"}
    /\ wstate' = [wstate EXCEPT ![w] = "settled"]
    /\ bm' = [e \in Extents |-> bm[e] \/ (HasLdev(w) /\ e \in Ext(w))]
    /\ UNCHANGED <<lcVars, next_enr, in_actlog, subVars, mdVars, differs, disk, envVars>>

\* Fault: only the first extent of the write is put.
AlCompleteIo_first(w) ==
    /\ wstate[w] = "settled"
    /\ wstate' = [wstate EXCEPT ![w] = "done"]
    /\ IF in_actlog[w] /\ HasLdev(w)
         THEN AlLockFree /\ lc_put(w, {First[w]})
         ELSE UNCHANGED lcVars
    /\ UNCHANGED <<next_enr, in_actlog, subVars, mdVars, bm, differs, disk, envVars>>

\* drbd_al_complete_io()
AlCompleteIo(w) ==
    /\ wstate[w] = "settled"
    /\ wstate' = [wstate EXCEPT ![w] = "done"]
    /\ IF in_actlog[w] /\ HasLdev(w)
         THEN AlLockFree /\ lc_put(w, Ext(w))
         ELSE UNCHANGED lcVars
    /\ UNCHANGED <<next_enr, in_actlog, subVars, mdVars, bm, differs, disk, envVars>>

(***************************************************************************)
(* The bitmap, the connection, the disk.                                   *)
(***************************************************************************)
\* Resync clears the bits of an extent.  It waits for conflicting writes, and
\* every block of an unlogged write is out of sync, so such a write holds it up;
\* drbd_bmio_set_susp_al() runs under BM_LOCK_CLEAR.
ResyncClears(e) ==
    /\ BitmapVaries
    /\ connected /\ disk = "up" /\ bm[e] /\ adm # "suspend"
    /\ \A w \in InFlightOn(e) : in_actlog[w]
    /\ bm' = [bm EXCEPT ![e] = FALSE]
    /\ differs' = IF InFlightOn(e) = {} THEN differs \ {e} ELSE differs
    /\ UNCHANGED <<lcVars, writeVars, subVars, mdVars, disk, envVars>>

\* drbd_bm_write_lazy()
WriteLazy(e) ==
    /\ BitmapVaries
    /\ disk = "up" /\ bm_on_disk[e] # bm[e]
    /\ bm_on_disk' = [bm_on_disk EXCEPT ![e] = bm[e]]
    /\ UNCHANGED <<lcVars, writeVars, subVars, al_on_disk, bm, differs, disk, envVars>>

\* A connection resumes AL updates (drbd_resume_al()).
Connect ==
    /\ ~connected
    /\ connected' = TRUE
    /\ al_suspended' = FALSE
    /\ UNCHANGED <<lcVars, writeVars, subVars, mdVars, bm, differs, disk, adm, crashes, resizes, suspends>>

Disconnect ==
    /\ PeerCanLeave
    /\ connected
    /\ connected' = FALSE
    /\ UNCHANGED <<lcVars, writeVars, subVars, mdVars, bm, differs, disk,
                   al_suspended, adm, crashes, resizes, suspends>>

DiskFails ==
    /\ DiskCanFail
    /\ disk = "up"
    /\ disk' = "failed"
    /\ UNCHANGED <<lcVars, writeVars, subVars, mdVars, bm, differs, envVars>>

(***************************************************************************)
(* Administrative operations suspend IO; they go on once no application    *)
(* bio is outstanding (a write that only waits for its peers may be).      *)
(***************************************************************************)
NoApBio == \A w \in Writes : Kind[w] = "app" => wstate[w] \notin {"queued", "incoming", "pending"}

\* drbd_bmio_set_susp_al(): set and write all bits; if the log can be locked,
\* empty it and turn it off.
SetAllSuspendAl ==
    /\ adm = "idle" /\ disk = "up" /\ ~connected /\ NoApBio /\ AlLockFree
    /\ suspends < MaxSuspends
    /\ suspends' = suspends + 1
    /\ bm' = [e \in Extents |-> TRUE]
    /\ bm_on_disk' = [e \in Extents |-> TRUE]
    /\ IF locked \/ dirty \/ starving THEN UNCHANGED <<adm, lcVars>>
       ELSE adm' = "suspend" /\ lc_try_lock
    /\ UNCHANGED <<writeVars, subVars, al_on_disk, differs, disk,
                   connected, al_suspended, crashes, resizes>>

\* disk_opts_check_al_size() of a new al-extents setting.
Resize ==
    /\ adm = "idle" /\ disk = "up" /\ NoApBio
    /\ resizes < MaxResizes
    /\ resizes' = resizes + 1
    /\ adm' = "resize_lock"
    /\ UNCHANGED <<lcVars, writeVars, subVars, mdVars, bm, differs, disk,
                   connected, al_suspended, crashes, suspends>>

ResizeLock ==
    /\ adm = "resize_lock" /\ AlLockFree
    /\ lc_try_lock
    /\ adm' = "resize"
    /\ UNCHANGED <<writeVars, subVars, mdVars, bm, differs, disk,
                   connected, al_suspended, crashes, resizes, suspends>>

\* drbd_al_shrink(): slot by slot, waiting for the references to go.
AlShrink(i) ==
    /\ adm \in {"suspend", "resize"} /\ AlLockFree
    /\ lc_number[i] # LC_FREE
    /\ \A j \in Slots : j < i => lc_number[j] = LC_FREE
    /\ lc_del(i)
    /\ UNCHANGED <<writeVars, subVars, mdVars, bm, differs, disk, envVars>>

\* End of drbd_try_suspend_al(), or of drbd_check_al_size() with a new cache.
AlShrunk ==
    /\ adm \in {"suspend", "resize"}
    /\ \A i \in Slots : lc_number[i] = LC_FREE
    /\ lc_unlock
    /\ al_suspended' = IF adm = "suspend" THEN al_suspended \/ ~connected ELSE al_suspended
    /\ adm' = "idle"
    /\ UNCHANGED <<writeVars, subVars, mdVars, bm, differs, disk, connected, crashes, resizes, suspends>>

(***************************************************************************)
(* A crash, and the attach that follows: recovery (in user space) sets the *)
(* bits of every extent in the on-disk log and clears the log.             *)
(***************************************************************************)
Recovered == [e \in Extents |-> bm_on_disk[e] \/ \E i \in Slots : al_on_disk[i] = e]

Crash ==
    /\ disk = "up" /\ crashes < MaxCrashes
    /\ crashes' = crashes + 1
    /\ LcReset
    /\ wstate' = [w \in Writes |-> IF wstate[w] = "new" THEN "new" ELSE "done"]
    /\ next_enr' = First
    /\ in_actlog' = [w \in Writes |-> FALSE]
    /\ pc' = "idle" /\ tried' = {} /\ hinted' = {}
    /\ peers_done' = FALSE /\ made_progress' = FALSE /\ filling' = FALSE
    /\ al_on_disk' = [i \in Slots |-> LC_FREE]
    /\ bm' = Recovered /\ bm_on_disk' = Recovered
    /\ connected' = FALSE
    /\ al_suspended' = \A e \in Extents : Recovered[e]
    /\ adm' = "idle"
    /\ UNCHANGED <<differs, disk, resizes, suspends>>

-----------------------------------------------------------------------------
Arrive(w) == ArriveHot(w) \/ ArriveUnlogged(w) \/ ArriveCold(w)

\* The steps of the submitter's work item.
Submitter ==
    \/ DoSubmit \/ FastEnd \/ PrepareBegin \/ PrepareEnd \/ FillUp \/ FillEnd
    \/ CommitNothing \/ CommitBegin \/ WriteHintedEnd \/ WriteLog \/ CommitEnd \/ SubmitEnd
    \/ \E e \in Extents : WriteHinted(e)
    \/ \E w \in Writes : \/ FastSubmit(w) \/ FastSkip(w)
                         \/ PrepareCleanup(w) \/ PrepareActivate(w)
                         \/ PreparePeersStuck(w) \/ PrepareAppsStuck(w)
                         \/ SubmitPending(w)

Settle(w) == SettleInSync(w) \/ SettleOutOfSync(w)

Admin == ResizeLock \/ AlShrunk \/ \E i \in Slots : AlShrink(i)

Next ==
    \/ \E w \in Writes : Arrive(w) \/ Settle(w) \/ AlCompleteIo(w)
    \/ Submitter
    \/ WriteHintedFails \/ WriteLogFails \/ DiskFails
    \/ \E e \in Extents : ResyncClears(e) \/ WriteLazy(e)
    \/ Connect \/ Disconnect
    \/ SetAllSuspendAl \/ Resize \/ Admin
    \/ Crash

Spec == Init /\ [][Next]_alVars

\* Writes to the backing device end, and so do the works of the kernel threads
\* and of the administrative commands; nothing else has to happen.
Fairness ==
    /\ WF_alVars(Submitter)
    /\ WF_alVars(Admin)
    /\ \A w \in Writes : WF_alVars(Settle(w)) /\ SF_alVars(AlCompleteIo(w))

FairSpec == Spec /\ Fairness

-----------------------------------------------------------------------------
\* The extents recovery finds: their bit, or a slot of the log, is on disk.
Covered(e) == bm_on_disk[e] \/ \E i \in Slots : al_on_disk[i] = e

\* The promise of the activity log: at every moment, should the node crash, each
\* extent whose data may differ from a peer's is in the on-disk bitmap or in the
\* on-disk log.
CrashSafe == \A e \in differs : Covered(e)

\* A write holds the extents it has activated; nobody else holds a slot.
Holds(w, e) ==
    \/ wstate[w] \in {"queued", "incoming", "pending"} /\ First[w] <= e /\ e < next_enr[w]
    \/ wstate[w] \in {"inflight", "refused", "settled"} /\ in_actlog[w] /\ e \in Ext(w)

\* The reference count of a slot is the number of writes that hold its extent: none
\* is lost (the slot could be recycled under a write) and none is left behind (the
\* slot could never be recycled again).
RefsMatchHolders ==
    disk = "up" =>
      \A i \in Slots : refs[i] = {w \in Writes : Holds(w, lc_new_number[i])}

\* The hash table finds at most one slot for a label (__lc_find()).
OneSlotPerLabel ==
    \A i, j \in Slots : lc_new_number[i] = lc_new_number[j] /\ i # j => lc_new_number[i] = LC_FREE

\* Every write that waits for the log is submitted (or dropped with its connection).
EveryWriteSubmitted ==
    \A w \in Writes : wstate[w] = "queued" ~> wstate[w] \notin {"queued", "incoming", "pending"}

\* An administrative operation that waits for the log, with IO suspended, ends.
AdminEnds == adm # "idle" ~> adm = "idle"

-----------------------------------------------------------------------------
(***************************************************************************)
(* Why CrashSafe holds: the parts of an inductive invariant.               *)
(***************************************************************************)
\* The labels are unique, before and after the pending transaction.
UniqueLabels ==
    \A i, j \in Slots :
      /\ lc_number[i] = lc_number[j] /\ lc_number[i] # LC_FREE => i = j
      /\ lc_new_number[i] = lc_new_number[j] /\ lc_new_number[i] # LC_FREE => i = j

\* Who may change the set of labels: a transaction is prepared by the submitter
\* and marks the cache dirty, it is written under the lock, and nobody else
\* holds the lock then.
Committing == pc \in {"bitmap", "log", "committed"}
AdminLocked == adm \in {"suspend", "resize"}
OneTransaction ==
    /\ Committing \/ AdminLocked => locked
    /\ ~(Committing /\ AdminLocked)
    /\ pc = "prepare" => ~locked
    /\ ToBeChanged # {} => dirty /\ ~AdminLocked
    /\ pc \in {"submit", "fast", "idle"} => ToBeChanged = {}

\* A write that has not been submitted holds the extents it has activated so far.
Waiting == {"new", "queued", "incoming"}
WaitersHold ==
    \A w \in Writes :
      /\ wstate[w] = "pending" => next_enr[w] > Last[w]
      /\ wstate[w] \in Waiting => next_enr[w] \in Ext(w)
      /\ wstate[w] \in Waiting \cup {"pending"} =>
           \A e \in Ext(w) : e < next_enr[w] =>
             \E i \in Slots : w \in refs[i] /\ lc_new_number[i] = e

\* The on-disk log agrees with the cache.
LogMatches ==
    disk = "up" =>
      \A i \in Slots :
        /\ i \in ToBeChanged /\ pc = "committed" => al_on_disk[i] = lc_new_number[i]
        /\ ~(i \in ToBeChanged /\ pc = "committed") /\ lc_number[i] # LC_FREE =>
             al_on_disk[i] = lc_number[i]

\* A slot that keeps its label, here and on disk, as long as w holds it.
HotSlot(i, w, e) ==
    w \in refs[i] /\ lc_number[i] = e /\ lc_new_number[i] = e /\ al_on_disk[i] = e

\* The extents of a logged write are hot while it is in flight.
InFlightHot ==
    \A w \in Writes : wstate[w] = "inflight" /\ in_actlog[w] =>
      \A e \in Ext(w) : \E i \in Slots : HotSlot(i, w, e)

\* Without the log all bits are set, in memory and on disk.
AllSet == \A e \in Extents : bm[e] /\ bm_on_disk[e]
UnloggedMarked ==
    /\ al_suspended => ~connected /\ AllSet
    /\ adm = "suspend" => AllSet
    /\ \A w \in Writes : wstate[w] = "inflight" /\ ~in_actlog[w] =>
         \A e \in Ext(w) : bm[e] /\ bm_on_disk[e]

\* In memory an extent that differs has its bit, or a logged write in flight, or
\* the reference of a peer write that ended after the disk had failed.
KnownInMemory ==
    \A e \in differs :
      \/ bm[e]
      \/ \E w \in InFlightOn(e) : in_actlog[w]
      \/ disk = "failed" /\ \E i \in Slots, w \in Writes :
           Kind[w] = "peer" /\ wstate[w] \in {"settled", "done"} /\ HotSlot(i, w, e)

\* The labels that leave the log have their bits written first.
EvictedWritten ==
    \A i \in ToBeChanged :
      /\ pc = "bitmap" /\ lc_number[i] \in differs =>
           lc_number[i] \in hinted \/ bm_on_disk[lc_number[i]]
      /\ pc = "log" /\ lc_number[i] \in differs => bm_on_disk[lc_number[i]]

\* On disk an extent that differs has its bit or a slot that still stands for it;
\* once the disk has failed and the last transaction is over nothing changes there.
KnownOnDisk ==
    \A e \in differs :
      \/ bm_on_disk[e]
      \/ \E i \in Slots :
           /\ al_on_disk[i] = e
           /\ \/ lc_number[i] = e \/ lc_new_number[i] = e
              \/ disk = "failed" /\ pc \notin {"bitmap", "log"}

\* The log is not resized.
NoResize == adm \in {"idle", "suspend"}

IInv ==
    /\ TypeOK /\ NoResize
    /\ UniqueLabels /\ OneTransaction /\ WaitersHold /\ LogMatches /\ InFlightHot
    /\ UnloggedMarked /\ KnownInMemory /\ EvictedWritten /\ KnownOnDisk

-----------------------------------------------------------------------------
(***************************************************************************)
(* Why RefsMatchHolders holds, resizes included.                           *)
(***************************************************************************)
\* A write that is ready to be submitted has activated its last extent.
PendingComplete == \A w \in Writes : wstate[w] = "pending" => next_enr[w] = Last[w] + 1

\* A write submitted through the log holds committed slots until
\* drbd_al_complete_io().
Submitted == {"inflight", "refused", "settled"}
SubmittedHold ==
    \A w \in Writes : wstate[w] \in Submitted /\ in_actlog[w] =>
      \A e \in Ext(w) : \E i \in Slots :
        w \in refs[i] /\ lc_number[i] = e /\ lc_new_number[i] = e

\* No application write leaves a reference behind.
NoneLeft ==
    \A w \in Writes : Kind[w] = "app" =>
      \A i \in Slots : w \in refs[i] => Holds(w, lc_new_number[i])

RefsInv ==
    /\ TypeOK
    /\ UniqueLabels /\ OneTransaction
    /\ WaitersHold /\ PendingComplete /\ SubmittedHold /\ NoneLeft

=============================================================================

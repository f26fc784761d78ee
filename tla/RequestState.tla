---------------------------- MODULE RequestState ----------------------------
(***************************************************************************)
(* The life of a drbd_request: its local and per-peer state flags, its     *)
(* three reference counts, and the transfer log it is a member of          *)
(* (drbd_req.c, drbd_req.h).                                               *)
(*                                                                         *)
(* Everything that happens to a request goes through mod_rq_state(): under *)
(* rq_lock it changes flags and takes references; after the unlock it      *)
(* moves the caching pointers and drops references, and whoever drops the  *)
(* last one completes the master bio, marks the request done, or takes it  *)
(* off the transfer log.  Several threads are inside that second half at   *)
(* the same time.  An actor is such a thread; owe[a] is the rest of the    *)
(* mod_rq_state() call that actor a is in.                                 *)
(*                                                                         *)
(* References are identified by who holds them, so that a count can be     *)
(* compared with the set of its holders:                                   *)
(*   completion_ref  <<"submit", 0>> <<"local", 0>> <<"susp", 0>>          *)
(*                   <<"pending", p>> <<"send", p>>                        *)
(*   done_ref        <<"compl", 0>> <<"barr", p>> <<"prev", 0>>            *)
(*   oos_send_ref    <<"done", 0>> <<"queued", p>> <<"prev", 0>>           *)
(***************************************************************************)
EXTENDS Integers, FiniteSets, FiniteSetsExt

CONSTANTS
    Peers,       \* node ids of the configured peers
    Actors,      \* threads that call req_mod()
    StateActor,  \* the one that does so under the state_rwlock write lock
    MaxReqs,     \* bound: request objects ever allocated
    Bios,        \* block layer requests (master bios)
    BioKind,     \* [Bios -> {"write", "read", "flush"}]
    BioBlock,    \* [Bios -> Blocks], the block it reads or writes
    Blocks

ASSUME PeersAssumption == IsFiniteSet(Peers)
ASSUME ActorsAssumption == StateActor \in Actors
ASSUME MaxReqsAssumption == MaxReqs \in Nat
ASSUME BlocksAssumption == Blocks # {}

Reqs == 1 .. MaxReqs
NoReq == 0           \* the NULL pointer
NoBio == "none"      \* req->master_bio == NULL
ASSUME BiosAssumption ==
    /\ NoBio \notin Bios
    /\ BioKind \in [Bios -> {"write", "read", "flush"}]
    /\ BioBlock \in [Bios -> Blocks]

LocalFlags ==
    {"WRITE", "LOCAL_PENDING", "LOCAL_COMPLETED", "LOCAL_OK", "LOCAL_ABORTED",
     "COMPLETION_SUSP", "POSTPONED"}
LOCAL_MASK == {"LOCAL_PENDING", "LOCAL_COMPLETED", "LOCAL_OK", "LOCAL_ABORTED"}
NET_MASK ==
    {"PENDING", "QUEUED", "READY", "SENT", "DONE", "OK", "SIS", "PENDING_OOS"}
NetFlags ==
    NET_MASK \cup {"EXP_RECEIVE_ACK", "EXP_WRITE_ACK", "EXP_BARR_ACK"}

VARIABLES
    req,             \* immutable fields: [Reqs -> [kind, blk, epoch, dagtag]]
    master_bio,      \* [Reqs -> Bios \cup {NoBio}]
    local_rq_state,  \* [Reqs -> SUBSET LocalFlags]
    net_rq_state,    \* [Reqs -> [Peers -> SUBSET NetFlags]]
    completion_ref,
    done_ref,
    oos_send_ref,    \* [Reqs -> Int]
    transfer_log,    \* requests on the TL; its list order is the order of ids
    next_write,      \* [Reqs -> Reqs \cup {NoReq}]
    tl_previous_write,
    interval_done,   \* requests with INTERVAL_DONE set
    retry_writes,    \* retry.writes and resource->suspended_reqs: requests
    suspended_reqs,  \* waiting for do_retry()
    req_ack_pending,
    req_not_net_done,
    req_next,        \* caching pointers, [Peers -> Reqs \cup {NoReq}]
    current_tle_nr,
    current_tle_writes,
    bio_status,      \* [Bios -> {"new", "active", "ok", "error"}]
    out_of_sync,     \* bitmap, [Peers -> SUBSET Blocks]
    disk_state,      \* of the local disk: "UpToDate", "Failed", "Diskless"
    susp,            \* resource->cached_susp
    owe              \* [Actors -> the rest of the actor's mod_rq_state()]

flagVars == <<local_rq_state, net_rq_state>>
refVars == <<completion_ref, done_ref, oos_send_ref>>
logVars == <<transfer_log, next_write, tl_previous_write, interval_done>>
retryVars == <<retry_writes, suspended_reqs>>
ptrVars == <<req_ack_pending, req_not_net_done, req_next>>
tleVars == <<current_tle_nr, current_tle_writes>>
bioVars == <<master_bio, bio_status>>
rsVars == <<req, bioVars, flagVars, refVars, logVars, retryVars, ptrVars, tleVars,
            out_of_sync, disk_state, susp, owe>>

(***************************************************************************)
(* owe[a]: phase ph of the call of a; request req with the pointer updates *)
(* adv, completion puts c, and the done and oos_send puts d and o of the   *)
(* final drbd_put_ref_tl_walk(); and the walk in progress: at request cur, *)
(* about to drop cd and co there.                                          *)
(***************************************************************************)
Idle == [ph |-> "idle", req |-> NoReq, adv |-> {}, c |-> {}, d |-> {}, o |-> {},
         cur |-> NoReq, cd |-> {}, co |-> {}, done |-> FALSE, sent |-> FALSE]

(***************************************************************************)
(* mod_rq_state().                                                         *)
(***************************************************************************)
Rises(old, new, f) == f \notin old /\ f \in new
Falls(old, new, f) == f \in old /\ f \notin new

\* Fault: an acked request no longer counts, although it is still being sent.
NeedsMasterBio_acked(s) == "QUEUED" \in s /\ "PENDING" \in s

\* drbd_sender_needs_master_bio()
NeedsMasterBio(s) == "QUEUED" \in s /\ "DONE" \notin s

PeersWhere(old, new, P(_, _)) == {p \in Peers : P(old[p], new[p])}
Tokens(name, S) == {<<name, p>> : p \in S}
TokenIf(cond, name) == IF cond THEN {<<name, 0>>} ELSE {}

PendingRises(o, n) == Rises(o, n, "PENDING")
PendingFalls(o, n) == Falls(o, n, "PENDING")
\* Fault: only requests that were sent give the reference back.
QueuedFalls_sent(o, n) == Falls(o, n, "QUEUED") /\ "SENT" \in n
QueuedRises(o, n) == Rises(o, n, "QUEUED")
QueuedFalls(o, n) == Falls(o, n, "QUEUED")
NeedRises(o, n) == ~NeedsMasterBio(o) /\ NeedsMasterBio(n)
NeedFalls(o, n) == NeedsMasterBio(o) /\ ~NeedsMasterBio(n)
ExpBarrRises(o, n) == Rises(o, n, "EXP_BARR_ACK")
DoneRises(o, n) == Rises(o, n, "DONE")
BarrierDone(o, n) == DoneRises(o, n) /\ "EXP_BARR_ACK" \in o
ReadyNotDone(o, n) == Rises(o, n, "READY") /\ "DONE" \notin n
SentPending(o, n) == Rises(o, n, "SENT") /\ "PENDING" \in n

\* "intent: get references"
CompletionGets(ol, nl, on, nn) ==
    TokenIf(Rises(ol, nl, "LOCAL_PENDING"), "local")
      \cup TokenIf(Rises(ol, nl, "COMPLETION_SUSP"), "susp")
      \cup Tokens("pending", PeersWhere(on, nn, PendingRises))
      \cup Tokens("send", PeersWhere(on, nn, NeedRises))

\* Fault: the late completion of an aborted request puts the reference again.
CompletionPuts_twice(ol, nl, on, nn) ==
    TokenIf(Falls(ol, nl, "COMPLETION_SUSP"), "susp")
      \cup TokenIf(Rises(ol, nl, "LOCAL_ABORTED") \/ Falls(ol, nl, "LOCAL_PENDING"), "local")
      \cup Tokens("pending", PeersWhere(on, nn, PendingFalls))
      \cup Tokens("send", PeersWhere(on, nn, NeedFalls))

\* "progress: put references", c_put
CompletionPuts(ol, nl, on, nn) ==
    TokenIf(Falls(ol, nl, "COMPLETION_SUSP"), "susp")
      \cup TokenIf(\/ Rises(ol, nl, "LOCAL_ABORTED")
                   \/ /\ Falls(ol, nl, "LOCAL_PENDING")
                      /\ "LOCAL_ABORTED" \notin nl, "local")
      \cup Tokens("pending", PeersWhere(on, nn, PendingFalls))
      \cup Tokens("send", PeersWhere(on, nn, NeedFalls))

\* Fault: aborting the local IO already gives up the done reference.
DonePuts_abort(ol, nl, on, nn) ==
    TokenIf(Rises(ol, nl, "LOCAL_ABORTED"), "compl")
      \cup Tokens("barr", PeersWhere(on, nn, BarrierDone))

\* d_put: an aborted request hands the reference that was kept for its
\* completion to the late local completion
DonePuts(ol, nl, on, nn) ==
    TokenIf(Falls(ol, nl, "LOCAL_PENDING") /\ "LOCAL_ABORTED" \in nl, "compl")
      \cup Tokens("barr", PeersWhere(on, nn, BarrierDone))

\* Fault: the pointer is set even if it points to an older request.
SetIfNull_always(ptr, r, S) == [p \in Peers |-> IF p \in S THEN r ELSE ptr[p]]

\* set_cache_ptr_if_null()
SetIfNull(ptr, r, S) == [p \in Peers |-> IF p \in S /\ ptr[p] = NoReq THEN r ELSE ptr[p]]

\* The part of mod_rq_state() under rq_lock, by actor a on request r: the new
\* flags, the references taken, and in owe[a] everything still to be done.
mod_rq_state(a, r, nl, nn) ==
    LET ol == local_rq_state[r]
        on == net_rq_state[r]
        c == CompletionPuts(ol, nl, on, nn)
        d == DonePuts(ol, nl, on, nn)
        o == Tokens("queued", PeersWhere(on, nn, QueuedFalls))
        adv == {<<"ack", p>> : p \in PeersWhere(on, nn, PendingFalls)}
                 \cup {<<"next", p>> : p \in PeersWhere(on, nn, QueuedFalls)}
                 \cup {<<"done", p>> : p \in PeersWhere(on, nn, DoneRises)}
    IN  /\ local_rq_state' = [local_rq_state EXCEPT ![r] = nl]
        /\ net_rq_state' = [net_rq_state EXCEPT ![r] = nn]
        /\ completion_ref' = [completion_ref EXCEPT
                                ![r] = @ + Cardinality(CompletionGets(ol, nl, on, nn))]
        /\ done_ref' = [done_ref EXCEPT
                          ![r] = @ + Cardinality(PeersWhere(on, nn, ExpBarrRises))]
        /\ oos_send_ref' = [oos_send_ref EXCEPT
                              ![r] = @ + Cardinality(PeersWhere(on, nn, QueuedRises))]
        /\ req_not_net_done' =
             SetIfNull(req_not_net_done, r, PeersWhere(on, nn, ReadyNotDone))
        /\ req_ack_pending' =
             SetIfNull(req_ack_pending, r, PeersWhere(on, nn, SentPending))
        /\ owe' = [owe EXCEPT ![a] =
                     IF c \cup d \cup o \cup adv = {} THEN Idle
                     ELSE [Idle EXCEPT !.ph = "adv", !.req = r, !.adv = adv,
                                       !.c = c, !.d = d, !.o = o]]

\* What is left alone by mod_rq_state() and by all of its callers.
modRest == <<req, bioVars, logVars, retryVars, req_next, disk_state, susp>>

mod_net(a, r, p, clear, set) ==
    /\ mod_rq_state(a, r, local_rq_state[r],
                    [net_rq_state[r] EXCEPT ![p] = (@ \ clear) \cup set])
    /\ UNCHANGED <<modRest, tleVars, out_of_sync>>

mod_local(a, r, clear, set) ==
    /\ mod_rq_state(a, r, (local_rq_state[r] \ clear) \cup set, net_rq_state[r])
    /\ UNCHANGED <<modRest, tleVars>>

\* The next request after r among the requests S of the transfer log.  (A request
\* taken off with list_del_rcu() still leads to its successors.)
NextOnLog(r, S) ==
    LET later == {q \in S : q > r}
    IN  IF later = {} THEN NoReq ELSE Min(later)

SentPendingTo(p, q) == {"SENT", "PENDING"} \subseteq net_rq_state[q][p]
NotDoneTo(p, q) == net_rq_state[q][p] \cap NET_MASK # {} /\ "DONE" \notin net_rq_state[q][p]
QueuedTo(p, q) == "QUEUED" \in net_rq_state[q][p]

\* The advance_cache_ptr() and advance_conn_req_next() calls.
AdvancePointers(a) ==
    LET r == owe[a].req
        Moved(name, ptr, F(_, _)) ==
            [p \in Peers |->
               IF <<name, p>> \in owe[a].adv /\ ptr[p] = r
               THEN NextOnLog(r, {q \in transfer_log : F(p, q)}) ELSE ptr[p]]
    IN  /\ owe[a].ph = "adv"
        /\ req_ack_pending' = Moved("ack", req_ack_pending, SentPendingTo)
        /\ req_next' = Moved("next", req_next, QueuedTo)
        /\ req_not_net_done' = Moved("done", req_not_net_done, NotDoneTo)
        /\ owe' = [owe EXCEPT ![a].ph = "compl", ![a].adv = {}]
        /\ UNCHANGED <<req, bioVars, flagVars, refVars, logVars, retryVars, tleVars,
                       out_of_sync, disk_state, susp>>

(***************************************************************************)
(* drbd_req_put_completion_ref() and drbd_req_complete().                  *)
(***************************************************************************)
start_new_tl_epoch ==
    IF current_tle_writes = 0
    THEN UNCHANGED tleVars
    ELSE /\ current_tle_nr' = current_tle_nr + 1
         /\ current_tle_writes' = 0

\* the "Logic BUG" checks of drbd_req_complete()
CompleteBug(r) ==
    \/ \E p \in Peers : /\ "PENDING_OOS" \notin net_rq_state[r][p]
                        /\ net_rq_state[r][p] \cap {"PENDING", "QUEUED"} # {}
    \/ "LOCAL_PENDING" \in local_rq_state[r] /\ "LOCAL_ABORTED" \notin local_rq_state[r]
    \/ master_bio[r] = NoBio

Succeeded(r) ==
    "LOCAL_OK" \in local_rq_state[r] \/ \E p \in Peers : "OK" \in net_rq_state[r][p]

\* Does drbd_req_complete() hand the bio to the retry queue?
Postpones(r) ==
    \/ "POSTPONED" \in local_rq_state[r]
    \/ ~Succeeded(r) /\ req[r].kind = "read" /\ r \in transfer_log

\* Fault: the epoch stays open.
ClosesEpoch_never(r) == FALSE

\* The first write of the current epoch that completes closes it.
ClosesEpoch(r) == req[r].kind = "write" /\ req[r].epoch = current_tle_nr

\* Fault: a postponed request completes its bio all the same.
drbd_req_complete_both(r) ==
    /\ local_rq_state' = IF Postpones(r)
                         THEN [local_rq_state EXCEPT ![r] = @ \cup {"POSTPONED"}] ELSE local_rq_state
    /\ bio_status' = [bio_status EXCEPT ![master_bio[r]] = IF Succeeded(r) THEN "ok" ELSE "error"]
    /\ master_bio' = IF Postpones(r) THEN master_bio ELSE [master_bio EXCEPT ![r] = NoBio]
    /\ IF ClosesEpoch(r) THEN start_new_tl_epoch ELSE UNCHANGED tleVars

drbd_req_complete(r) ==
    IF CompleteBug(r)
    THEN UNCHANGED <<bioVars, local_rq_state, tleVars>>
    ELSE /\ IF ClosesEpoch(r) THEN start_new_tl_epoch ELSE UNCHANGED tleVars
         /\ IF Postpones(r)
            THEN /\ local_rq_state' = [local_rq_state EXCEPT ![r] = @ \cup {"POSTPONED"}]
                 /\ UNCHANGED bioVars
            ELSE /\ bio_status' = [bio_status EXCEPT
                                    ![master_bio[r]] = IF Succeeded(r) THEN "ok" ELSE "error"]
                 /\ master_bio' = [master_bio EXCEPT ![r] = NoBio]
                 /\ UNCHANGED local_rq_state

\* drbd_restart_request()
drbd_restart_request(r) ==
    IF susp
    THEN suspended_reqs' = suspended_reqs \cup {r} /\ UNCHANGED retry_writes
    ELSE retry_writes' = retry_writes \cup {r} /\ UNCHANGED suspended_reqs

\* The walk of drbd_put_ref_tl_walk(r, d, o), or nothing if both are empty.
StartWalk(w, r, d, o) ==
    IF d \cup o = {} THEN Idle
    ELSE [w EXCEPT !.ph = "putd", !.cur = r, !.cd = d, !.co = o,
                   !.done = FALSE, !.sent = FALSE]

\* What the actor does after a walk (or instead of it): the d and o puts that
\* mod_rq_state() still has for the request itself.
FinalWalk(w) == StartWalk([w EXCEPT !.c = {}, !.d = {}, !.o = {}], w.req, w.d, w.o)

drbd_req_put_completion_ref(a) ==
    LET r == owe[a].req
        w == [owe[a] EXCEPT !.c = {}]
        zero == owe[a].c # {} /\ completion_ref[r] = Cardinality(owe[a].c)
    IN  /\ owe[a].ph = "compl"
        /\ completion_ref' = [completion_ref EXCEPT ![r] = @ - Cardinality(owe[a].c)]
        /\ IF zero THEN drbd_req_complete(r) ELSE UNCHANGED <<bioVars, local_rq_state, tleVars>>
        /\ IF zero /\ "LOCAL_ABORTED" \notin local_rq_state[r]
           THEN IF "POSTPONED" \in local_rq_state'[r]
                THEN drbd_restart_request(r) /\ owe' = [owe EXCEPT ![a] = FinalWalk(w)]
                ELSE /\ owe' = [owe EXCEPT ![a] = StartWalk(w, r, {<<"compl", 0>>}, {})]
                     /\ UNCHANGED retryVars
           ELSE owe' = [owe EXCEPT ![a] = FinalWalk(w)] /\ UNCHANGED retryVars
        /\ UNCHANGED <<req, net_rq_state, done_ref, oos_send_ref, logVars, ptrVars,
                       out_of_sync, disk_state, susp>>

(***************************************************************************)
(* drbd_put_ref_tl_walk() and drbd_req_done().                             *)
(***************************************************************************)
\* the "Logic BUG" checks of drbd_req_done()
DoneBug(r) ==
    \/ \E p \in Peers : NotDoneTo(p, r)
    \/ master_bio[r] # NoBio /\ "POSTPONED" \notin local_rq_state[r]
    \/ completion_ref[r] # 0
    \/ "LOCAL_PENDING" \in local_rq_state[r]

\* A write that was postponed before it was submitted anywhere must not touch
\* the bitmap; the others settle each peer's bit from NET_OK and NET_SIS.
SettlesBitmap(r) ==
    /\ req[r].kind = "write"
    /\ ~("POSTPONED" \in local_rq_state[r] /\ local_rq_state[r] \cap LOCAL_MASK = {})
    /\ disk_state # "Diskless"

\* Fault: takes every peer that is done for one that has the data.
SetSync_done(r) ==
    [p \in Peers |->
       IF "DONE" \notin net_rq_state[r][p] THEN out_of_sync[p] \cup {req[r].blk}
       ELSE out_of_sync[p]]

\* drbd_set_sync(device, sector, size, bits, mask)
SetSync(r) ==
    [p \in Peers |->
       IF "OK" \notin net_rq_state[r][p] THEN out_of_sync[p] \cup {req[r].blk}
       ELSE IF "SIS" \in net_rq_state[r][p] THEN out_of_sync[p] \ {req[r].blk}
       ELSE out_of_sync[p]]

\* READY_FOR_NET if a bit was newly set for the peer, else SKIP_OOS.
OosReady(r, bm) ==
    [p \in Peers |->
       LET s == net_rq_state[r][p]
       IN  IF "PENDING_OOS" \notin s THEN s
           ELSE IF req[r].blk \in bm[p] \ out_of_sync[p] THEN s \cup {"READY"}
           ELSE (s \ {"PENDING_OOS"}) \cup {"READY"}]

drbd_req_done(r) ==
    LET bm == IF SettlesBitmap(r) THEN SetSync(r) ELSE out_of_sync
    IN  IF DoneBug(r)
        THEN UNCHANGED <<out_of_sync, net_rq_state>>
        ELSE /\ out_of_sync' = bm
             /\ net_rq_state' =
                  IF "WRITE" \in local_rq_state[r] /\ "POSTPONED" \notin local_rq_state[r]
                  THEN [net_rq_state EXCEPT ![r] = OosReady(r, bm)]
                  ELSE net_rq_state

\* refcount_sub_and_test(done_put, &req->done_ref)
PutDone(a) ==
    LET r == owe[a].cur
        zero == owe[a].cd # {} /\ done_ref[r] = Cardinality(owe[a].cd)
    IN  /\ owe[a].ph = "putd"
        /\ done_ref' = [done_ref EXCEPT ![r] = @ - Cardinality(owe[a].cd)]
        /\ IF zero THEN drbd_req_done(r) ELSE UNCHANGED <<out_of_sync, net_rq_state>>
        /\ owe' = [owe EXCEPT ![a].ph = "puto", ![a].cd = {}, ![a].done = zero,
                              ![a].co = @ \cup TokenIf(zero, "done")]
        /\ UNCHANGED <<req, bioVars, local_rq_state, completion_ref, oos_send_ref, logVars,
                       retryVars, ptrVars, tleVars, disk_state, susp>>

\* refcount_sub_and_test(oos_send_put, &req->oos_send_ref)
PutOosSend(a) ==
    LET r == owe[a].cur
        zero == owe[a].co # {} /\ oos_send_ref[r] = Cardinality(owe[a].co)
    IN  /\ owe[a].ph = "puto"
        /\ oos_send_ref' = [oos_send_ref EXCEPT ![r] = @ - Cardinality(owe[a].co)]
        /\ owe' = [owe EXCEPT ![a] =
                     IF owe[a].done \/ zero
                     THEN [owe[a] EXCEPT !.ph = "link", !.co = {}, !.sent = zero]
                     ELSE FinalWalk(owe[a])]
        /\ UNCHANGED <<req, bioVars, flagVars, completion_ref, done_ref, logVars,
                       retryVars, ptrVars, tleVars, out_of_sync, disk_state, susp>>

\* Under tl_update_lock: off the transfer log, or marked done; then on to the
\* next write, which held back one reference for this one.
UpdateLog(a) ==
    LET w == owe[a]
        next == next_write[w.cur]
    IN  /\ w.ph = "link"
        /\ IF w.sent
           THEN /\ transfer_log' = transfer_log \ {w.cur}
                /\ tl_previous_write' =
                     IF tl_previous_write = w.cur THEN NoReq ELSE tl_previous_write
                /\ UNCHANGED interval_done
           ELSE /\ interval_done' = interval_done \cup {w.cur}
                /\ UNCHANGED <<transfer_log, tl_previous_write>>
        /\ owe' = [owe EXCEPT ![a] =
                     IF next = NoReq THEN FinalWalk(w)
                     ELSE StartWalk(w, next, TokenIf(w.done, "prev"), TokenIf(w.sent, "prev"))]
        /\ UNCHANGED <<req, bioVars, flagVars, refVars, next_write, retryVars, ptrVars,
                       tleVars, out_of_sync, disk_state, susp>>

\* The steps of a mod_rq_state() call after rq_lock was dropped.
Progress(a) ==
    \/ AdvancePointers(a)
    \/ drbd_req_put_completion_ref(a)
    \/ PutDone(a)
    \/ PutOosSend(a)
=============================================================================

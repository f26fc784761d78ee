----------------------------- MODULE DrbdRequest -----------------------------
(***************************************************************************)
(* The path of application requests through a primary node: submission     *)
(* (drbd_req.c), the sender threads (drbd_sender.c), acknowledgements and  *)
(* barrier acks (drbd_receiver.c, tl_release() in drbd_main.c), loss and   *)
(* re-establishment of connections, suspension of IO (drbd_state.c) and    *)
(* failing local disks, all as interleaved threads that meet in the        *)
(* request state machine of RequestState.                                  *)
(*                                                                         *)
(* A peer is modelled by what it promises to the primary: it writes in any *)
(* order what it receives, acknowledges according to the wire protocol,    *)
(* and answers a barrier once everything received before it is written.    *)
(***************************************************************************)
EXTENDS RequestState, Sequences

CONSTANTS
    Proto,           \* [Peers -> {"A", "B", "C"}], wire protocol
    MaxEpochSize,    \* net_conf->max_epoch_size
    Scenarios        \* what an instance explores, see below

ASSUME ProtoAssumption == Proto \in [Peers -> {"A", "B", "C"}]

(***************************************************************************)
(* A behaviour belongs to one scenario, which bounds it:                   *)
(*   peers        the peers that are configured; the others never connect; *)
(*   bios, reqs   the bios that are submitted, and how many requests may   *)
(*                be allocated for them, retries included;                 *)
(*   loss, mode, disk, neg   how many connections may be lost, how many    *)
(*                changes between replicating, out-of-sync and no disk     *)
(*                there are, failures of the local disk (at most 1), and   *)
(*                write and read errors on peers;                          *)
(*   force        the failing disk is detached with force;                 *)
(*   suspend      IO is suspended when a connection is lost (quorum,       *)
(*                fencing);                                                *)
(*   races        the windows other threads may step into:                 *)
(*     "preempt"  inside req_mod() and drbd_send_and_submit();             *)
(*     "resume"   with a state change that resumes IO, between the loss of *)
(*                a connection and the end of its conn_disconnect();       *)
(*     "abort"    between the test and the req_mod() of tl_abort_disk_io();*)
(*     "reply"    with the answer to a read, between drbd_send_drequest()  *)
(*                and the req_mod() that follows it.                       *)
(* The code permits all of it at the same time.                            *)
(***************************************************************************)
ASSUME ScenariosAssumption ==
    Scenarios \subseteq
      [peers : SUBSET Peers, bios : SUBSET Bios, reqs : 0 .. MaxReqs, loss : Nat, mode : Nat, disk : 0 .. 1,
       neg : Nat, force : BOOLEAN, suspend : BOOLEAN,
       races : SUBSET {"preempt", "resume", "abort", "reply"}]

Submitter == <<"sub", 0>>
RetryWorker == <<"retry", 0>>
AbortWorker == <<"abort", 0>>
StateChange == <<"state", 0>>
Sender(p) == <<"snd", p>>
AckReceiver(p) == <<"ack", p>>
Receiver(p) == <<"rcv", p>>
EndIo(r) == <<"disk", r>>
AllActors ==
    {Submitter, RetryWorker, AbortWorker, StateChange}
      \cup {Sender(p) : p \in Peers} \cup {AckReceiver(p) : p \in Peers}
      \cup {Receiver(p) : p \in Peers} \cup {EndIo(r) : r \in Reqs}
ASSUME ThreadsAssumption == Actors = AllActors

VARIABLES
    dagtag_sector,
    cstate,    \* [Peers -> {"connected", "down"}]
    repl,      \* [Peers -> {"remote", "oos", "none"}], see Modes
    sub,       \* drbd_send_and_submit() of the submitting thread
    prepared,  \* requests after drbd_request_prepare(): [bio, local]
    disk_io,   \* requests whose private bio is at the backing device
    snd,       \* [Peers -> state of drbd_sender()]
    wire,      \* [Peers -> packets on the data stream to the peer]
    ctl,       \* [Peers -> acks on the control stream from the peer]
    replies,   \* [Peers -> read replies on the data stream from the peer]
    peer,      \* [Peers -> the peer: active writes, epoch size, disk content]
    rel,       \* [Peers -> tl_release() in progress: epoch and position]
    rcv,       \* [Peers -> conn_disconnect() of the receiver thread]
    walks,     \* transfer log walks finish_state_change() still has to do
    abort,     \* tl_abort_disk_io() of the worker
    ldata,     \* [Blocks -> the request last written to the local disk]
    budget     \* the scenario, with what is left of its failures

netVars == <<wire, ctl, replies, peer>>
connVars == <<cstate, repl, rcv, rel, walks, budget>>
diskVars == <<disk_io, abort, ldata>>
envVars == <<dagtag_sector, sub, prepared, snd, netVars, connVars, diskVars>>
vars == <<rsVars, envVars>>

(***************************************************************************)
(* state_rwlock: req_mod() and drbd_send_and_submit() hold it for reading, *)
(* a state change with its transfer log walks for writing.                 *)
(***************************************************************************)
StateUnlocked == walks = {} /\ owe[StateChange] = Idle
CanMod(a) == StateUnlocked /\ owe[a] = Idle
NoReaders ==
    /\ \A a \in AllActors : owe[a] = Idle
    /\ sub.pc = "idle"
    /\ \A p \in Peers : rcv[p].pc # "walk"
CanChangeState == walks = {} /\ NoReaders

\* tl_update_lock is held by the submitter while it adds a request.
LogUnlocked == sub.pc \notin {"epoch", "net", "add", "ready"}

(***************************************************************************)
(* Submission.                                                             *)
(***************************************************************************)
Modes == {"remote", "oos", "none"}
\* "remote": drbd_should_do_remote(); "oos": drbd_should_send_out_of_sync();
\* "none": neither (peer diskless, or no connection).

Allocated == {r \in Reqs : req[r].kind # "unused"}
NewReq == Cardinality(Allocated) + 1
NoRel == [epoch |-> -1, pos |-> NoReq]
SubIdle == [pc |-> "idle", bio |-> NoBio, req |-> NoReq, local |-> FALSE, rpeer |-> {}]

\* The write is still in device->requests and counts as a conflict.
InIntervalTree(r) == req[r].kind = "write" /\ done_ref[r] > 0
Conflicts(b) ==
    {r \in Reqs : /\ InIntervalTree(r) /\ req[r].blk = BioBlock[b]
                  /\ master_bio[r] # NoBio}

\* __drbd_make_request(): inc_ap_bio() waits while IO is suspended;
\* drbd_request_prepare() takes an ldev reference if there is a disk.
PrepareRequest(b) ==
    /\ bio_status[b] = "new" /\ ~susp
    /\ Cardinality(prepared) + Cardinality(Allocated) < budget.reqs
    /\ bio_status' = [bio_status EXCEPT ![b] = "active"]
    /\ prepared' = prepared \cup {[bio |-> b, local |-> disk_state = "UpToDate"]}
    /\ UNCHANGED <<req, master_bio, flagVars, refVars, logVars, retryVars, ptrVars, tleVars,
                   out_of_sync, disk_state, susp, owe, dagtag_sector, sub, snd, netVars,
                   connVars, diskVars>>

\* drbd_req_new()
NewRequest(r, b, flags, epoch, dagtag) ==
    /\ req' = [req EXCEPT ![r] = [kind |-> BioKind[b], blk |-> BioBlock[b],
                                  epoch |-> epoch, dagtag |-> dagtag]]
    /\ master_bio' = [master_bio EXCEPT ![r] = b]
    /\ local_rq_state' = [local_rq_state EXCEPT
         ![r] = flags \cup IF BioKind[b] = "read" THEN {} ELSE {"WRITE"}]
    /\ completion_ref' = [completion_ref EXCEPT ![r] = 1]

\* nodata:, or pushed back because IO is suspended: only the reference of the
\* submitter is put.
SubmitNowhere(q, flags) ==
    /\ NewRequest(NewReq, q.bio, flags, 0, 0)
    /\ done_ref' = [done_ref EXCEPT ![NewReq] = 1]
    /\ oos_send_ref' = [oos_send_ref EXCEPT ![NewReq] = 1]
    /\ owe' = [owe EXCEPT ![Submitter] = [Idle EXCEPT !.ph = "compl", !.req = NewReq,
                                                      !.c = {<<"submit", 0>>}]]
    /\ UNCHANGED <<net_rq_state, logVars, tleVars, dagtag_sector, sub>>

Readable == {p \in Peers : repl[p] = "remote"}
May_do_writes == disk_state = "UpToDate" \/ Readable # {}

\* drbd_send_and_submit() up to taking tl_update_lock and advancing the dagtag;
\* for a read, find_peer_device_for_read() chose the disk or a peer.
SubmitRequest(q) ==
    LET b == q.bio
        write == BioKind[b] # "read"
        blocked == BioKind[b] = "write" /\ Conflicts(b) # {}
        start(local, rp) ==
            /\ NewRequest(NewReq, b, {}, 0, 0)
            /\ done_ref' = [done_ref EXCEPT ![NewReq] = 1]
            /\ oos_send_ref' = [oos_send_ref EXCEPT ![NewReq] = 1]
            /\ dagtag_sector' = dagtag_sector + IF BioKind[b] = "write" THEN 1 ELSE 0
            /\ sub' = [pc |-> "epoch", bio |-> b, req |-> NewReq, local |-> local, rpeer |-> rp]
            /\ UNCHANGED <<net_rq_state, logVars, tleVars, owe>>
    IN  /\ sub.pc = "idle" /\ CanMod(Submitter)
        /\ prepared' = prepared \ {q}
        /\ \/ /\ blocked
              /\ \E r \in Conflicts(b) : "POSTPONED" \in local_rq_state[r]
              /\ SubmitNowhere(q, {"POSTPONED"})
           \/ /\ ~blocked /\ susp
              /\ SubmitNowhere(q, {"POSTPONED"})
           \/ /\ ~blocked /\ ~susp /\ write
              /\ IF May_do_writes THEN start(q.local, {}) ELSE SubmitNowhere(q, {})
           \/ /\ ~susp /\ ~write
              /\ LET local == q.local /\ disk_state = "UpToDate"
                 IN  \/ local /\ start(TRUE, {})
                     \/ \E p \in Readable : start(FALSE, {p})
                     \/ ~local /\ Readable = {} /\ SubmitNowhere(q, {})
        /\ UNCHANGED <<bio_status, retryVars, ptrVars, out_of_sync, disk_state, susp, snd,
                       netVars, connVars, diskVars>>

\* Fault: a write does not wait for the previous one.
HoldsBack_never(prev) == FALSE

\* The previous write holds back the done reference of the next one.
HoldsBack(prev) == prev \notin interval_done

\* The epoch of the request, under current_tle_lock; and the links to the
\* previous write, which holds back this one.
AssignEpoch ==
    LET r == sub.req
        prev == tl_previous_write
        write == req[r].kind = "write"
    IN  /\ sub.pc = "epoch"
        /\ req' = [req EXCEPT ![r].epoch = current_tle_nr, ![r].dagtag = dagtag_sector]
        /\ IF write
           THEN /\ current_tle_writes' = current_tle_writes + 1
                /\ tl_previous_write' = r
                /\ IF prev = NoReq THEN UNCHANGED <<next_write, done_ref, oos_send_ref>>
                   ELSE /\ next_write' = [next_write EXCEPT ![prev] = r]
                        /\ done_ref' = IF HoldsBack(prev) THEN [done_ref EXCEPT ![r] = @ + 1]
                                       ELSE done_ref
                        /\ oos_send_ref' = [oos_send_ref EXCEPT ![r] = @ + 1]
           ELSE UNCHANGED <<current_tle_writes, tl_previous_write, next_write, done_ref,
                            oos_send_ref>>
        /\ sub' = [sub EXCEPT !.pc = "net"]
        /\ UNCHANGED <<bioVars, flagVars, completion_ref, transfer_log, interval_done,
                       retryVars, ptrVars, current_tle_nr, out_of_sync, disk_state, susp, owe,
                       dagtag_sector, prepared, snd, netVars, connVars, diskVars>>

\* drbd_protocol_state_bits()
ProtocolBits(p) ==
    CASE Proto[p] = "C" -> {"EXP_WRITE_ACK"}
      [] Proto[p] = "B" -> {"EXP_RECEIVE_ACK"}
      [] OTHER -> {}

\* NEW_NET_WRITE, NEW_NET_OOS, NEW_NET_READ or BARRIER_SENT for each peer.
NewNet(r, p) ==
    CASE req[r].kind = "write" /\ repl[p] = "remote" ->
            {"PENDING", "QUEUED", "EXP_BARR_ACK"} \cup ProtocolBits(p)
      [] req[r].kind = "write" /\ repl[p] = "oos" -> {"PENDING_OOS", "QUEUED", "DONE"}
      [] req[r].kind = "read" /\ p \in sub.rpeer -> {"PENDING", "QUEUED"}
      [] req[r].kind = "flush" /\ repl[p] = "remote" -> {"OK", "DONE"}
      [] OTHER -> {}

\* drbd_process_write_request() and its siblings; NEW_NET_WRITE closes an epoch
\* that outgrew the limit.  An empty flush never goes on the transfer log.
ProcessNet ==
    LET r == sub.req
        nn == [p \in Peers |-> NewNet(r, p)]
        grown == /\ \E p \in Peers : "EXP_BARR_ACK" \in nn[p]
                 /\ current_tle_writes >= MaxEpochSize
    IN  /\ sub.pc = "net"
        /\ mod_rq_state(Submitter, r, local_rq_state[r], nn)
        /\ IF grown THEN start_new_tl_epoch ELSE UNCHANGED tleVars
        /\ sub' = [sub EXCEPT !.pc = IF req[r].kind = "flush" THEN "local" ELSE "add"]
        /\ UNCHANGED <<modRest, out_of_sync, dagtag_sector, prepared, snd, netVars, connVars,
                       diskVars>>

\* list_add_tail_rcu(&req->tl_requests, &resource->transfer_log)
AddToLog ==
    /\ sub.pc = "add"
    /\ transfer_log' = transfer_log \cup {sub.req}
    /\ sub' = [sub EXCEPT !.pc = "ready"]
    /\ UNCHANGED <<req, bioVars, flagVars, refVars, next_write, tl_previous_write,
                   interval_done, retryVars, ptrVars, tleVars, out_of_sync, disk_state, susp,
                   owe, dagtag_sector, prepared, snd, netVars, connVars, diskVars>>

\* drbd_request_ready_for_net(); then tl_update_lock is released.
ReadyForNet ==
    LET nn == [p \in Peers |->
                 net_rq_state[sub.req][p]
                   \cup IF "PENDING" \in net_rq_state[sub.req][p] THEN {"READY"} ELSE {}]
    IN  /\ sub.pc = "ready"
        /\ mod_rq_state(Submitter, sub.req, local_rq_state[sub.req], nn)
        /\ sub' = [sub EXCEPT !.pc = "local"]
        /\ UNCHANGED <<modRest, tleVars, out_of_sync, dagtag_sector, prepared, snd, netVars,
                       connVars, diskVars>>

\* TO_BE_SUBMITTED, if there is a private bio
ToBeSubmitted ==
    /\ sub.pc = "local"
    /\ mod_local(Submitter, sub.req, {}, IF sub.local THEN {"LOCAL_PENDING"} ELSE {})
    /\ sub' = [sub EXCEPT !.pc = "put"]
    /\ UNCHANGED <<out_of_sync, dagtag_sector, prepared, snd, netVars, connVars, diskVars>>

\* out: the submitter puts its own reference, and submits the private bio
SubmitDone ==
    /\ sub.pc = "put"
    /\ owe' = [owe EXCEPT ![Submitter] = [Idle EXCEPT !.ph = "compl", !.req = sub.req,
                                                      !.c = {<<"submit", 0>>}]]
    /\ disk_io' = IF sub.local THEN disk_io \cup {sub.req} ELSE disk_io
    /\ sub' = SubIdle
    /\ UNCHANGED <<req, bioVars, flagVars, refVars, logVars, retryVars, ptrVars, tleVars,
                   out_of_sync, disk_state, susp, dagtag_sector, prepared, snd, netVars,
                   connVars, abort, ldata>>

\* do_retry(): put the done reference kept for the completion, and feed the
\* master bio into __drbd_make_request() again.
do_retry(r) ==
    /\ r \in retry_writes /\ CanMod(RetryWorker)
    /\ retry_writes' = retry_writes \ {r}
    /\ owe' = [owe EXCEPT ![RetryWorker] = StartWalk(Idle, r, {<<"compl", 0>>}, {})]
    /\ bio_status' = [bio_status EXCEPT ![master_bio[r]] = "new"]
    /\ UNCHANGED <<req, master_bio, flagVars, refVars, logVars, suspended_reqs, ptrVars,
                   tleVars, out_of_sync, disk_state, susp, envVars>>

(***************************************************************************)
(* The local disk.                                                         *)
(***************************************************************************)
\* drbd_request_endio() with COMPLETED_OK.  (A successful completion of an
\* aborted request is answered with panic().)
EndIoOk(r) ==
    /\ r \in disk_io /\ CanMod(EndIo(r))
    /\ "LOCAL_ABORTED" \notin local_rq_state[r]
    /\ mod_local(EndIo(r), r, {"LOCAL_PENDING"}, {"LOCAL_COMPLETED", "LOCAL_OK"})
    /\ disk_io' = disk_io \ {r}
    /\ ldata' = IF req[r].kind = "write" THEN [ldata EXCEPT ![req[r].blk] = r] ELSE ldata
    /\ UNCHANGED <<out_of_sync, dagtag_sector, sub, prepared, snd, netVars, connVars, abort>>

\* ... with an error: drbd_handle_io_error() has detached the disk before.
EndIoError(r) ==
    /\ r \in disk_io /\ CanMod(EndIo(r)) /\ disk_state = "Failed"
    /\ mod_local(EndIo(r), r, {"LOCAL_PENDING"}, {"LOCAL_COMPLETED"})
    /\ disk_io' = disk_io \ {r}
    /\ out_of_sync' = IF req[r].kind = "read"
                      THEN [p \in Peers |-> out_of_sync[p] \cup {req[r].blk}]
                      ELSE out_of_sync
    /\ UNCHANGED <<dagtag_sector, sub, prepared, snd, netVars, connVars, abort, ldata>>

\* An IO error, or a forced detach, which has the worker call tl_abort_disk_io().
DiskFails ==
    /\ disk_state = "UpToDate" /\ budget.disk > 0 /\ CanChangeState
    /\ disk_state' = "Failed"
    /\ abort' = [abort EXCEPT !.pc = IF budget.force THEN "walk" ELSE "idle"]
    /\ budget' = [budget EXCEPT !.disk = @ - 1]
    /\ UNCHANGED <<req, bioVars, flagVars, refVars, logVars, retryVars, ptrVars, tleVars,
                   out_of_sync, susp, owe, dagtag_sector, sub, prepared, snd, netVars, cstate,
                   repl, rcv, rel, walks, disk_io, ldata>>

\* The last ldev reference is gone.
GoDiskless ==
    /\ disk_state = "Failed" /\ disk_io = {} /\ CanChangeState
    /\ \A q \in prepared : ~q.local
    /\ disk_state' = "Diskless"
    /\ UNCHANGED <<req, bioVars, flagVars, refVars, logVars, retryVars, ptrVars, tleVars,
                   out_of_sync, susp, owe, envVars>>

\* tl_abort_disk_io(): the flag is read without a lock ...
AbortCheck ==
    LET S == {r \in transfer_log : r > abort.req /\ "LOCAL_PENDING" \in local_rq_state[r]}
    IN  /\ abort.pc = "walk" /\ owe[AbortWorker] = Idle
        /\ "abort" \notin budget.races => StateUnlocked
        /\ abort' = IF S = {} THEN [pc |-> "idle", req |-> NoReq]
                    ELSE [pc |-> "mod", req |-> Min(S)]
        /\ UNCHANGED <<rsVars, dagtag_sector, sub, prepared, snd, netVars, connVars, disk_io,
                       ldata>>

\* ... and req_mod(req, ABORT_DISK_IO, NULL) follows, unless the request is gone.
AbortMod ==
    /\ abort.pc = "mod" /\ CanMod(AbortWorker)
    /\ IF abort.req \in transfer_log
       THEN mod_local(AbortWorker, abort.req, {}, {"LOCAL_ABORTED"}) /\ UNCHANGED out_of_sync
       ELSE UNCHANGED rsVars
    /\ abort' = [abort EXCEPT !.pc = "walk"]
    /\ UNCHANGED <<dagtag_sector, sub, prepared, snd, netVars, connVars, disk_io, ldata>>

(***************************************************************************)
(* The sender thread of a connection.                                      *)
(***************************************************************************)
SndInit == [pc |-> "idle", req |-> NoReq, seen_any_write_yet |-> FALSE,
            current_epoch_nr |-> 0, current_epoch_writes |-> 0, seen_dagtag |-> 0]

NextRequest(p) == IF req_next[p] # NoReq THEN req_next[p] ELSE NextOnLog(0, {q \in transfer_log : QueuedTo(p, q)})

\* tl_next_request_for_connection(connection, true) finds a request to send.
PickRequest(p) ==
    LET r == NextRequest(p)
    IN  /\ snd[p].pc = "idle" /\ rcv[p].pc = "run" /\ owe[Sender(p)] = Idle
        /\ r # NoReq /\ "READY" \in net_rq_state[r][p]
        /\ req_next' = [req_next EXCEPT ![p] = r]
        /\ snd' = [snd EXCEPT ![p].pc = "send", ![p].req = r, ![p].seen_dagtag = req[r].dagtag]
        /\ UNCHANGED <<req, bioVars, flagVars, refVars, logVars, retryVars, req_ack_pending,
                       req_not_net_done, tleVars, out_of_sync, disk_state, susp, owe,
                       dagtag_sector, sub, prepared, netVars, connVars, diskVars>>

\* drbd_sender() has nothing to send, and the epoch of the last write it sent
\* is not the current one.
ShouldSendBarrier(p, epoch) ==
    snd[p].seen_any_write_yet /\ snd[p].current_epoch_nr # epoch

IdleCheckEpoch(p) ==
    LET r == NextRequest(p)
    IN  /\ snd[p].pc = "idle" /\ rcv[p].pc = "run" /\ owe[Sender(p)] = Idle
        /\ r # NoReq => "READY" \notin net_rq_state[r][p]
        /\ ShouldSendBarrier(p, current_tle_nr)
        /\ req_next' = [req_next EXCEPT ![p] = r]
        /\ snd' = [snd EXCEPT ![p].pc = "barrier"]
        /\ UNCHANGED <<req, bioVars, flagVars, refVars, logVars, retryVars, req_ack_pending,
                       req_not_net_done, tleVars, out_of_sync, disk_state, susp, owe,
                       dagtag_sector, sub, prepared, netVars, connVars, diskVars>>

BarrierPacket(p) == [type |-> "barrier", nr |-> snd[p].current_epoch_nr,
                     req |-> NoReq]
\* maybe_send_barrier(): the packets and the state of the sender after it
BarrierIfDue(p, epoch) ==
    IF ShouldSendBarrier(p, epoch) /\ snd[p].current_epoch_writes > 0
    THEN <<BarrierPacket(p)>> ELSE <<>>
AfterBarrier(p, epoch) ==
    IF ShouldSendBarrier(p, epoch)
    THEN [snd[p] EXCEPT !.current_epoch_nr = epoch, !.current_epoch_writes = 0]
    ELSE snd[p]

\* Faults: the barrier is sent without looking at the dagtag, or never.
SeenNewest_always(p) == TRUE
SeenNewest_never(p) == snd[p].seen_dagtag > dagtag_sector
SeenNewest(p) == snd[p].seen_dagtag >= dagtag_sector

\* ... but a request of the old epoch may be on its way: send the barrier only
\* if the sender has seen the newest dagtag, or waits for an out-of-sync.
IdleSendBarrier(p) ==
    LET epoch == snd[p].current_epoch_nr + 1
        due == \/ SeenNewest(p)
               \/ req_next[p] # NoReq /\ "PENDING_OOS" \in net_rq_state[req_next[p]][p]
    IN  /\ snd[p].pc = "barrier"
        /\ wire' = IF due THEN [wire EXCEPT ![p] = @ \o BarrierIfDue(p, epoch)] ELSE wire
        /\ snd' = [snd EXCEPT ![p] =
                     [IF due THEN AfterBarrier(p, epoch) ELSE snd[p] EXCEPT !.pc = "idle"]]
        /\ UNCHANGED <<rsVars, dagtag_sector, sub, prepared, ctl, replies, peer, connVars,
                       diskVars>>

\* process_one_request(): a due barrier and the packet itself.  (P_OUT_OF_SYNC
\* only matters to the bitmap of the peer, and is left off the wire.)
ProcessOneRequest(p) ==
    LET r == snd[p].req
        data == "EXP_BARR_ACK" \in net_rq_state[r][p]
        epoch == req[r].epoch
        first == data /\ ~snd[p].seen_any_write_yet
        barrier == IF first THEN <<>> ELSE BarrierIfDue(p, epoch)
        packet == IF req[r].kind = "write" /\ ~data THEN <<>>
                  ELSE <<[type |-> req[r].kind, nr |-> epoch, req |-> r]>>
        after == IF first
                 THEN [snd[p] EXCEPT !.seen_any_write_yet = TRUE, !.current_epoch_nr = epoch,
                                     !.current_epoch_writes = 0]
                 ELSE AfterBarrier(p, epoch)
    IN  /\ snd[p].pc = "send"
        /\ wire' = [wire EXCEPT ![p] = @ \o barrier \o packet]
        /\ snd' = [snd EXCEPT ![p] =
                     [after EXCEPT !.pc = "sent",
                                   !.current_epoch_writes = @ + IF data THEN 1 ELSE 0]]
        /\ UNCHANGED <<rsVars, dagtag_sector, sub, prepared, ctl, replies, peer, connVars,
                       diskVars>>

\* HANDED_OVER_TO_NETWORK, or OOS_HANDED_TO_NETWORK
HandedOver(p) ==
    LET r == snd[p].req
        s == net_rq_state[r][p]
        oos == req[r].kind = "write" /\ "EXP_BARR_ACK" \notin s
        \* is_pending_write_protocol_A()
        protA == /\ req[r].kind = "write" /\ "PENDING" \in s
                 /\ s \cap {"EXP_WRITE_ACK", "EXP_RECEIVE_ACK"} = {}
    IN  /\ snd[p].pc = "sent" /\ CanMod(Sender(p))
        /\ IF oos THEN mod_net(Sender(p), r, p, {"PENDING_OOS", "QUEUED"}, {})
           ELSE IF protA THEN mod_net(Sender(p), r, p, {"QUEUED", "PENDING"}, {"SENT", "OK"})
           ELSE mod_net(Sender(p), r, p, {"QUEUED"}, {"SENT"})
        /\ snd' = [snd EXCEPT ![p].pc = "idle", ![p].req = NoReq]
        /\ UNCHANGED <<dagtag_sector, sub, prepared, netVars, connVars, diskVars>>

\* Sending fails on a broken connection (SEND_FAILED), or the stopping sender
\* cancels what is still queued, ready or not (SEND_CANCELED).
SendCanceled(p) ==
    LET r == IF snd[p].pc = "send" THEN snd[p].req ELSE NextRequest(p)
    IN  /\ cstate[p] = "down" /\ r # NoReq /\ CanMod(Sender(p))
        /\ \/ snd[p].pc = "send"
           \/ snd[p].pc = "idle" /\ rcv[p].pc = "stop"
        /\ LET nn == [net_rq_state[r] EXCEPT ![p] = @ \ {"PENDING_OOS", "QUEUED"}]
           IN  mod_rq_state(Sender(p), r, local_rq_state[r], nn)
        /\ req_next' = [req_next EXCEPT ![p] = r]
        /\ snd' = [snd EXCEPT ![p].pc = "idle", ![p].req = NoReq, ![p].seen_dagtag = req[r].dagtag]
        /\ UNCHANGED <<req, bioVars, logVars, retryVars, disk_state, susp, tleVars,
                       out_of_sync, dagtag_sector, sub, prepared, netVars, connVars, diskVars>>

(***************************************************************************)
(* The peer.                                                               *)
(***************************************************************************)
Ack(type, r) == [type |-> type, req |-> r, nr |-> 0, size |-> 0]

\* What the peer still sends on a connection that is lost does not arrive.
SendAck(p, cond, m) ==
    ctl' = IF cond /\ cstate[p] = "connected" THEN [ctl EXCEPT ![p] = Append(@, m)] ELSE ctl

\* receive_Data(): a write joins the current epoch; with protocol B it is
\* acknowledged now.
PeerReceive(p) ==
    LET m == Head(wire[p])
    IN  /\ wire[p] # <<>> /\ m.type = "write"
        /\ peer' = [peer EXCEPT ![p].active = @ \cup {m.req}, ![p].size = @ + 1]
        /\ SendAck(p, Proto[p] = "B", Ack("recv", m.req))
        /\ wire' = [wire EXCEPT ![p] = Tail(@)]
        /\ UNCHANGED <<rsVars, dagtag_sector, sub, prepared, snd, replies, connVars, diskVars>>

\* A write completes on the peer, after the older ones to the same block
\* (e_end_block()): P_WRITE_ACK, during a resync of the block with "in sync",
\* or P_NEG_ACK.
PeerWrite(p, r, result) ==
    /\ r \in peer[p].active
    /\ \A q \in peer[p].active : req[q].blk = req[r].blk => r <= q
    /\ result = "neg" => budget.neg > 0
    /\ result = "sis" => req[r].blk \in out_of_sync[p]
    /\ peer' = [peer EXCEPT ![p].active = @ \ {r}, ![p].failed = @ \/ result = "neg",
                            ![p].data[req[r].blk] = IF result = "neg" THEN @ ELSE r]
    /\ SendAck(p, result = "neg" \/ Proto[p] = "C", Ack(result, r))
    /\ budget' = [budget EXCEPT !.neg = @ - IF result = "neg" THEN 1 ELSE 0]
    /\ UNCHANGED <<rsVars, dagtag_sector, sub, prepared, snd, wire, replies, cstate, repl,
                   rcv, rel, walks, diskVars>>

\* receive_Barrier(): acknowledged when the writes of the epoch are finished.
PeerBarrier(p) ==
    LET m == Head(wire[p])
    IN  /\ wire[p] # <<>> /\ m.type = "barrier" /\ peer[p].active = {}
        /\ SendAck(p, TRUE, [type |-> "barrier", req |-> NoReq, nr |-> m.nr, size |-> peer[p].size])
        /\ peer' = [peer EXCEPT ![p].size = 0]
        /\ wire' = [wire EXCEPT ![p] = Tail(@)]
        /\ UNCHANGED <<rsVars, dagtag_sector, sub, prepared, snd, replies, connVars, diskVars>>

\* receive_DataRequest(): the data, or P_NEG_DREPLY
PeerRead(p, type) ==
    LET m == Head(wire[p])
    IN  /\ wire[p] # <<>> /\ m.type = "read"
        /\ type = "negdata" => budget.neg > 0
        /\ replies' = [replies EXCEPT ![p] = Append(@, Ack(type, m.req))]
        /\ wire' = [wire EXCEPT ![p] = Tail(@)]
        /\ budget' = [budget EXCEPT !.neg = @ - IF type = "negdata" THEN 1 ELSE 0]
        /\ UNCHANGED <<rsVars, dagtag_sector, sub, prepared, snd, ctl, peer, cstate, repl, rcv,
                       rel, walks, diskVars>>

(***************************************************************************)
(* Acknowledgements: got_BlockAck(), got_NegAck(), got_BarrierAck(),       *)
(* receive_DataReply(), got_NegDReply().                                   *)
(***************************************************************************)
AckHead(p, types) ==
    /\ ctl[p] # <<>> /\ Head(ctl[p]).type \in types
    /\ rel[p] = NoRel /\ CanMod(AckReceiver(p))

DropAck(p) == ctl' = [ctl EXCEPT ![p] = Tail(@)]

\* find_request() looks the block id up in device->requests.
GotBlockAck(p) ==
    LET m == Head(ctl[p])
    IN  /\ AckHead(p, {"write", "sis", "recv"})
        /\ InIntervalTree(m.req)
        /\ mod_net(AckReceiver(p), m.req, p, {"PENDING"},
                   {"OK"} \cup IF m.type = "sis" THEN {"SIS"} ELSE {})
        /\ DropAck(p)
        /\ UNCHANGED <<dagtag_sector, sub, prepared, snd, wire, replies, peer, connVars, diskVars>>

GotNegAck(p) ==
    LET r == Head(ctl[p]).req
    IN  /\ AckHead(p, {"neg"})
        /\ IF InIntervalTree(r)
           THEN mod_net(AckReceiver(p), r, p, {"OK", "PENDING"}, {})
           ELSE /\ out_of_sync' = [out_of_sync EXCEPT ![p] = @ \cup {req[r].blk}]
                /\ UNCHANGED <<modRest, flagVars, refVars, req_ack_pending, req_not_net_done,
                               tleVars, owe>>
        /\ DropAck(p)
        /\ UNCHANGED <<dagtag_sector, sub, prepared, snd, wire, replies, peer, connVars, diskVars>>

(***************************************************************************)
(* tl_release(): the oldest write not yet barrier-acked, and the writes of *)
(* its epoch that the ack has to account for.                              *)
(***************************************************************************)
OldestNotDone(p) ==
    LET S == {r \in transfer_log : /\ r >= req_not_net_done[p]
                                   /\ "WRITE" \in local_rq_state[r] /\ NotDoneTo(p, r)}
    IN  IF req_not_net_done[p] = NoReq \/ S = {} THEN NoReq ELSE Min(S)

\* Fault: goes on into the next epoch.
EpochMembers_beyond(p) ==
    LET o == OldestNotDone(p)
    IN  {o} \cup {r \in transfer_log : r > o /\ "WRITE" \in local_rq_state[r]
                                       /\ "EXP_BARR_ACK" \in net_rq_state[r][p]}

EpochMembers(p) ==
    LET o == OldestNotDone(p)
    IN  {o} \cup {r \in transfer_log :
                    /\ r > o /\ req[r].epoch = req[o].epoch /\ "WRITE" \in local_rq_state[r]
                    /\ net_rq_state[r][p] \cap NET_MASK = {}
                         \/ "EXP_BARR_ACK" \in net_rq_state[r][p]}

BarrierAckExpected(p, m) ==
    /\ OldestNotDone(p) # NoReq
    /\ req[OldestNotDone(p)].epoch = m.nr
    /\ Cardinality(EpochMembers(p)) = m.size

GotBarrierAck(p) ==
    /\ AckHead(p, {"barrier"}) /\ BarrierAckExpected(p, Head(ctl[p]))
    /\ rel' = [rel EXCEPT ![p] = [epoch |-> Head(ctl[p]).nr, pos |-> OldestNotDone(p)]]
    /\ DropAck(p)
    /\ UNCHANGED <<rsVars, dagtag_sector, sub, prepared, snd, wire, replies, peer, cstate, repl,
                   rcv, walks, budget, diskVars>>

\* req_mod(req, BARRIER_ACKED, peer_device) for the next request of the epoch
BarrierAckedTargets(p) ==
    {r \in transfer_log : /\ r >= rel[p].pos /\ req[r].epoch = rel[p].epoch
                          /\ "WRITE" \in local_rq_state[r]
                          /\ net_rq_state[r][p] \cap NET_MASK # {}}

BarrierAcked(p) ==
    LET S == BarrierAckedTargets(p)
        r == Min(S)
    IN  /\ rel[p] # NoRel /\ CanMod(AckReceiver(p))
        /\ IF S = {} THEN rel' = [rel EXCEPT ![p] = NoRel] /\ UNCHANGED rsVars
           ELSE /\ rel' = [rel EXCEPT ![p].pos = r + 1]
                /\ IF "PENDING" \in net_rq_state[r][p]
                   THEN mod_net(AckReceiver(p), r, p, {"PENDING"}, {"OK", "DONE"})
                   ELSE mod_net(AckReceiver(p), r, p, {}, {"DONE"})
        /\ UNCHANGED <<dagtag_sector, sub, prepared, snd, netVars, cstate, repl, rcv, walks,
                       budget, diskVars>>

\* DATA_RECEIVED, or NEG_ACKED for a read
GotReadReply(p) ==
    LET m == Head(replies[p])
    IN  /\ replies[p] # <<>> /\ rcv[p].pc = "run" /\ CanMod(Receiver(p))
        /\ "reply" \notin budget.races => "QUEUED" \notin net_rq_state[m.req][p]
        /\ IF m.type = "data"
           THEN mod_net(Receiver(p), m.req, p, {"PENDING"}, {"OK", "DONE"})
           ELSE mod_net(Receiver(p), m.req, p, {"OK", "PENDING"}, {"DONE"})
        /\ replies' = [replies EXCEPT ![p] = Tail(@)]
        /\ UNCHANGED <<dagtag_sector, sub, prepared, snd, wire, ctl, peer, connVars, diskVars>>

(***************************************************************************)
(* Connection loss: a state change, then conn_disconnect().                *)
(***************************************************************************)
\* finish_state_change() starts a new epoch when it starts or stops to
\* replicate to a peer.
EpochIfModeChanges(p, mode) ==
    IF (repl[p] = "remote") # (mode = "remote") THEN start_new_tl_epoch ELSE UNCHANGED tleVars

\* An ack that tl_release() or find_request() rejects ends the connection.
AckRejected(p) ==
    /\ AckHead(p, {"write", "sis", "recv", "barrier"})
    /\ IF Head(ctl[p]).type = "barrier" THEN ~BarrierAckExpected(p, Head(ctl[p]))
       ELSE ~InIntervalTree(Head(ctl[p]).req)

LoseConnection(p) ==
    /\ cstate[p] = "connected" /\ CanChangeState
    /\ budget.loss > 0 \/ AckRejected(p)
    /\ budget' = IF AckRejected(p) THEN budget ELSE [budget EXCEPT !.loss = @ - 1]
    /\ cstate' = [cstate EXCEPT ![p] = "down"]
    /\ repl' = [repl EXCEPT ![p] = "none"]
    /\ EpochIfModeChanges(p, "none")
    /\ susp' = (susp \/ budget.suspend)
    /\ rcv' = [rcv EXCEPT ![p].pc = "stop"]
    /\ UNCHANGED <<req, bioVars, flagVars, refVars, logVars, retryVars, ptrVars, out_of_sync,
                   disk_state, owe, dagtag_sector, sub, prepared, snd, netVars, rel, walks,
                   diskVars>>

\* The sender has stopped; the transport is shut down, and tl_walk() starts.
ShutDown(p) ==
    /\ rcv[p].pc = "stop" /\ StateUnlocked
    /\ snd[p].pc = "idle" /\ NextRequest(p) = NoReq /\ rel[p] = NoRel
    /\ \A a \in {Sender(p), AckReceiver(p), Receiver(p)} : owe[a] = Idle
    /\ wire' = [wire EXCEPT ![p] = <<>>]
    /\ ctl' = [ctl EXCEPT ![p] = <<>>]
    /\ replies' = [replies EXCEPT ![p] = <<>>]
    /\ rcv' = [rcv EXCEPT ![p] = [pc |-> "walk", pos |-> req_not_net_done[p], susp |-> susp]]
    /\ UNCHANGED <<rsVars, dagtag_sector, sub, prepared, snd, peer, cstate, repl, rel, walks,
                   budget, diskVars>>

\* CONNECTION_LOST, or CONNECTION_LOST_WHILE_SUSPENDED
LostTargets(p) ==
    {r \in transfer_log :
       /\ r >= rcv[p].pos /\ NotDoneTo(p, r)
       /\ \/ ~rcv[p].susp
          \/ net_rq_state[r][p] \cap {"EXP_RECEIVE_ACK", "EXP_WRITE_ACK"} = {}
          \/ "PENDING" \in net_rq_state[r][p]}

ConnectionLost(p) ==
    LET S == LostTargets(p)
        r == Min(S)
        keep == /\ rcv[p].susp
                /\ net_rq_state[r][p] \cap {"EXP_RECEIVE_ACK", "EXP_WRITE_ACK"} # {}
    IN  /\ rcv[p].pc = "walk" /\ S # {} /\ CanMod(Receiver(p))
        /\ IF keep
           THEN mod_local(Receiver(p), r, {}, {"COMPLETION_SUSP"}) /\ UNCHANGED out_of_sync
           ELSE mod_net(Receiver(p), r, p, {"PENDING", "OK"}, {"DONE"})
        /\ rcv' = [rcv EXCEPT ![p].pos = r + 1]
        /\ UNCHANGED <<dagtag_sector, sub, prepared, snd, netVars, cstate, repl, rel, walks,
                       budget, diskVars>>

DisconnectDone(p) ==
    /\ rcv[p].pc = "walk" /\ LostTargets(p) = {} /\ owe[Receiver(p)] = Idle
    /\ snd' = [snd EXCEPT ![p].seen_any_write_yet = FALSE]
    /\ rcv' = [rcv EXCEPT ![p].pc = "off"]
    /\ UNCHANGED <<rsVars, dagtag_sector, sub, prepared, netVars, cstate, repl, rel, walks,
                   budget, diskVars>>

(***************************************************************************)
(* Other state changes, with the walks of finish_state_change().           *)
(***************************************************************************)
ConnWalk(what, p) == [what |-> what, peer |-> p, pos |-> req_not_net_done[p]]
ResumedWalk == [what |-> "COMPLETION_RESUMED", peer |-> 0, pos |-> NoReq]

\* The walks when the peers of S connect, with a RESEND or with a resync, and
\* IO is resumed or stays suspended.
WalksOf(S, event, resumed) ==
    {ConnWalk(event, p) : p \in S}
      \cup IF resumed
           THEN {ConnWalk("CANCEL_SUSPENDED_IO", p) :
                   p \in {q \in Peers \ S : cstate[q] = "down"}} \cup {ResumedWalk}
           ELSE {}

\* drbd_restart_suspended_reqs()
RestartSuspended(resumed) ==
    IF resumed THEN retry_writes' = retry_writes \cup suspended_reqs /\ suspended_reqs' = {}
    ELSE UNCHANGED retryVars

ResumeWindow == "resume" \notin budget.races => \A p \in Peers : rcv[p].pc \in {"run", "off"}

\* A peer whose disk failed a write is no longer UpToDate, and comes back with
\* a resync.
Reconnect(p, mode, resume) ==
    /\ p \in budget.peers /\ rcv[p].pc = "off" /\ peer[p].active = {} /\ CanChangeState
    /\ peer[p].failed => mode # "remote"
    /\ resume => susp /\ ResumeWindow
    /\ cstate' = [cstate EXCEPT ![p] = "connected"]
    /\ repl' = [repl EXCEPT ![p] = mode]
    /\ EpochIfModeChanges(p, mode)
    /\ rcv' = [rcv EXCEPT ![p] = [pc |-> "run", pos |-> NoReq, susp |-> FALSE]]
    /\ peer' = [peer EXCEPT ![p].size = 0]
    /\ susp' = (susp /\ ~resume)
    /\ walks' = IF ~susp THEN {}
                ELSE WalksOf({p}, IF mode = "remote" THEN "RESEND" ELSE "CANCEL_SUSPENDED_IO",
                             resume)
    /\ RestartSuspended(resume)
    /\ UNCHANGED <<req, bioVars, flagVars, refVars, logVars, ptrVars, out_of_sync, disk_state,
                   owe, dagtag_sector, sub, prepared, snd, wire, ctl, replies, rel, budget,
                   diskVars>>

Resume ==
    /\ susp /\ CanChangeState /\ ResumeWindow
    /\ susp' = FALSE
    /\ walks' = WalksOf({}, "CANCEL_SUSPENDED_IO", TRUE)
    /\ RestartSuspended(TRUE)
    /\ UNCHANGED <<req, bioVars, flagVars, refVars, logVars, ptrVars, tleVars, out_of_sync,
                   disk_state, owe, dagtag_sector, sub, prepared, snd, netVars, cstate, repl,
                   rcv, rel, budget, diskVars>>

\* The peer attaches or detaches its disk, or we pull ahead of it.
ChangeMode(p, mode) ==
    /\ cstate[p] = "connected" /\ mode # repl[p] /\ budget.mode > 0 /\ CanChangeState
    /\ repl' = [repl EXCEPT ![p] = mode]
    /\ EpochIfModeChanges(p, mode)
    /\ budget' = [budget EXCEPT !.mode = @ - 1]
    /\ UNCHANGED <<req, bioVars, flagVars, refVars, logVars, retryVars, ptrVars, out_of_sync,
                   disk_state, susp, owe, dagtag_sector, sub, prepared, snd, netVars, cstate,
                   rcv, rel, walks, diskVars>>

\* Fault: RESEND leaves alone what the peer has acknowledged.
WalkTargets_acked(w) ==
    {r \in transfer_log :
       /\ r >= w.pos
       /\ CASE w.what = "COMPLETION_RESUMED" -> "COMPLETION_SUSP" \in local_rq_state[r]
            [] w.what = "CANCEL_SUSPENDED_IO" -> NotDoneTo(w.peer, r)
            [] w.what = "RESEND" -> "PENDING" \in net_rq_state[r][w.peer]}

\* The requests a walk still has an effect on.
WalkTargets(w) ==
    {r \in transfer_log :
       /\ r >= w.pos
       /\ CASE w.what = "COMPLETION_RESUMED" -> "COMPLETION_SUSP" \in local_rq_state[r]
            [] w.what = "CANCEL_SUSPENDED_IO" -> NotDoneTo(w.peer, r)
            [] w.what = "RESEND" ->
                 LET s == net_rq_state[r][w.peer]
                 IN  IF "OK" \in s THEN "WRITE" \in local_rq_state[r] /\ "DONE" \notin s
                     ELSE "PENDING" \in s}

WalkEvent(w, r) ==
    CASE w.what = "COMPLETION_RESUMED" ->
            mod_local(StateChange, r, {"COMPLETION_SUSP"}, {}) /\ UNCHANGED out_of_sync
      [] w.what = "CANCEL_SUSPENDED_IO" ->
            mod_net(StateChange, r, w.peer, {"PENDING", "OK"}, {"DONE"})
      [] OTHER ->  \* RESEND
            IF "OK" \in net_rq_state[r][w.peer]
            THEN mod_net(StateChange, r, w.peer, {"PENDING"}, {"DONE"})
            ELSE mod_net(StateChange, r, w.peer, {"SENT"}, {"QUEUED"})

\* __tl_walk() over all connections, then over the whole log.
StateWalk(w) ==
    LET S == WalkTargets(w)
        r == Min(S)
    IN  /\ w \in walks /\ owe[StateChange] = Idle
        /\ w.what = "COMPLETION_RESUMED" => walks = {w}
        /\ IF S = {} THEN walks' = walks \ {w} /\ UNCHANGED rsVars
           ELSE walks' = (walks \ {w}) \cup {[w EXCEPT !.pos = r + 1]} /\ WalkEvent(w, r)
        /\ UNCHANGED <<dagtag_sector, sub, prepared, snd, netVars, cstate, repl, rcv, rel,
                       budget, diskVars>>

(***************************************************************************)
(* The specification.                                                      *)
(***************************************************************************)
Init ==
    /\ req = [r \in Reqs |-> [kind |-> "unused", blk |-> CHOOSE k \in Blocks : TRUE,
                              epoch |-> 0, dagtag |-> 0]]
    /\ master_bio = [r \in Reqs |-> NoBio]
    /\ bio_status = [b \in Bios |-> "new"]
    /\ local_rq_state = [r \in Reqs |-> {}]
    /\ net_rq_state = [r \in Reqs |-> [p \in Peers |-> {}]]
    /\ completion_ref = [r \in Reqs |-> 0]
    /\ done_ref = [r \in Reqs |-> 0]
    /\ oos_send_ref = [r \in Reqs |-> 0]
    /\ transfer_log = {} /\ interval_done = {}
    /\ next_write = [r \in Reqs |-> NoReq]
    /\ tl_previous_write = NoReq
    /\ retry_writes = {} /\ suspended_reqs = {}
    /\ req_ack_pending = [p \in Peers |-> NoReq]
    /\ req_not_net_done = [p \in Peers |-> NoReq]
    /\ req_next = [p \in Peers |-> NoReq]
    /\ current_tle_nr = 0 /\ current_tle_writes = 0
    /\ out_of_sync = [p \in Peers |-> {}]
    /\ disk_state = "UpToDate" /\ susp = FALSE
    /\ owe = [a \in Actors |-> Idle]
    /\ dagtag_sector = 0
    /\ budget \in Scenarios
    /\ cstate = [p \in Peers |-> IF p \in budget.peers THEN "connected" ELSE "down"]
    /\ repl = [p \in Peers |-> IF p \in budget.peers THEN "remote" ELSE "none"]
    /\ sub = SubIdle /\ prepared = {} /\ disk_io = {}
    /\ snd = [p \in Peers |-> SndInit]
    /\ wire = [p \in Peers |-> <<>>]
    /\ ctl = [p \in Peers |-> <<>>]
    /\ replies = [p \in Peers |-> <<>>]
    /\ peer = [p \in Peers |-> [active |-> {}, size |-> 0, failed |-> FALSE,
                                data |-> [k \in Blocks |-> NoReq]]]
    /\ rel = [p \in Peers |-> NoRel]
    /\ rcv = [p \in Peers |-> [pc |-> IF p \in budget.peers THEN "run" ELSE "off",
                               pos |-> NoReq, susp |-> FALSE]]
    /\ walks = {}
    /\ abort = [pc |-> "idle", req |-> NoReq]
    /\ ldata = [k \in Blocks |-> NoReq]

SubmitStep ==
    \/ \E b \in budget.bios : PrepareRequest(b)
    \/ \E q \in prepared : SubmitRequest(q)
    \/ AssignEpoch \/ ProcessNet \/ AddToLog \/ ReadyForNet \/ ToBeSubmitted \/ SubmitDone
    \/ \E r \in Reqs : do_retry(r)

DiskStep ==
    \/ \E r \in Reqs : EndIoOk(r) \/ EndIoError(r)
    \/ GoDiskless \/ AbortCheck

SenderStep(p) ==
    PickRequest(p) \/ IdleCheckEpoch(p) \/ IdleSendBarrier(p) \/ ProcessOneRequest(p)
      \/ HandedOver(p) \/ SendCanceled(p)

PeerStep(p) ==
    \/ PeerReceive(p) \/ PeerBarrier(p) \/ PeerRead(p, "data") \/ PeerRead(p, "negdata")
    \/ \E r \in Reqs, result \in {"write", "sis", "neg"} : PeerWrite(p, r, result)

AckStep(p) == GotBlockAck(p) \/ GotNegAck(p) \/ GotBarrierAck(p) \/ BarrierAcked(p) \/ GotReadReply(p)

DisconnectStep(p) == ShutDown(p) \/ ConnectionLost(p) \/ DisconnectDone(p)

StateStep ==
    \/ \E w \in walks : StateWalk(w)
    \/ Resume \/ DiskFails
    \/ \E p \in Peers : LoseConnection(p)
    \/ \E p \in Peers, mode \in {"remote", "oos"}, resume \in BOOLEAN : Reconnect(p, mode, resume)
    \/ \E p \in Peers, mode \in Modes : ChangeMode(p, mode)

ProgressStep(a) == (Progress(a) \/ (LogUnlocked /\ UpdateLog(a))) /\ UNCHANGED envVars

\* The windows the scenario closes: threads that must not be interrupted.
InReqMod == "preempt" \notin budget.races /\ \E a \in AllActors : owe[a] # Idle
InSubmit == "preempt" \notin budget.races /\ sub.pc # "idle"
InAbort == "abort" \notin budget.races /\ abort.pc = "mod"

OtherStep ==
    \/ DiskStep \/ StateStep
    \/ \E p \in Peers : SenderStep(p) \/ PeerStep(p) \/ AckStep(p) \/ DisconnectStep(p)

Next ==
    \/ ~InReqMod /\ ~InAbort /\ SubmitStep
    \/ ~InReqMod /\ ~InAbort /\ ~InSubmit /\ OtherStep
    \/ AbortMod
    \/ \E a \in AllActors : ~InAbort /\ ProgressStep(a)

Spec == Init /\ [][Next]_vars

\* Every thread runs on, the disks and the peers answer, and what is sent on a
\* connection that stays up arrives.  Failures and state changes are never due.
Fairness ==
    /\ WF_vars(SubmitStep) /\ WF_vars(AbortCheck) /\ WF_vars(AbortMod)
    /\ WF_vars(\E w \in walks : StateWalk(w))
    /\ \A r \in Reqs : WF_vars(EndIoOk(r) \/ EndIoError(r))
    /\ \A p \in Peers : /\ WF_vars(SenderStep(p)) /\ WF_vars(PeerStep(p))
                        /\ WF_vars(AckStep(p)) /\ WF_vars(DisconnectStep(p))
    /\ \A a \in AllActors : WF_vars(ProgressStep(a))

FairSpec == Spec /\ Fairness

(***************************************************************************)
(* Properties.                                                             *)
(***************************************************************************)
Ptrs == Reqs \cup {NoReq}
TypeOK ==
    /\ req \in [Reqs -> [kind : {"unused", "write", "read", "flush"}, blk : Blocks,
                         epoch : Nat, dagtag : Nat]]
    /\ master_bio \in [Reqs -> Bios \cup {NoBio}]
    /\ bio_status \in [Bios -> {"new", "active", "ok", "error"}]
    /\ local_rq_state \in [Reqs -> SUBSET LocalFlags]
    /\ net_rq_state \in [Reqs -> [Peers -> SUBSET NetFlags]]
    /\ \A ref \in {completion_ref, done_ref, oos_send_ref} : ref \in [Reqs -> Nat]
    /\ transfer_log \subseteq Reqs /\ interval_done \subseteq Reqs
    /\ retry_writes \subseteq Reqs /\ suspended_reqs \subseteq Reqs
    /\ next_write \in [Reqs -> Ptrs] /\ tl_previous_write \in Ptrs
    /\ \A ptr \in {req_ack_pending, req_not_net_done, req_next} : ptr \in [Peers -> Ptrs]
    /\ current_tle_nr \in Nat /\ current_tle_writes \in Nat /\ dagtag_sector \in Nat
    /\ out_of_sync \in [Peers -> SUBSET Blocks]
    /\ disk_state \in {"UpToDate", "Failed", "Diskless"} /\ susp \in BOOLEAN
    /\ cstate \in [Peers -> {"connected", "down"}] /\ repl \in [Peers -> Modes]
    /\ disk_io \subseteq Reqs /\ ldata \in [Blocks -> Ptrs]

\* Who holds a completion reference: the submitter, the local IO, a suspended
\* completion, each peer that owes an answer, each sender that still reads the
\* master bio, and every thread that is about to put one.
CompletionHolders(r, busy) ==
    LET l == local_rq_state[r]
        n == net_rq_state[r]
    IN  TokenIf(sub.req = r, "submit")
          \cup TokenIf("LOCAL_PENDING" \in l /\ "LOCAL_ABORTED" \notin l, "local")
          \cup TokenIf("COMPLETION_SUSP" \in l, "susp")
          \cup Tokens("pending", {p \in Peers : "PENDING" \in n[p]})
          \cup Tokens("send", {p \in Peers : NeedsMasterBio(n[p])})
          \cup UNION {owe[a].c : a \in {x \in busy : owe[x].req = r}}

OwedDone(r, busy) ==
    UNION {(IF owe[a].cur = r THEN owe[a].cd ELSE {})
             \cup IF owe[a].req = r THEN owe[a].d ELSE {} : a \in busy}
OwedOos(r, busy) ==
    UNION {(IF owe[a].cur = r THEN owe[a].co ELSE {})
             \cup IF owe[a].req = r THEN owe[a].o ELSE {} : a \in busy}

\* The thread that found w done has not passed that on to the next write yet.
DoneNotPassedOn(w) ==
    /\ w \notin interval_done
    /\ w \in transfer_log \/ \E a \in AllActors : owe[a].ph = "link" /\ owe[a].cur = w /\ owe[a].done

\* Who holds a done reference: the completion, each peer whose barrier ack is
\* missing, and the previous write as long as it is not done.
DoneHolders(r, busy) ==
    TokenIf(IF "LOCAL_ABORTED" \in local_rq_state[r] THEN "LOCAL_PENDING" \in local_rq_state[r]
            ELSE completion_ref[r] > 0 \/ r \in retry_writes \cup suspended_reqs, "compl")
      \cup Tokens("barr", {p \in Peers : "EXP_BARR_ACK" \in net_rq_state[r][p]
                                          /\ "DONE" \notin net_rq_state[r][p]})
      \cup TokenIf(\E w \in Reqs : next_write[w] = r /\ DoneNotPassedOn(w), "prev")
      \cup OwedDone(r, busy)

\* Who keeps a request on the transfer log: it is not done, a sender has it
\* queued, or the previous write is still there.
OosHolders(r, busy) ==
    TokenIf(done_ref[r] > 0, "done")
      \cup Tokens("queued", {p \in Peers : "QUEUED" \in net_rq_state[r][p]})
      \cup TokenIf(\E w \in transfer_log : next_write[w] = r, "prev")
      \cup OwedOos(r, busy)

\* The three reference counts of a request are at all times the number of
\* their holders, whatever threads are halfway through mod_rq_state() or
\* drbd_put_ref_tl_walk(): no reference is leaked, and none is put twice.
RefsMatchHolders ==
    \E busy \in {{a \in AllActors : owe[a] # Idle}} : \A r \in Allocated :
      /\ completion_ref[r] = Cardinality(CompletionHolders(r, busy))
      /\ done_ref[r] = Cardinality(DoneHolders(r, busy))
      /\ oos_send_ref[r] = Cardinality(OosHolders(r, busy))

\* None of the "Logic BUG" branches of drbd_req_complete() and drbd_req_done()
\* is ever taken: the last completion reference is only put when nothing still
\* needs the master bio, the last done reference only when every peer is done
\* and the bio was completed.
NoLogicBug ==
    \A a \in AllActors :
      LET w == owe[a]
      IN  /\ w.ph = "compl" /\ w.c # {} /\ completion_ref[w.req] = Cardinality(w.c)
               => ~CompleteBug(w.req)
          /\ w.ph = "putd" /\ w.cd # {} /\ done_ref[w.cur] = Cardinality(w.cd)
               => ~DoneBug(w.cur)

\* The combinations of net flags that drbd_req.h documents (core flags).
CoreFlags == {"PENDING", "QUEUED", "READY", "SENT", "DONE", "OK", "PENDING_OOS"}
LegalNetStates ==
    {{}, {"PENDING", "QUEUED"}, {"PENDING", "QUEUED", "READY"}, {"PENDING", "READY", "SENT"},
     {"QUEUED", "READY", "OK"}, {"READY", "SENT", "OK"}, {"PENDING"}, {"PENDING", "READY"},
     {"READY", "SENT", "DONE", "OK"}, {"READY", "SENT", "DONE"},
     {"PENDING_OOS", "QUEUED", "DONE"}, {"PENDING_OOS", "QUEUED", "READY", "DONE"},
     {"QUEUED", "READY", "DONE"}, {"DONE"}, {"READY", "DONE"}}
NetStateLegal ==
    \A r \in Reqs, p \in Peers : net_rq_state[r][p] \cap CoreFlags \in LegalNetStates

\* A request that went through drbd_send_and_submit() to disk or network.
Submitted(r) == r \in Allocated /\ r # sub.req
                  /\ (local_rq_state[r] \cap LOCAL_MASK # {} \/ \E p \in Peers : net_rq_state[r][p] # {})

\* Every acknowledgement that arrives on an undisturbed connection is one that
\* find_request() and tl_release() accept: the block acks name requests that
\* are still there, and a barrier ack has the number and the size of the oldest
\* open epoch.
AcksAreExpected == \A p \in Peers : cstate[p] = "connected" => ~AckRejected(p)

\* A sender never closes an epoch too early: while a write is still to be sent
\* to a peer, no barrier for its epoch has been sent on that connection, even
\* if the write is just being submitted by another thread.
NoBarrierBeforeData ==
    \A p \in Peers, r \in Reqs :
      NeedsMasterBio(net_rq_state[r][p]) /\ "EXP_BARR_ACK" \in net_rq_state[r][p]
          /\ snd[p].seen_any_write_yet
        => req[r].epoch >= snd[p].current_epoch_nr

\* Once a write is completed to the upper layers, its epoch is closed: a write
\* that depends on it belongs to a later epoch on every peer.
CompletedEpochClosed ==
    \A r \in Reqs : Submitted(r) /\ req[r].kind = "write" /\ master_bio[r] = NoBio
      => req[r].epoch < current_tle_nr

\* When no write to a block is in flight, the block is the same on both disks,
\* or is marked in the bitmap for that peer.
BitmapCoversDifferences ==
    \A p \in Peers, k \in Blocks :
      disk_state = "UpToDate" /\ ldata[k] # peer[p].data[k]
          /\ ~(\E r \in Reqs : InIntervalTree(r) /\ req[r].blk = k)
        => k \in out_of_sync[p]

\* Writes are finished (their bits settled, then off the transfer log) in the
\* order of submission, however their acks arrive.
WritesFinishInOrder ==
    \A r, q \in Reqs :
      r < q /\ Submitted(r) /\ Submitted(q) /\ req[r].kind = "write" /\ req[q].kind = "write"
        => /\ done_ref[q] = 0 => done_ref[r] = 0
           /\ oos_send_ref[q] = 0 => oos_send_ref[r] = 0

\* No bio is lost: as long as it is not completed, it is queued for submission
\* or retry, or some request still has completion references for it.
NoBioLost ==
    \A b \in Bios : bio_status[b] = "active" =>
      \/ \E q \in prepared : q.bio = b
      \/ \E r \in Reqs : /\ master_bio[r] = b
                         /\ completion_ref[r] > 0 \/ r \in retry_writes \cup suspended_reqs

\* Every bio that enters drbd is completed eventually.
EveryBioCompletes ==
    \A b \in Bios : bio_status[b] = "active" ~> bio_status[b] \in {"ok", "error"}

\* Every request leaves the transfer log eventually: the sender that finds
\* nothing to send closes the last epoch with a barrier.
LogDrains == \A r \in Reqs : r \in transfer_log ~> r \notin transfer_log

\* A master bio is completed at most once.
BioCompletedOnce ==
    [][\A b \in Bios : bio_status[b] \in {"ok", "error"} => bio_status'[b] = bio_status[b]]_vars

(***************************************************************************)
(* The inductive invariant behind CompletedEpochClosed.                    *)
(***************************************************************************)
\* AssignEpoch has been there; for a write the dagtag tells.
HasEpoch(r) ==
    \/ req[r].kind \in {"read", "flush"}
    \/ req[r].kind = "write" /\ req[r].dagtag > 0
Known == {r \in Reqs : HasEpoch(r)}

Token == {"submit", "local", "susp", "pending", "send", "compl", "barr", "prev", "done", "queued"}
           \X (Peers \cup {0})
Packets == [type : {"write", "read", "flush"}, nr : Int, req : Known]
             \cup [type : {"barrier"}, nr : Int, req : {NoReq}]
Acks == [type : {"write", "sis", "recv", "neg"}, req : Known, nr : Int, size : Int]
          \cup [type : {"barrier"}, req : {NoReq}, nr : Int, size : Int]
Answers == [type : {"data", "negdata"}, req : Known, nr : Int, size : Int]

\* The types that the argument needs.
ShapeInv ==
    /\ req \in [Reqs -> [kind : {"unused", "write", "read", "flush"}, blk : Blocks,
                         epoch : Nat, dagtag : Nat]]
    /\ master_bio \in [Reqs -> Bios \cup {NoBio}]
    /\ local_rq_state \in [Reqs -> SUBSET LocalFlags]
    /\ net_rq_state \in [Reqs -> [Peers -> SUBSET NetFlags]]
    /\ current_tle_nr \in Nat /\ current_tle_writes \in Nat /\ dagtag_sector \in Nat
    /\ next_write \in [Reqs -> Ptrs] /\ retry_writes \subseteq Reqs /\ suspended_reqs \subseteq Reqs
    /\ owe \in [Actors -> [ph : {"idle", "adv", "compl", "putd", "puto", "link"}, req : Ptrs,
                           adv : SUBSET ({"ack", "next", "done"} \X Peers),
                           c : SUBSET Token, d : SUBSET Token, o : SUBSET Token, cur : Ptrs,
                           cd : SUBSET Token, co : SUBSET Token, done : BOOLEAN, sent : BOOLEAN]]
    /\ sub \in [pc : {"idle", "epoch", "net", "add", "ready", "local", "put"}, bio : Bios \cup {NoBio},
                req : Ptrs, local : BOOLEAN, rpeer : SUBSET Peers]
    /\ prepared \subseteq [bio : Bios, local : BOOLEAN]
    /\ budget \in [peers : SUBSET Peers, bios : SUBSET Bios, reqs : 0 .. MaxReqs, loss : Int,
                   mode : Int, disk : Int, neg : Int, force : BOOLEAN, suspend : BOOLEAN,
                   races : SUBSET {"preempt", "resume", "abort", "reply"}]

\* Whatever the transfer log, the senders, the disk and the connections refer to
\* has its epoch: no thread meets a request before AssignEpoch.
MentionInv ==
    /\ transfer_log \subseteq Known /\ disk_io \subseteq Known
    /\ req_next \in [Peers -> Known \cup {NoReq}]
    /\ wire \in [Peers -> Seq(Packets)]
    /\ ctl \in [Peers -> Seq(Acks)]
    /\ replies \in [Peers -> Seq(Answers)]
    /\ peer \in [Peers -> [active : SUBSET Known, size : Int, failed : BOOLEAN,
                           data : [Blocks -> Ptrs]]]
    /\ snd \in [Peers -> [pc : {"idle", "barrier", "send", "sent"}, req : Known \cup {NoReq},
                          seen_any_write_yet : BOOLEAN, current_epoch_nr : Int,
                          current_epoch_writes : Int, seen_dagtag : Int]]
    /\ \A p \in Peers : snd[p].pc \in {"send", "sent"} => snd[p].req # NoReq

\* Requests are allocated one after the other, and there is room for the prepared ones.
AllocInv ==
    /\ Allocated = 1 .. Cardinality(Allocated)
    /\ IsFiniteSet(prepared)
    /\ Cardinality(prepared) + Cardinality(Allocated) <= budget.reqs

\* What is on its way to a disk or a peer has its epoch.
FlagInv ==
    \A r \in Reqs :
      local_rq_state[r] \cap LOCAL_MASK # {} \/ (\E p \in Peers : net_rq_state[r][p] # {})
        => HasEpoch(r)

\* An epoch that has a write counts it; the writes of the past are in closed epochs.
CountInv ==
    \A r \in Reqs : req[r].kind = "write" /\ req[r].dagtag > 0
      => /\ req[r].epoch <= current_tle_nr
         /\ req[r].epoch = current_tle_nr => current_tle_writes > 0 /\ master_bio[r] # NoBio

\* The write that drbd_send_and_submit() is about to put into an epoch is not
\* known to any other thread, so that it is not completed before.
SubmitInv ==
    /\ \A a \in Actors : owe[a].req \in Allocated \cup {NoReq}
    /\ sub.pc # "idle" => sub.req \in Allocated
    /\ sub.pc \in {"net", "add", "ready", "local", "put"} => sub.req \in Known
    /\ sub.pc = "epoch" /\ req[sub.req].kind = "write" =>
         /\ req[sub.req].dagtag = 0 /\ dagtag_sector > 0 /\ master_bio[sub.req] # NoBio
         /\ \A a \in Actors : owe[a].req # sub.req

\* A walk is at a request.
WalkInv ==
    \A a \in Actors :
      /\ owe[a].ph \in {"putd", "puto", "link"} => owe[a].cur \in Reqs
      /\ owe[a].ph \in {"adv", "compl"} => owe[a].req \in Reqs
      /\ owe[a].d \cup owe[a].o # {} => owe[a].req \in Reqs

\* The inductive invariant that makes CompletedEpochClosed hold: a request is known
\* to the disk, a sender or a connection only after drbd_send_and_submit() has put it
\* into the current epoch, which counts it, so that drbd_req_complete() closes it.
EpochInv ==
    ShapeInv /\ MentionInv /\ AllocInv /\ FlagInv /\ CountInv /\ SubmitInv /\ WalkInv
=============================================================================

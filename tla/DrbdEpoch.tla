------------------------------ MODULE DrbdEpoch ------------------------------
(***************************************************************************)
(* The receiving side of replication: the peer groups the writes it gets   *)
(* into epochs and answers each P_BARRIER with one P_BARRIER_ACK, once     *)
(* every write of the epoch is on stable storage (drbd_may_finish_epoch(), *)
(* receive_Barrier() and receive_Data() in drbd_receiver.c, the completion *)
(* of peer writes in drbd_sender.c).                                       *)
(*                                                                         *)
(* Four threads call drbd_may_finish_epoch(): the receiver, the sender of  *)
(* acks, the worker that flushes disks, and the submitter that drops       *)
(* writes.  call[t] is the call thread t is in.  epoch_lock is given up    *)
(* while the barrier ack is sent.                                          *)
(*                                                                         *)
(* The primary is modelled by the epochs it has sent on this connection    *)
(* and by what tl_release() accepts.                                       *)
(***************************************************************************)
EXTENDS Integers, Sequences, SequencesExt, FiniteSets, FiniteSetsExt

CONSTANTS
    MaxWrites,   \* bound: writes the primary sends
    MaxEpochs,   \* bound: epoch objects alive at the same time
    Scenarios    \* what may happen in a behaviour, see below

ASSUME MaxWritesAssumption == MaxWrites \in Nat /\ MaxEpochs \in Nat \ {0}

(***************************************************************************)
(* A behaviour belongs to one scenario: the configured write ordering, how *)
(* many writes and connection losses there are, how often the activity log *)
(* is so full that writes are confirmed early (stable), and which of these *)
(* fail: the disk, flushes, the allocation of an epoch.                    *)
(*                                                                         *)
(* races are schedules of the clean up after a connection loss: "cleanup", *)
(* conn_disconnect() overtakes the submitter between the decrement of      *)
(* active_ee_cnt and the end of drbd_cleanup_peer_requests_wfa();          *)
(* "barrier", the clean up overtakes receive_Barrier().  "previous" is the *)
(* schedule in which the worker frees an epoch between the two lock        *)
(* sections of e_end_block().                                              *)
(***************************************************************************)
Orderings == {"none", "drain", "flush", "barrier"}
ASSUME ScenariosAssumption ==
    Scenarios \subseteq
      [ordering : Orderings, writes : 0 .. MaxWrites, loss : Nat, stable : Nat,
       fails : SUBSET {"disk", "flush", "epoch"},
       races : SUBSET {"cleanup", "barrier", "previous"}]

Writes == 1 .. MaxWrites
Ids == 1 .. MaxEpochs
Threads == {"receiver", "acker", "worker", "submitter"}
NoWrite == 0
NoEpoch == 0

VARIABLES
    epochs,         \* the list of epochs, oldest first; the last is current_epoch
    ep,             \* [Ids -> struct drbd_epoch]
    write_ordering,
    peer_req,       \* [Writes -> [st, epoch, is_barrier, disk, nr]]
    active_ee_cnt,
    done_ee,        \* completed writes, waiting for the sender of acks
    work_list,      \* the ones it is working on
    done_ee_cnt,
    rcv,            \* the receiver: [pc, w]
    acks_work,      \* send_acks_work is queued
    acker,          \* drbd_finish_peer_reqs(): [pc, cancel]
    flush_work,     \* epochs queued for w_flush()
    worker,         \* w_flush(): [pc, epoch]
    call,           \* [Threads -> the drbd_may_finish_epoch() it is in]
    cstate,         \* "up", "failed" (conn_disconnect() has to run), "down"
    ldev,           \* there is a local disk
    sent,           \* the primary: epochs not acked yet, [nr, todo]
    acks,           \* acks on the control stream to the primary
    budget          \* the scenario, with what is left of it

epochVars == <<epochs, ep, call>>
reqVars == <<peer_req, active_ee_cnt, done_ee>>
ackVars == <<acks_work, work_list, done_ee_cnt, acker>>
workVars == <<flush_work, worker>>
primaryVars == <<sent, acks>>
envVars == <<cstate, ldev, budget>>
vars == <<epochVars, write_ordering, reqVars, ackVars, rcv, workVars, primaryVars, envVars>>

current_epoch == Last(epochs)
\* The epoch before e, or NoEpoch for the oldest.
previous_epoch(e) ==
    IF e = Head(epochs) THEN NoEpoch ELSE epochs[SelectInSeq(epochs, LAMBDA x : x = e) - 1]

EmptyEpoch == [size |-> 0, active |-> 0, confirmed |-> 0, nr |-> 0, flags |-> {}, oldest |-> NoWrite]
NoCall == [ph |-> "none", epoch |-> NoEpoch, ev |-> "none", cleanup |-> FALSE,
           rv |-> "live", size |-> 0]

\* epoch_lock is held by a thread that goes on with the next epoch, or that
\* drops an epoch without sending an ack.
LockFree == \A t \in Threads : call[t].ph \notin {"last", "held"}
Free(t) == call[t].ph = "none"

(***************************************************************************)
(* drbd_may_finish_epoch()                                                 *)
(***************************************************************************)
MayFinish(t, e, ev, cleanup) ==
    [call EXCEPT ![t] = [ph |-> "enter", epoch |-> e, ev |-> ev, cleanup |-> cleanup,
                         rv |-> "live", size |-> 0]]

\* A single write that was a barrier need not count as one after a fall back.
GotBarrierNr(e) ==
    LET single == e.size = 1 /\ write_ordering # "barrier"
    IN  [e EXCEPT !.flags = (IF single THEN @ \ {"CONTAINS_A_BARRIER"} ELSE @)
                              \cup {"HAVE_BARRIER_NUMBER"}]

\* The event is applied to the epoch.
Applied(c) ==
    LET e == ep[c.epoch]
    IN  CASE c.ev = "put" -> [e EXCEPT !.active = @ - 1]
          [] c.ev = "got_barrier_nr" -> IF c.epoch = current_epoch THEN GotBarrierNr(e)
                                        ELSE [e EXCEPT !.flags = @ \cup {"HAVE_BARRIER_NUMBER"}]
          [] c.ev = "barrier_done" -> [e EXCEPT !.flags = @ \cup {"NEXT_DONE"}]
          [] OTHER -> e

\* Fault: an epoch finishes before older ones.
Nearly_any(c, e) ==
    /\ e.size # 0 /\ e.active = 0
    /\ "HAVE_BARRIER_NUMBER" \in e.flags \/ c.cleanup
    /\ "IS_FINISHING" \notin e.flags

\* Fault: two threads finish the same epoch.
Nearly_twice(c, e) ==
    /\ e.size # 0 /\ e.active = 0
    /\ "HAVE_BARRIER_NUMBER" \in e.flags \/ c.cleanup
    /\ c.epoch = Head(epochs)

\* "Nearly all conditions are met to finish that epoch."
Nearly(c, e) ==
    /\ e.size # 0 /\ e.active = 0
    /\ "HAVE_BARRIER_NUMBER" \in e.flags \/ c.cleanup
    /\ c.epoch = Head(epochs)
    /\ "IS_FINISHING" \notin e.flags

Finishes(c, e) ==
    /\ Nearly(c, e)
    /\ \/ "NEXT_DONE" \in e.flags
       \/ write_ordering = "none"
       \/ e.size = 1 /\ "CONTAINS_A_BARRIER" \in e.flags
       \/ c.cleanup

\* Fault: the last epoch waits for a barrier that never comes.
SchedulesFlush_never(c, e) == FALSE

SchedulesFlush(c, e) ==
    /\ Nearly(c, e) /\ ~Finishes(c, e)
    /\ "NEXT_ISSUED" \notin e.flags /\ write_ordering = "barrier"

\* Up to the point where the lock is given up, or the call returns.
EpochEvent(t) ==
    LET c == call[t]
        e == Applied(c)
    IN  /\ c.ph = "last" \/ (c.ph = "enter" /\ LockFree)
        /\ ep' = [ep EXCEPT ![c.epoch] =
                    IF Finishes(c, e) THEN [e EXCEPT !.flags = @ \cup {"IS_FINISHING"}]
                    ELSE IF SchedulesFlush(c, e) THEN [e EXCEPT !.active = @ + 1] ELSE e]
        /\ flush_work' = IF SchedulesFlush(c, e) THEN Append(flush_work, c.epoch) ELSE flush_work
        /\ call' = [call EXCEPT ![t] =
                      IF Finishes(c, e)
                      THEN [@ EXCEPT !.ph = IF c.cleanup THEN "held" ELSE "send",
                                     !.size = e.size - e.confirmed]
                      ELSE [@ EXCEPT !.ph = "none"]]
        /\ UNCHANGED <<epochs, write_ordering, reqVars, ackVars, rcv, worker, primaryVars, envVars>>

BarrierAck(c) == [type |-> "barrier", nr |-> ep[c.epoch].nr, size |-> c.size, youngest |-> NoWrite]

\* drbd_send_b_ack(), without epoch_lock.
SendBarrierAck(t) ==
    /\ call[t].ph = "send"
    /\ acks' = IF cstate = "up" THEN Append(acks, BarrierAck(call[t])) ELSE acks
    /\ call' = [call EXCEPT ![t].ph = "drop"]
    /\ UNCHANGED <<epochs, ep, write_ordering, reqVars, ackVars, rcv, workVars, sent, envVars>>

Recycled(e) == [e EXCEPT !.oldest = NoWrite, !.flags = {}, !.size = 0, !.confirmed = 0]

\* Fault: the call returns without a look at the next epoch.
AfterFree_return == "none"

AfterFree == "last"

\* The epoch is freed, and the next one became the last; or the current one is
\* recycled.
DropEpoch(t) ==
    LET c == call[t]
        rv == [x \in {"destroyed", "recycled"} |-> IF c.rv = "live" THEN x ELSE c.rv]
    IN  /\ c.ph = "held" \/ (c.ph = "drop" /\ LockFree)
        /\ IF c.epoch # current_epoch
           THEN /\ epochs' = SelectSeq(epochs, LAMBDA x : x # c.epoch)
                /\ ep' = [ep EXCEPT ![c.epoch] = EmptyEpoch]
                /\ call' = [call EXCEPT ![t] = [@ EXCEPT !.ph = AfterFree, !.ev = "became_last",
                                                         !.rv = rv["destroyed"],
                                                         !.epoch = Head(epochs')]]
           ELSE /\ ep' = [ep EXCEPT ![c.epoch] = Recycled(@)]
                /\ call' = [call EXCEPT ![t] = [@ EXCEPT !.ph = "none", !.rv = rv["recycled"]]]
                /\ UNCHANGED epochs
        /\ UNCHANGED <<write_ordering, reqVars, ackVars, rcv, workVars, primaryVars, envVars>>

(***************************************************************************)
(* Disks.  A completed write is in the disk's cache until a flush makes it *)
(* stable; "error" is a write that failed, and was answered by a neg ack.  *)
(***************************************************************************)
Flushed == [w \in Writes |-> IF peer_req[w].disk = "cache" THEN [peer_req[w] EXCEPT !.disk = "stable"]
                             ELSE peer_req[w]]
Flushes == ldev /\ write_ordering \in {"flush", "barrier"}

\* drbd_bump_write_ordering() after an error: no more flushes, and without
\* disk-drain in the configuration no waiting for writes either.
FallBack == {"drain", "none"}

\* drbd_flush_after_epoch(), up to drbd_may_finish_epoch().
FlushDisk ==
    \/ Flushes /\ peer_req' = Flushed /\ UNCHANGED write_ordering
    \/ Flushes /\ "flush" \in budget.fails /\ write_ordering' \in FallBack /\ UNCHANGED peer_req
    \/ ~Flushes /\ UNCHANGED <<peer_req, write_ordering>>

\* drbd_submit_peer_request(), once the write has its activity log extents.
SubmitPeerRequest(w) ==
    /\ peer_req[w].st = "queued"
    /\ peer_req' = [(IF peer_req[w].is_barrier THEN Flushed ELSE peer_req) EXCEPT ![w].st = "active"]
    /\ UNCHANGED <<epochVars, write_ordering, active_ee_cnt, done_ee, ackVars, rcv, workVars,
                   primaryVars, envVars>>

\* An epoch may be finished by a clean up now.
MayCleanup == "barrier" \in budget.races \/ rcv.pc = "idle"

\* drbd_cleanup_peer_requests_wfa(): writes that wait for the activity log
\* when the connection is lost are forgotten, all in one pass ...
DropQueued(S) ==
    /\ S # {} /\ cstate # "up"
    /\ \A w \in S : peer_req[w].st = "queued"
    /\ \A w \in Writes : peer_req[w].st # "dropped"
    /\ Free("submitter")
    /\ peer_req' = [w \in Writes |-> IF w \in S THEN [peer_req[w] EXCEPT !.st = "dropped"]
                                     ELSE peer_req[w]]
    /\ active_ee_cnt' = active_ee_cnt - Cardinality(S)
    /\ UNCHANGED <<epochVars, write_ordering, done_ee, ackVars, rcv, workVars, primaryVars, envVars>>

\* ... and leave their epochs one by one.
PutDropped(w) ==
    /\ MayCleanup
    /\ peer_req[w].st = "dropped" /\ Free("submitter")
    /\ peer_req' = [peer_req EXCEPT ![w].st = "ended"]
    /\ call' = MayFinish("submitter", peer_req[w].epoch, "put", TRUE)
    /\ UNCHANGED <<epochs, ep, write_ordering, active_ee_cnt, done_ee, ackVars, rcv, workVars,
                   primaryVars, envVars>>

\* drbd_endio_write_sec_final()
EndIo(w) ==
    /\ peer_req[w].st = "active"
    /\ peer_req' = [peer_req EXCEPT ![w] =
                      [@ EXCEPT !.st = "done",
                                !.disk = IF ~ldev THEN "error"
                                         ELSE IF peer_req[w].is_barrier THEN "stable" ELSE "cache"]]
    /\ done_ee' = Append(done_ee, w)
    /\ done_ee_cnt' = done_ee_cnt + 1
    /\ acks_work' = (acks_work \/ cstate = "up")
    /\ active_ee_cnt' = active_ee_cnt - 1
    /\ UNCHANGED <<epochVars, write_ordering, work_list, acker, rcv, workVars, primaryVars, envVars>>

\* The disk fails: D_FAILED, no get_ldev() any more.
Detach ==
    /\ ldev /\ "disk" \in budget.fails
    /\ ldev' = FALSE
    /\ UNCHANGED <<epochVars, write_ordering, reqVars, ackVars, rcv, workVars, primaryVars,
                   cstate, budget>>

(***************************************************************************)
(* drbd_finish_peer_reqs() with e_end_block(): by the sender of acks, and  *)
(* in conn_disconnect() once there is no sender of acks and no write left. *)
(***************************************************************************)
Disconnecting == cstate = "failed" /\ rcv.pc = "idle" /\ ~acks_work /\ acker.pc = "idle"

FinishPeerReqs ==
    /\ acker.pc = "idle" /\ (acks_work \/ (Disconnecting /\ active_ee_cnt = 0 /\ done_ee # <<>>))
    /\ work_list' = done_ee /\ done_ee' = <<>> /\ acks_work' = FALSE
    /\ acker' = [pc |-> IF done_ee = <<>> THEN "idle" ELSE "block", cancel |-> FALSE]
    /\ UNCHANGED <<epochVars, write_ordering, peer_req, active_ee_cnt, done_ee_cnt, rcv, workVars,
                   primaryVars, envVars>>

\* A barrier write tells the previous epoch.
EndBarrierBlock ==
    LET w == Head(work_list)
        prev == previous_epoch(peer_req[w].epoch)
    IN  /\ acker.pc = "block" /\ LockFree /\ peer_req[w].is_barrier
        /\ call' = IF prev = NoEpoch THEN call
                   ELSE [MayFinish("acker", prev, "barrier_done", acker.cancel)
                           EXCEPT !["acker"].ph = IF "previous" \in budget.races THEN @ ELSE "last"]
        /\ acker' = [acker EXCEPT !.pc = "put"]
        /\ UNCHANGED <<epochs, ep, write_ordering, reqVars, acks_work, work_list, done_ee_cnt, rcv,
                       workVars, primaryVars, envVars>>

EndBlock ==
    LET w == Head(work_list)
    IN  /\ acker.pc = "put" \/ (acker.pc = "block" /\ ~peer_req[w].is_barrier)
        /\ Free("acker")
        /\ call' = MayFinish("acker", peer_req[w].epoch, "put", acker.cancel)
        /\ peer_req' = [peer_req EXCEPT ![w].st = "ended"]
        /\ acker' = [acker EXCEPT !.pc = "next"]
        /\ UNCHANGED <<epochs, ep, write_ordering, active_ee_cnt, done_ee, acks_work, work_list,
                       done_ee_cnt, rcv, workVars, primaryVars, envVars>>

\* The next write; an ack that could not be sent cancels the rest of the list.
\* done_ee_cnt counts the list until all of it is done.
EndBlockNext(failed) ==
    /\ acker.pc = "next" /\ Free("acker")
    /\ failed => cstate # "up" /\ MayCleanup
    /\ work_list' = Tail(work_list)
    /\ acker' = IF Len(work_list) = 1 THEN [pc |-> "idle", cancel |-> FALSE]
                ELSE [pc |-> "block", cancel |-> acker.cancel \/ failed]
    /\ done_ee_cnt' = IF Len(work_list) = 1 THEN Len(done_ee) ELSE done_ee_cnt
    /\ UNCHANGED <<epochVars, write_ordering, reqVars, acks_work, rcv, workVars, primaryVars, envVars>>

(***************************************************************************)
(* The receiver.  What it gets is what the primary sends: the writes of an *)
(* epoch, then its barrier.                                                *)
(***************************************************************************)
RcvTo(pc) == rcv' = [rcv EXCEPT !.pc = pc]
NextWrite(w) ==
    /\ w <= budget.writes /\ peer_req[w].st = "new"
    /\ \A v \in Writes : v < w => peer_req[v].st # "new"
SentTo(w) == [sent EXCEPT ![Len(sent)].todo = @ \cup {w}]

\* The first write of an epoch is a barrier, unless the previous epoch is a
\* single write that already was one.
MarksBarrier ==
    LET prev == previous_epoch(current_epoch)
    IN  /\ write_ordering = "barrier" /\ ep[current_epoch].size = 0
        /\ prev # NoEpoch => ep[prev].size > 1 \/ "CONTAINS_A_BARRIER" \notin ep[prev].flags

\* The epoch part of receive_Data().
JoinEpoch(w) ==
    LET cur == current_epoch
        joined == [ep EXCEPT ![cur] =
                     [@ EXCEPT !.size = @ + 1, !.active = @ + 1,
                               !.oldest = IF @ = NoWrite THEN w ELSE @,
                               !.flags = IF MarksBarrier THEN @ \cup {"CONTAINS_A_BARRIER"} ELSE @]]
    IN  ep' = IF MarksBarrier /\ previous_epoch(cur) # NoEpoch
              THEN [joined EXCEPT ![previous_epoch(cur)].flags = @ \cup {"NEXT_ISSUED"}]
              ELSE joined

Received(w, st) ==
    [peer_req EXCEPT ![w] = [@ EXCEPT !.st = st, !.epoch = current_epoch,
                                      !.is_barrier = MarksBarrier, !.nr = Last(sent).nr]]

ReceiveData(w) ==
    /\ cstate = "up" /\ rcv.pc = "idle" /\ LockFree /\ ldev /\ NextWrite(w)
    /\ JoinEpoch(w)
    /\ sent' = SentTo(w)
    /\ peer_req' = Received(w, "queued")
    /\ active_ee_cnt' = active_ee_cnt + 1
    /\ UNCHANGED <<epochs, call, write_ordering, done_ee, ackVars, rcv, workVars, acks, envVars>>

\* Without a disk the write is answered by a neg ack; it only counts.
ReceiveDataNoDisk(w) ==
    /\ cstate = "up" /\ rcv.pc = "idle" /\ ~ldev /\ NextWrite(w)
    /\ ep' = [ep EXCEPT ![current_epoch].size = @ + 1]
    /\ sent' = SentTo(w)
    /\ peer_req' = [peer_req EXCEPT ![w] = [@ EXCEPT !.st = "ended", !.disk = "error",
                                                     !.nr = Last(sent).nr]]
    /\ UNCHANGED <<epochs, call, write_ordering, active_ee_cnt, done_ee, ackVars, rcv, workVars, acks,
                   envVars>>

(***************************************************************************)
(* drbd_wait_for_activity_log_extents() when the log is full: the epoch so *)
(* far is made stable and confirmed, for the primary to give up extents.   *)
(***************************************************************************)
ActiveEmpty == active_ee_cnt = 0 \/ cstate # "up"

\* Fault: the wait is not given up when the connection is lost.
DoneEmpty_always == done_ee_cnt = 0

DoneEmpty == done_ee_cnt = 0 \/ cstate # "up"

ReceiveDataLogFull(w) ==
    /\ cstate = "up" /\ rcv.pc = "idle" /\ LockFree /\ ldev /\ NextWrite(w)
    /\ budget.stable > 0
    /\ budget' = [budget EXCEPT !.stable = @ - 1]
    /\ JoinEpoch(w)
    /\ sent' = SentTo(w)
    /\ peer_req' = Received(w, "arriving")
    /\ rcv' = [pc |-> "al_wait", w |-> w]
    /\ UNCHANGED <<epochs, call, write_ordering, active_ee_cnt, done_ee, ackVars, workVars, acks,
                   cstate, ldev>>

LogFullFlush ==
    /\ rcv.pc = "al_wait" /\ ActiveEmpty
    /\ FlushDisk
    /\ RcvTo("al_flushed")
    /\ UNCHANGED <<epochVars, active_ee_cnt, done_ee, ackVars, workVars, primaryVars, envVars>>

ConfirmCount(e) == e.size - e.confirmed - 1

\* drbd_send_confirm_stable(), and the write is queued.
LogFullConfirm ==
    LET w == rcv.w
        e == ep[peer_req[w].epoch]
        confirms == cstate = "up" /\ e.oldest # w
        youngest == Max({v \in Writes : v < w /\ peer_req[v].epoch # NoEpoch})
    IN  /\ rcv.pc = "al_flushed" /\ DoneEmpty
        /\ ep' = IF confirms
                 THEN [ep EXCEPT ![peer_req[w].epoch] =
                         [@ EXCEPT !.confirmed = @ + ConfirmCount(e), !.oldest = w]]
                 ELSE ep
        /\ acks' = IF confirms
                   THEN Append(acks, [type |-> "stable", nr |-> e.oldest, size |-> ConfirmCount(e),
                                      youngest |-> youngest])
                   ELSE acks
        /\ peer_req' = [peer_req EXCEPT ![w].st = "queued"]
        /\ active_ee_cnt' = active_ee_cnt + 1
        /\ rcv' = [pc |-> "idle", w |-> NoWrite]
        /\ UNCHANGED <<epochs, call, write_ordering, done_ee, ackVars, workVars, sent, envVars>>

(***************************************************************************)
(* receive_Barrier()                                                       *)
(***************************************************************************)
ReceiveBarrier ==
    LET nr == Last(sent).nr
    IN  /\ cstate = "up" /\ rcv.pc = "idle"
        /\ \E w \in Writes : peer_req[w].nr = nr
        /\ ep' = [ep EXCEPT ![current_epoch].nr = nr]
        /\ call' = MayFinish("receiver", current_epoch, "got_barrier_nr", FALSE)
        /\ sent' = Append(sent, [nr |-> nr + 1, todo |-> {}])
        /\ RcvTo("nr")
        /\ UNCHANGED <<epochs, write_ordering, reqVars, ackVars, workVars, acks, envVars>>

\* Fault: the receiver does not wait for the writes before the flush.
DrainEmpty_not == TRUE

DrainEmpty == ActiveEmpty

\* What the write ordering asks for before the next epoch.
BarrierNumbered ==
    LET rv == call["receiver"].rv
    IN  /\ rcv.pc = "nr" /\ Free("receiver")
        /\ \/ rv = "recycled" /\ RcvTo("idle") /\ UNCHANGED ep
           \/ /\ rv = "live" /\ write_ordering \in {"flush", "drain"}
              /\ ep' = [ep EXCEPT ![current_epoch].flags = @ \cup {"NEXT_ISSUED"}]
              /\ RcvTo("drain")
           \/ /\ rv = "live" /\ write_ordering \in {"barrier", "none"}
              /\ RcvTo("new") /\ UNCHANGED ep
        /\ UNCHANGED <<epochs, call, write_ordering, reqVars, ackVars, workVars, primaryVars, envVars>>

BarrierFlush ==
    /\ rcv.pc \in {"drain", "nomem_drain"} /\ DrainEmpty
    /\ FlushDisk
    /\ call' = MayFinish("receiver", current_epoch, "barrier_done", FALSE)
    /\ RcvTo(IF rcv.pc = "drain" THEN "flushed" ELSE "nomem_flushed")
    /\ UNCHANGED <<epochs, ep, active_ee_cnt, done_ee, ackVars, workVars, primaryVars, envVars>>

BarrierFlushed ==
    /\ rcv.pc \in {"flushed", "nomem_flushed"} /\ Free("receiver")
    /\ RcvTo(IF call["receiver"].rv = "recycled" THEN "idle"
             ELSE IF rcv.pc = "flushed" THEN "new" ELSE "nomem_done")
    /\ UNCHANGED <<epochVars, write_ordering, reqVars, ackVars, workVars, primaryVars, envVars>>

\* The new epoch, unless the current one was recycled meanwhile.
NewEpoch ==
    /\ rcv.pc = "new" /\ LockFree
    /\ IF ep[current_epoch].size = 0 THEN UNCHANGED epochs
       ELSE /\ Ids \ ToSet(epochs) # {}
            /\ epochs' = Append(epochs, Min(Ids \ ToSet(epochs)))
    /\ RcvTo("idle")
    /\ UNCHANGED <<ep, call, write_ordering, reqVars, ackVars, workVars, primaryVars, envVars>>

\* Without memory for it the current epoch has to end first.
NewEpochFails ==
    /\ rcv.pc = "new" /\ "epoch" \in budget.fails
    /\ ep' = [ep EXCEPT ![current_epoch].flags = @ \cup {"NEXT_ISSUED"}]
    /\ RcvTo(IF "NEXT_ISSUED" \in ep[current_epoch].flags THEN "nomem_wait" ELSE "nomem_drain")
    /\ UNCHANGED <<epochs, call, write_ordering, reqVars, ackVars, workVars, primaryVars, envVars>>

NoMemWait ==
    /\ \/ rcv.pc = "nomem_wait" /\ ActiveEmpty /\ RcvTo("nomem_done")
       \/ rcv.pc = "nomem_done" /\ DoneEmpty /\ RcvTo("idle")
    /\ UNCHANGED <<epochVars, write_ordering, reqVars, ackVars, workVars, primaryVars, envVars>>

(***************************************************************************)
(* w_flush() on the resource's worker                                      *)
(***************************************************************************)
FlushWork ==
    LET e == Head(flush_work)
    IN  /\ worker.pc = "idle" /\ flush_work # <<>>
        /\ flush_work' = Tail(flush_work)
        /\ worker' = [pc |-> IF "NEXT_ISSUED" \in ep[e].flags THEN "put" ELSE "flush", epoch |-> e]
        /\ ep' = [ep EXCEPT ![e].flags = @ \cup {"NEXT_ISSUED"}]
        /\ UNCHANGED <<epochs, call, write_ordering, reqVars, ackVars, rcv, primaryVars, envVars>>

FlushWorkFlush ==
    /\ worker.pc = "flush"
    /\ FlushDisk
    /\ call' = MayFinish("worker", worker.epoch, "barrier_done", FALSE)
    /\ worker' = [worker EXCEPT !.pc = "put"]
    /\ UNCHANGED <<epochs, ep, active_ee_cnt, done_ee, ackVars, rcv, flush_work, primaryVars, envVars>>

FlushWorkPut ==
    /\ worker.pc = "put" /\ Free("worker")
    /\ call' = MayFinish("worker", worker.epoch, "put", cstate # "up")
    /\ worker' = [pc |-> "idle", epoch |-> NoEpoch]
    /\ UNCHANGED <<epochs, ep, write_ordering, reqVars, ackVars, rcv, flush_work, primaryVars, envVars>>

(***************************************************************************)
(* The connection.                                                         *)
(***************************************************************************)
LoseConnection ==
    /\ cstate = "up" /\ budget.loss > 0
    /\ cstate' = "failed"
    /\ budget' = [budget EXCEPT !.loss = @ - 1]
    /\ UNCHANGED <<epochVars, write_ordering, reqVars, ackVars, rcv, workVars, primaryVars, ldev>>

SubmitterDone == Free("submitter") /\ \A w \in Writes : peer_req[w].st # "dropped"

\* The end of conn_disconnect().
ConnDisconnect ==
    /\ Disconnecting /\ active_ee_cnt = 0 /\ done_ee = <<>> /\ Free("acker")
    /\ "cleanup" \in budget.races \/ SubmitterDone
    /\ ep' = [ep EXCEPT ![current_epoch] = [@ EXCEPT !.size = 0, !.oldest = NoWrite]]
    /\ cstate' = "down"
    /\ acks' = <<>>
    /\ sent' = <<[nr |-> Last(sent).nr + 1, todo |-> {}]>>
    /\ UNCHANGED <<epochs, call, write_ordering, reqVars, ackVars, rcv, workVars, ldev, budget>>

Connect ==
    /\ cstate = "down"
    /\ cstate' = "up"
    /\ UNCHANGED <<epochVars, write_ordering, reqVars, ackVars, rcv, workVars, primaryVars, ldev, budget>>

(***************************************************************************)
(* The primary: got_BarrierAck() and got_confirm_stable(), tl_release().   *)
(***************************************************************************)
Oldest == CHOOSE i \in 1 .. Len(sent) : sent[i].todo # {} /\ \A j \in 1 .. i - 1 : sent[j].todo = {}

\* The writes of the oldest epoch that an ack covers.
AckCovers(a) ==
    {w \in sent[Oldest].todo : a.type = "stable" => w <= a.youngest}

AckAccepted(a) ==
    /\ \E i \in 1 .. Len(sent) : sent[i].todo # {}
    /\ IF a.type = "barrier" THEN a.nr = sent[Oldest].nr
       ELSE a.nr = Min(sent[Oldest].todo) /\ a.youngest \in sent[Oldest].todo
    /\ a.size = Cardinality(AckCovers(a))

TlRelease ==
    /\ acks # <<>> /\ AckAccepted(Head(acks))
    /\ sent' = [sent EXCEPT ![Oldest].todo = @ \ AckCovers(Head(acks))]
    /\ acks' = Tail(acks)
    /\ UNCHANGED <<epochVars, write_ordering, reqVars, ackVars, rcv, workVars, envVars>>

-----------------------------------------------------------------------------
Init ==
    /\ epochs = <<1>> /\ ep = [i \in Ids |-> EmptyEpoch]
    /\ peer_req = [w \in Writes |-> [st |-> "new", epoch |-> NoEpoch, is_barrier |-> FALSE,
                                     disk |-> "none", nr |-> 0]]
    /\ active_ee_cnt = 0 /\ done_ee = <<>> /\ work_list = <<>> /\ done_ee_cnt = 0
    /\ acks_work = FALSE
    /\ rcv = [pc |-> "idle", w |-> NoWrite]
    /\ acker = [pc |-> "idle", cancel |-> FALSE]
    /\ flush_work = <<>> /\ worker = [pc |-> "idle", epoch |-> NoEpoch]
    /\ call = [t \in Threads |-> NoCall]
    /\ cstate = "up" /\ ldev = TRUE
    /\ sent = <<[nr |-> 1, todo |-> {}]>> /\ acks = <<>>
    /\ budget \in Scenarios /\ write_ordering = budget.ordering

Calls(t) == EpochEvent(t) \/ SendBarrierAck(t) \/ DropEpoch(t)
Receiver == LogFullFlush \/ LogFullConfirm \/ BarrierNumbered \/ BarrierFlush \/ BarrierFlushed
              \/ NewEpoch \/ NewEpochFails \/ NoMemWait
Acker == FinishPeerReqs \/ EndBarrierBlock \/ EndBlock \/ \E failed \in BOOLEAN : EndBlockNext(failed)
Worker == FlushWork \/ FlushWorkFlush \/ FlushWorkPut
Io(w) == SubmitPeerRequest(w) \/ PutDropped(w) \/ EndIo(w)

Next ==
    \/ \E t \in Threads : Calls(t)
    \/ \E w \in Writes : ReceiveData(w) \/ ReceiveDataNoDisk(w) \/ ReceiveDataLogFull(w) \/ Io(w)
    \/ \E S \in SUBSET Writes : DropQueued(S)
    \/ ReceiveBarrier \/ Receiver \/ Acker \/ Worker
    \/ Detach \/ LoseConnection \/ ConnDisconnect \/ Connect
    \/ TlRelease

Spec == Init /\ [][Next]_vars

\* Threads run, IO ends, and the primary sends a barrier after the last write.
FairSpec ==
    /\ Spec
    /\ \A t \in Threads : WF_vars(Calls(t))
    /\ \A w \in Writes : WF_vars(Io(w))
    /\ WF_vars(ReceiveBarrier) /\ WF_vars(Receiver) /\ WF_vars(Acker) /\ WF_vars(Worker)
    /\ WF_vars(ConnDisconnect) /\ WF_vars(TlRelease)

-----------------------------------------------------------------------------
Flags == {"HAVE_BARRIER_NUMBER", "CONTAINS_A_BARRIER", "NEXT_ISSUED", "NEXT_DONE", "IS_FINISHING"}

\* The epochs, their counters and flags, and the counters of peer requests on
\* the connection; none of them becomes negative.
TypeOK ==
    /\ epochs \in Seq(Ids) /\ epochs # <<>> /\ IsInjective(epochs)
    /\ \A i \in Ids : /\ ep[i].size \in 0 .. MaxWrites /\ ep[i].active \in 0 .. MaxWrites + 1
                      /\ ep[i].confirmed \in 0 .. ep[i].size
                      /\ ep[i].flags \subseteq Flags /\ ep[i].oldest \in Writes \cup {NoWrite}
    /\ write_ordering \in Orderings
    /\ active_ee_cnt \in 0 .. MaxWrites
    /\ done_ee_cnt \in Len(done_ee) .. MaxWrites

\* The primary drops the connection when a barrier ack or a P_CONFIRM_STABLE is
\* not for its oldest open epoch, or does not count the writes it waits for
\* (tl_release()): the peer's books agree with the primary's, whatever thread
\* finishes an epoch and in whatever order.
AcksAccepted == acks # <<>> => AckAccepted(Head(acks))

\* A barrier ack may make the primary drop extents from its activity log, so
\* that they are not resynced after a crash (receive_Barrier()): every write it
\* covers has completed, and with flushes it is on stable storage.
AckedAreStable ==
    cstate = "up" /\ acks # <<>> =>
      \A w \in AckCovers(Head(acks)) :
        /\ peer_req[w].st = "ended" /\ peer_req[w].disk # "none"
        /\ write_ordering = "flush" /\ ldev => peer_req[w].disk = "stable"

\* drbd_may_finish_epoch() is never entered, nor a work queued, with an epoch that
\* another thread has freed.
EpochAlive ==
    /\ \A t \in Threads : call[t].ph # "none" => call[t].epoch \in ToSet(epochs)
    /\ \A w \in Writes : peer_req[w].st \in {"arriving", "queued", "dropped", "active", "done"}
         => peer_req[w].epoch \in ToSet(epochs)
    /\ \A i \in 1 .. Len(flush_work) : flush_work[i] \in ToSet(epochs)
    /\ worker.pc # "idle" => worker.epoch \in ToSet(epochs)

\* "ASSERTION FAILED: connection->current_epoch->list not empty": without a
\* connection only the current epoch is left (conn_disconnect()).
OneEpochLeft == cstate = "down" => Len(epochs) = 1

Unacked == UNION {sent[i].todo : i \in 1 .. Len(sent)}

\* Every write the primary has sent on a connection is acked by
\* drbd_may_finish_epoch() or drbd_send_confirm_stable(), unless the connection
\* is lost.
EveryWriteAcked == \A w \in Writes : (w \in Unacked) ~> (w \notin Unacked)

\* conn_disconnect() does not wait for ever: neither for active_ee_cnt, nor for a
\* receiver that waits for writes or acks.
DisconnectEnds == (cstate = "failed") ~> (cstate # "failed")
=============================================================================

--------------------------- MODULE DrbdAfterState ---------------------------
(***************************************************************************)
(* A state change with everything it entails: ___end_state_change, the     *)
(* flags finish_state_change sets and clears beside the state, and         *)
(* w_after_state_change, which tells the peers.  On top of it the steps of *)
(* a resync: its start, its end, and what the arrival of a peer's UUIDs or *)
(* of its state leads to.                                                  *)
(*                                                                         *)
(* A node at work is a record w with                                       *)
(*    s, u        its state (DrbdState) and UUIDs (DrbdUuid)               *)
(*    out, ack    per peer: the packets put on the data and control stream *)
(*    todo        what is still to be done: see DrbdExchange               *)
(*    fresh       the last UUID generated in the cluster                   *)
(*    due         an empty two-phase commit is scheduled                   *)
(*    rv          the result of the last state change                      *)
(* u has for each peer also last (last_repl_state), fin                    *)
(* (resync_finished_pdsk), again (resync_again), unack (peer_requests: the *)
(* writes received from it that are not acknowledged by P_PEER_ACK), pend  *)
(* and flush (pending_flush_mask and the flush the peer has asked for), and*)
(* stable_rs (STABLE_RESYNC), flush_seq (current_flush_sequence).          *)
(***************************************************************************)
EXTENDS DrbdHandshake

Send(w, p, m) == IF w.s.cstate[p] = C_CONNECTED THEN [w EXCEPT !.out[p] = Append(@, m)] ELSE w
drbd_should_do_remote(s, p) ==
  \/ s.pdsk[p] = D_UP_TO_DATE
  \/ /\ s.pdsk[p] = D_INCONSISTENT
     /\ s.repl[p] = L_ESTABLISHED \/ (L_WF_BITMAP_T <= s.repl[p] /\ s.repl[p] < L_AHEAD)
EachPeer(me, w, Op(_, _)) == FoldLeft(LAMBDA v, p : Op(v, p), w, PeerSeq[me])

drbd_send_uuids(me, w, p, flags, mask) ==
  IF w.s.disk < D_NEGOTIATING \/ w.s.cstate[p] # C_CONNECTED THEN w
  ELSE [Send(w, p, UuidsMsg(me, w.s, w.u, p, flags, mask))
          EXCEPT !.u = WithComm(me, w.s, w.u, p)]
StateOf(s, p) == [cmd |-> "state", role |-> s.role, disk |-> s.disk, repl |-> s.repl[p],
                  quorum |-> s.have_quorum, isp |-> s.susp_user[p] \/ s.susp_other[p]]
drbd_send_state(w, p) == Send(w, p, StateOf(w.s, p))

\* the differences to all peers but p grow by the block b
OutOfSync(me, u, p, b) ==
  [u EXCEPT !.bits = [q \in Peers(me) |-> IF q = p THEN u.bits[q] ELSE u.bits[q] \cup {b}]]
apply_unacked_peer_requests(me, u, p) ==
  FoldLeft(LAMBDA v, r : OutOfSync(me, v, p, r.b), u, u.peer[p].unack)

\* Is there a source of stable data besides p?
drbd_stable_sync_source_present(me, s, u, p) ==
  LET authoritative == IF "STABLE" \in u.peer[p].flags THEN {} ELSE u.peer[p].mask
      linked(q) == \/ s.repl[q] \in {L_ESTABLISHED, L_WF_BITMAP_S}
                   \/ L_SYNC_SOURCE <= s.repl[q] /\ s.repl[q] < L_AHEAD
  IN \/ me \in authoritative
     \/ \E q \in Peers(me) \ {p} :
          /\ linked(q)
          /\ \/ q \in authoritative \/ s.peer_role[q] = "Primary"
             \/ repl_is_sync_target(s.repl[q]) /\ "STABLE" \in u.peer[q].flags
Unstable(me, s, u, p) ==
  "STABLE" \notin u.peer[p].flags /\ ~drbd_stable_sync_source_present(me, s, u, p)

-----------------------------------------------------------------------------
\* What finish_state_change does besides assigning the state.

PeerFlagsAfter(o, n, p, lost_primary, unstable, f) ==
  LET ends == o.repl[p] > L_ESTABLISHED /\ n.repl[p] <= L_ESTABLISHED
      gone == o.cstate[p] = C_CONNECTED /\ n.cstate[p] < C_CONNECTED
      forced == /\ o.disk = D_INCONSISTENT /\ o.pdsk[p] = D_INCONSISTENT
                /\ n.pdsk[p] = D_UP_TO_DATE
                /\ o.peer_role[p] = "Secondary" /\ n.peer_role[p] = "Primary"
  IN (f \ (IF ends THEN {"RECONCILIATION_RESYNC", "SYNC_SRC_CRASHED_PRI"} ELSE {}))
       \cup (IF gone THEN {"RECONNECT"} ELSE {})
       \cup (IF gone /\ o.peer_role[p] = "Primary" THEN {"NOTIFY_PEERS_LOST_PRIMARY"} ELSE {})
       \cup (IF forced THEN {"CONSIDER_RESYNC"} ELSE {})
       \cup (IF lost_primary /\ repl_is_sync_target(n.repl[p]) /\ unstable
             THEN {"UNSTABLE_RESYNC"} ELSE {})
\* drbd_determine_flush_pending: a new sync target has each Primary tell, by way
\* of every peer that has the data, that its earlier writes are done
FlushStarts(me, o, n) ==
  \E p \in Peers(me) : ~repl_is_sync_target(o.repl[p]) /\ repl_is_sync_target(n.repl[p])
drbd_determine_flush_pending(me, o, n, u, p) ==
  LET current == {q \in Peers(me) : n.pdsk[q] = D_UP_TO_DATE}
  IN CASE FlushStarts(me, o, n) -> IF n.peer_role[p] = "Primary" THEN current ELSE {}
       [] n.cstate[p] # C_CONNECTED -> {}
       [] OTHER -> u.peer[p].pend \cap current
PeerAfter(me, o, n, u, p) ==
  [u.peer[p] EXCEPT
    !.flags = @ \ ({"GOT_STABLE"} \cup
       IF /\ "UUIDS_RECEIVED" \in u.peer[p].f
          /\ ~(o.disk = D_UP_TO_DATE /\ o.pdsk[p] = D_UP_TO_DATE)
          /\ n.disk = D_UP_TO_DATE /\ n.pdsk[p] = D_UP_TO_DATE
       THEN {"CRASHED_PRIMARY"} ELSE {}),
    !.pend = drbd_determine_flush_pending(me, o, n, u, p),
    !.f = PeerFlagsAfter(o, n, p,
            \E q \in Peers(me) : o.peer_role[q] = "Primary" /\ n.peer_role[q] = "Unknown",
            Unstable(me, n, u, p), @)]
FlagsAfter(me, o, n, u) ==
  LET starting == \E p \in Peers(me) :
                    o.repl[p] <= L_ESTABLISHED /\ n.repl[p] = L_WF_BITMAP_S
      u1 == FoldLeft(LAMBDA v, p : [v EXCEPT !.peer[p] = PeerAfter(me, o, n, u, p)],
                     [u EXCEPT !.flush_seq = IF FlushStarts(me, o, n) THEN @ + 1 ELSE @], PeerSeq[me])
  IN FoldLeft(LAMBDA v, p : IF starting /\ n.peer_role[p] = "Primary"
                            THEN apply_unacked_peer_requests(me, v, p) ELSE v,
              u1, PeerSeq[me])

-----------------------------------------------------------------------------
\* drbd_uuid_new_current: the peers that are linked learn of it at once.

CanBegin(me, w, forced) ==
  w.s.disk = D_UP_TO_DATE /\ NeedsCurrent(me, w.s, w.u, forced, w.fresh + 2)
TellNewCurrent(me, w, forced) ==
  EachPeer(me, w, LAMBDA v, p :
    IF v.s.repl[p] >= L_ESTABLISHED
    THEN drbd_send_uuids(me, v, p, IF forced THEN {} ELSE {"NEW_DATAGEN"},
                         drbd_weak_nodes_device(me, v.s))
    ELSE v)
drbd_uuid_new_current(me, w, forced) ==
  IF CanBegin(me, w, forced)
  THEN TellNewCurrent(me,
         [w EXCEPT !.u = new_current_uuid_prepare(me, w.s, w.u, forced, w.fresh + 2),
                   !.fresh = @ + 4], forced)
  ELSE w

-----------------------------------------------------------------------------
\* w_after_state_change: o is the state before, w.s the one after.

\* connected, or the peer attached, and no resync: the bitmap is of no use
ClearedWithoutResync(o, w, p) ==
  IF /\ w.s.disk >= D_OUTDATED /\ w.s.repl[p] = L_ESTABLISHED /\ w.s.pdsk[p] >= D_OUTDATED
     /\ o.repl[p] = L_OFF \/ o.pdsk[p] = D_DISKLESS
     /\ Same(w.u.peer[p].cur, w.u.cur)
  THEN [w EXCEPT !.u = [drbd_uuid_set_bitmap(w.u, p, 0) EXCEPT !.bits[p] = {}]] ELSE w

FinishedAsTarget(o, n, p) == repl_is_sync_target(o.repl[p]) /\ n.repl[p] = L_ESTABLISHED
resync_finished(me, o, n) == \E p \in Peers(me) : FinishedAsTarget(o, n, p)
\* a resync was skipped because it was done by another peer
send_state_others(me, o, n) ==
  {p \in Peers(me) : /\ o.disk = D_INCONSISTENT /\ n.disk = D_UP_TO_DATE
                     /\ o.pdsk[p] = D_INCONSISTENT /\ n.pdsk[p] = D_UP_TO_DATE}
LastOf(S) == IF S = {} THEN {} ELSE {Max(S)}

SendsUuids(me, o, w, p) ==
  /\ w.s.repl[p] > L_OFF
  /\ \/ resync_finished(me, o, w.s) /\ w.s.pdsk[p] # D_UNKNOWN
     \/ o.repl[p] = L_OFF
          /\ w.u.peer[p].comm.cur # drbd_resolved_uuid(me, w.s, w.u, p)
     \/ calc_device_stable(me, o) # calc_device_stable(me, w.s)

SendsState(me, o, n, p) ==
  LET running(r) == L_SYNC_SOURCE <= r /\ r <= L_PAUSED_SYNC_T
      others == LastOf(send_state_others(me, o, n))
  IN \/ running(n.repl[p]) /\ ~running(o.repl[p])
     \/ n.repl[p] >= L_ESTABLISHED /\ (o.susp_other[p] # n.susp_other[p]
                                       \/ o.susp_user[p] # n.susp_user[p])
     \/ FinishedAsTarget(o, n, p)
     \/ o.repl[p] = L_OFF /\ n.repl[p] >= L_ESTABLISHED
     \/ o.repl[p] # L_AHEAD /\ n.repl[p] = L_AHEAD
     \/ /\ n.disk >= D_INCONSISTENT /\ n.disk # o.disk
        /\ o.repl[p] >= L_ESTABLISHED /\ n.repl[p] >= L_ESTABLISHED
        /\ ~(o.role = "Secondary" /\ n.role = "Primary")
     \/ o.have_quorum # n.have_quorum /\ n.disk >= D_INCONSISTENT
     \/ others # {} /\ p \notin others

\* offer a resync: this node has become stable
OffersResync(me, o, n, p) ==
  /\ calc_device_stable(me, n)
  /\ \/ ~calc_device_stable(me, o)
     \/ calc_resync_target(me, o) /\ ~calc_resync_target(me, n)
  /\ ~repl_is_sync_target(o.repl[p]) /\ o.peer_role[p] # "Primary"
  /\ n.disk >= D_OUTDATED /\ n.repl[p] >= L_ESTABLISHED

send_new_state_to_all_peer_devices(me, w) ==
  EachPeer(me, w, LAMBDA v, p : IF v.s.cstate[p] = C_CONNECTED THEN drbd_send_state(v, p) ELSE v)

If(cond, v, w) == IF cond THEN v ELSE w
drbd_send_bitmap(w, p) == Send(w, p, [cmd |-> "bitmap", bits |-> w.u.bits[p]])

\* The worker sends it when the handler is done.  drbd_set_pending_out_of_sync:
\* the requests in flight (w.u.inflight) may not have reached the peer.
SendBitmapAsSource(w, p) ==
  drbd_send_bitmap([w EXCEPT !.u.bits[p] = @ \cup {b \in Blocks :
      \E r \in w.u.inflight : r.b = b /\ p \notin r.ok}], p)

drbd_run_resync(me, w, p) ==
  IF repl_is_sync_target(w.s.repl[p])
  THEN LET u1 == drbd_uuid_set_exposed(w.s, w.u, w.u.peer[p].cur)
           u2 == IF Unstable(me, w.s, u1, p)
                 THEN [u1 EXCEPT !.peer[p].f = @ \cup {"UNSTABLE_RESYNC"}] ELSE u1
       IN [w EXCEPT !.u = drbd_uuid_resync_starting(me, w.s, u2, p, w.fresh + 2)]
  ELSE w

\* the first and the second half of what is done for each peer
AfterUuids(me, o, w, p) ==
  LET n == w.s
      w1 == If(SendsUuids(me, o, w, p), drbd_send_uuids(me, w, p, {}, {}), w)
      w2 == If(o.pdsk[p] < D_NEGOTIATING /\ n.pdsk[p] = D_NEGOTIATING,
               drbd_send_state(drbd_send_uuids(me, w1, p, {}, {}), p), w1)
      w3 == If(o.repl[p] # L_WF_BITMAP_S /\ n.repl[p] = L_WF_BITMAP_S,
               [w2 EXCEPT !.todo = Append(@, [do |-> "bitmap", p |-> p])], w2)
  IN If(o.disk = D_ATTACHING /\ n.disk >= D_NEGOTIATING,
        drbd_send_state(drbd_send_uuids(me, w3, p, {}, {}), p), w3)
AfterStates(me, o, w, p) ==
  LET n == w.s
      w1 == If(o.disk < D_UP_TO_DATE /\ o.repl[p] >= L_SYNC_SOURCE /\ n.repl[p] = L_ESTABLISHED,
               send_new_state_to_all_peer_devices(me, w), w)
      w2 == If(/\ calc_device_stable(me, o) /\ ~calc_device_stable(me, n)
               /\ n.repl[p] >= L_ESTABLISHED, drbd_send_uuids(me, w1, p, {}, {}), w1)
      w3 == If(SendsState(me, o, n, p), drbd_send_state(w2, p), w2)
      w4 == If(OffersResync(me, o, n, p), drbd_send_uuids(me, w3, p, {"GOT_STABLE"}, {}), w3)
  IN If(~repl_is_sync(o.repl[p]) /\ repl_is_sync(n.repl[p]), drbd_run_resync(me, w4, p), w4)

\* a write has failed on a peer or on this Primary: its generation ends here
FailedWrite(me, o, n) ==
  \/ \E p \in Peers(me) : o.pdsk[p] = D_UP_TO_DATE /\ n.pdsk[p] \in {D_FAILED, D_INCONSISTENT}
  \/ o.disk > D_FAILED /\ n.disk = D_FAILED /\ n.role = "Primary"
AfterDevice(me, o, w) ==
  LET n == w.s
      tell == \/ o.disk # n.disk /\ n.disk \in {D_FAILED, D_DETACHING, D_DISKLESS}
              \/ o.disk = D_UP_TO_DATE /\ n.disk = D_INCONSISTENT
      w1 == If(tell, send_new_state_to_all_peer_devices(me, w), w)
  IN If(FailedWrite(me, o, n) /\ n.new_cur_uuid,
        drbd_uuid_new_current(me, [w1 EXCEPT !.s.new_cur_uuid = FALSE], FALSE), w1)
SendFlushRequests(me, o, w) ==
  EachPeer(me, w, LAMBDA v, p :
    If(FlushStarts(me, o, v.s) /\ v.s.peer_role[p] = "Primary",
       Send(v, p, [cmd |-> "flush", seq |-> v.u.flush_seq]), v))
send_role_to_all_peers(me, w) ==
  EachPeer(me, w, LAMBDA v, p : Send(v, p, [cmd |-> "role"]))

w_after_state_change(me, o, w) ==
  LET w1 == EachPeer(me, w, LAMBDA v, p : ClearedWithoutResync(o, v, p))
      w2 == EachPeer(me, w1, LAMBDA v, p : AfterStates(me, o, AfterUuids(me, o, v, p), p))
      w3 == SendFlushRequests(me, o, AfterDevice(me, o, w2))
  IN If(o.role = "Primary" /\ w.s.role = "Secondary", send_role_to_all_peers(me, w3), w3)
=============================================================================

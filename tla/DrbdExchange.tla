---------------------------- MODULE DrbdExchange ----------------------------
(***************************************************************************)
(* What a node does with the UUIDs, states, bitmaps and acknowledgements   *)
(* it receives (drbd_receiver.c), and how a resync begins and ends         *)
(* (drbd_sender.c).  Each of these is a sequence of calls with at most one *)
(* state change in each of them.  A call is a record j; w.todo holds the   *)
(* calls that are still to be made, w.net the configuration of the         *)
(* connections (see DrbdHandshake).                                        *)
(*                                                                         *)
(* A call has two halves: what leads to the state change, Plan(w, n, f)    *)
(* with the new state n and the flags f of the change, or Nothing(w) if it *)
(* returns before it; and what is done with its result.                    *)
(***************************************************************************)
EXTENDS DrbdAfterState

Plan(w, n, f) == [w |-> w, n |-> n, f |-> f, reach |-> {}, go |-> TRUE]
Nothing(w) == [w |-> w, n |-> w.s, f |-> {}, reach |-> {}, go |-> FALSE]
Then(w, calls) == [w EXCEPT !.todo = calls \o @]
NodeSeq == SetToSortSeq(Nodes, LAMBDA a, b : a < b)

\* A state change looks at the UUIDs of the peers as they are then.
Known(me, s, u) ==
  [s EXCEPT !.match = [p \in Peers(me) |-> Same(u.peer[p].cur, u.cur)],
            !.stable = [p \in Peers(me) |-> {"STABLE"} \subseteq u.peer[p].flags
                                             /\ "UUIDS_RECEIVED" \in u.peer[p].f],
            !.got_stable = [p \in Peers(me) |-> "GOT_STABLE" \in u.peer[p].flags]]
Forgotten(me, s) ==
  [s EXCEPT !.match = [p \in Peers(me) |-> FALSE], !.stable = [p \in Peers(me) |-> FALSE],
            !.got_stable = [p \in Peers(me) |-> FALSE]]
\* a peer that is replicated to from now on learns how far the writes are
SendDagtag(me, o, w) ==
  EachPeer(me, w, LAMBDA v, p :
    If(~drbd_should_do_remote(o, p) /\ drbd_should_do_remote(v.s, p),
       Send(v, p, [cmd |-> "tag", tag |-> v.u.dagtag]), v))
Applied(me, w, s, due, rv) ==
  SendDagtag(me, w.s, w_after_state_change(me, w.s,
    [w EXCEPT !.s = s, !.u = FlagsAfter(me, w.s, s, w.u), !.due = @ \/ due, !.rv = rv]))
Ended(me, w, r, reach) ==
  IF Ok(r)
  THEN Applied(me, w, Forgotten(me, r.s), drbd_schedule_empty_twopc(me, w.s, r.s, reach), r.rv)
  ELSE [w EXCEPT !.rv = r.rv]
Change(me, w, n, f, reach) ==
  Ended(me, w, EndStateChange(me, Known(me, w.s, w.u), Known(me, n, w.u), f, reach), reach)

-----------------------------------------------------------------------------
\* The start of a resync.

init_resync_stable_bits(me, s, u, p) ==
  [u EXCEPT !.peer[p].f = @ \ {"UNSTABLE_RESYNC"},
            !.stable_rs = @ /\ \E q \in Peers(me) \ {p} : repl_is_sync_target(s.repl[q])]
\* prepare to continue an interrupted initial resync later
ContinuesLater(me, s, u, p) ==
  IF u.cur = UUID_JUST_CREATED /\ u.peer[p].bms[me] # 0
  THEN drbd_uuid_set_current(s, u, u.peer[p].bms[me]) ELSE u
drbd_start_resync(me, w, p, side) ==
  LET u1 == IF side = L_SYNC_TARGET
            THEN init_resync_stable_bits(me, w.s, ContinuesLater(me, w.s, w.u, p), p) ELSE w.u
  IN IF \/ w.s.repl[p] < L_ESTABLISHED
        \/ L_SYNC_SOURCE <= w.s.repl[p] /\ w.s.repl[p] < L_AHEAD
        \/ w.s.disk < D_NEGOTIATING
     THEN Nothing(w)
     ELSE Plan([w EXCEPT !.u = [u1 EXCEPT !.peer[p].fin = D_UNKNOWN]],
               Upd(w.s, "repl", p, side), {})
\* the peer has said that it is done before this node had started
StartEnd(w0, w, p) ==
  IF w0.u.peer[p].fin # D_UNKNOWN /\ w.u.peer[p].fin = D_UNKNOWN
  THEN Then(w, << [do |-> "finished", p |-> p, pdsk |-> w0.u.peer[p].fin] >>) ELSE w

-----------------------------------------------------------------------------
\* The end of a resync.

was_resync_stable(u, p) == "UNSTABLE_RESYNC" \in u.peer[p].f => u.stable_rs
outdate_peer_disk_by_mask(me, n, nodes) ==
  [n EXCEPT !.pdsk = [q \in Peers(me) |-> IF q \in nodes /\ n.pdsk[q] >= D_CONSISTENT
                                          THEN D_OUTDATED ELSE n.pdsk[q]]]
\* one complete resync is enough
Cancelled(me, w, p) ==
  IF (IF was_resync_stable(w.u, p) THEN w.s.pdsk[p] ELSE w.s.disk) # D_UP_TO_DATE THEN {}
  ELSE {q \in Peers(me) \ {p} : w.s.repl[q] = L_PAUSED_SYNC_T}
cancel_other_resyncs(me, n, nodes) ==
  [n EXCEPT !.repl = [q \in Peers(me) |-> IF q \in nodes THEN L_ESTABLISHED ELSE n.repl[q]]]
\* now the two sets of UUIDs are equal
SetsEqual(me, u, p) ==
  [u EXCEPT !.peer[p].cur = u.cur, !.peer[p].bms[me] = u.bm[p], !.peer[p].hist = u.hist]
SourceCrashed(w, p) ==
  /\ was_resync_stable(w.u, p) /\ w.s.pdsk[p] < D_UP_TO_DATE
  /\ "SYNC_SRC_CRASHED_PRI" \in w.u.peer[p].f
FinishedNow(me, w, p, n) ==
  IF was_resync_stable(w.u, p)
  THEN Plan([w EXCEPT !.s.crashed = @ \/ SourceCrashed(w, p),
                      !.u = [SetsEqual(me, drbd_uuid_resync_finished(me, w.s, w.u, p), p)
                               EXCEPT !.stable_rs = TRUE]],
            outdate_peer_disk_by_mask(me,
              [n EXCEPT !.disk = w.s.pdsk[p], !.crashed = @ \/ SourceCrashed(w, p)],
              drbd_uuid_resync_newer(me, w.s, w.u, p)), {})
  ELSE Plan(w, n, {})
drbd_resync_finished(me, w, p, pdsk) ==
  LET n == [w.s EXCEPT !.active[p] = FALSE, !.repl[p] = L_ESTABLISHED]
  IN CASE w.s.repl[p] <= L_ESTABLISHED \/ w.s.repl[p] = L_BEHIND -> Plan(w, w.s, {})
       [] repl_is_sync_target(w.s.repl[p]) ->
            FinishedNow(me, w, p, cancel_other_resyncs(me, n, Cancelled(me, w, p)))
       [] repl_is_sync_source(w.s.repl[p]) -> Plan(w, Upd(n, "pdsk", p, pdsk), {})
       [] OTHER -> Plan(w, n, {})

\* another resync was asked for meanwhile
resync_again(me, w0, w, p) ==
  LET repl == IF repl_is_sync_source(w0.s.repl[p]) THEN L_WF_BITMAP_S ELSE L_WF_BITMAP_T
      who == {q \in Peers(me) :
                /\ w.u.peer[q].again > 0
                /\ \/ q = p /\ repl_is_sync(w0.s.repl[p])
                   \/ repl_is_sync_target(w0.s.repl[p]) /\ q \in Cancelled(me, w0, p)}
  IN [i \in 1..Cardinality(who) |->
        [do |-> "again", p |-> SetToSortSeq(who, LAMBDA a, b : a < b)[i], repl |-> repl]]
\* the data is that of the lost Primary up to this dagtag now
after_reconciliation_resync(w, p) ==
  LET lost == w.u.peer[p].recon[1]
      u1 == IF lost # None /\ w.s.cstate[lost] < C_CONNECTED
            THEN [w.u EXCEPT !.peer[lost].dagtag = w.u.peer[p].recon[2]] ELSE w.u
  IN [w EXCEPT !.u = [u1 EXCEPT !.peer[p].recon = <<None, 0>>]]
FinishedEnd(me, w0, w, p) ==
  Then(after_reconciliation_resync(w, p),
       resync_again(me, w0, w, p)
         \o (IF SourceCrashed(w0, p) /\ repl_is_sync_target(w0.s.repl[p])
             THEN << [do |-> "from_primary"] >> ELSE <<>>))
Again(w, p, repl) ==
  Plan([w EXCEPT !.u.peer[p].again = @ - 1], Upd(w.s, "repl", p, repl), {})
try_to_get_resynced_from_primary(me, w) ==
  LET found == SelectSeq(PeerSeq[me], LAMBDA p : w.s.peer_role[p] = "Primary"
                                                /\ w.s.pdsk[p] = D_UP_TO_DATE)
  IN IF found = <<>> THEN w
     ELSE Then(drbd_send_uuids(me, w, found[1], {}, {}),
               << [do |-> "start", p |-> found[1], side |-> L_SYNC_TARGET] >>)

-----------------------------------------------------------------------------
\* The UUIDs of a peer arrive.

update_bitmap_slot_of_peer(me, u, p, i, val) ==
  LET u1 == IF u.peer[p].bms[i] # 0 /\ val = 0 /\ i # me
            THEN [u EXCEPT !.peer[i].bms[p] = 0] ELSE u
      u2 == IF i # me /\ val # -1 THEN drbd_uuid_push_history(u1, val) ELSE u1
  IN [u2 EXCEPT !.peer[p].bms[i] = val]
StoredUuids(me, u, p, m) ==
  FoldLeft(LAMBDA v, i : update_bitmap_slot_of_peer(me, v, p, i, m.bms[i]),
    [u EXCEPT !.peer[p].cur = m.cur, !.peer[p].dirty = m.dirty, !.peer[p].flags = m.flags,
              !.peer[p].hist = m.hist, !.peer[p].f = @ \cup {"UUIDS_RECEIVED"}],
    NodeSeq)
\* a stable Primary tells which nodes are weak
WeakNodes(role, m) ==
  IF role = "Primary" /\ "STABLE" \in m.flags THEN << [do |-> "weak", nodes |-> m.mask] >> ELSE <<>>
receive_uuids110(me, w, p, m) ==
  Then([w EXCEPT !.u = StoredUuids(me, w.u, p, m)],
    WeakNodes(w.s.peer_role[p], m) \o << [do |-> "uuids", p |-> p, mask |-> m.mask] >>)

\* the source of the running resync is cut off from the Primary
check_resync_source(me, w, weak) ==
  LET found == SelectSeq(PeerSeq[me], LAMBDA p : repl_is_sync_target(w.s.repl[p]) /\ p \in weak)
  IN IF found = <<>> THEN Nothing(w)
     ELSE Plan(w, Upd(w.s, "repl", found[1], L_ESTABLISHED), {})

drbd_propagate_uuids(me, w, nodes) ==
  EachPeer(me, w, LAMBDA v, q : If(q \in nodes /\ v.s.repl[q] >= L_ESTABLISHED,
                                   drbd_send_uuids(me, v, q, {}, {}), v))
received_new_current(me, w, p, val, weak) ==
  drbd_propagate_uuids(me,
    [w EXCEPT !.u = drbd_uuid_received_new_current(me, w.s, w.u, val, weak,
                                                   w.u.peer[p].dagtag, w.fresh + 2)],
    CurrentRecipients(me, w.s, w.u, weak, w.fresh + 2))
detect_finished_resyncs(me, w, p, r) ==
  drbd_propagate_uuids(me, [w EXCEPT !.u = r.u],
    IF r.filled THEN Peers(me) ELSE IF r.wrote THEN Peers(me) \ {p} ELSE {})
DetectFinished(me, w, p) ==
  detect_finished_resyncs(me, w, p, drbd_uuid_detect_finished_resyncs(me, w.s, w.u, p))
NewDatagen(me, w, p, mask) ==
  If("NEW_DATAGEN" \in w.u.peer[p].flags,
     received_new_current(me, w, p, w.u.peer[p].cur, mask), w)
\* __receive_uuids
MarkUnstable(me, repl, w, p) ==
  If(repl_is_sync_target(repl) /\ Unstable(me, w.s, w.u, p),
     [w EXCEPT !.u.peer[p].f = @ \cup {"UNSTABLE_RESYNC"}], w)
receive_uuids(me, w, p, mask) ==
  MarkUnstable(me, w.s.repl[p],
    [DetectFinished(me, NewDatagen(me, w, p, mask), p) EXCEPT !.u.peer[p].mask = mask], p)
\* the end of receive_uuids110
ResyncOffered(me, w, p) ==
  /\ "GOT_STABLE" \in w.u.peer[p].flags /\ w.s.repl[p] = L_ESTABLISHED
  /\ calc_device_stable(me, w.s)
AskedForResync(me, w, p) ==
  LET resync == << [do |-> "resync", p |-> p, stable |-> TRUE] >>
      asked == IF "RESYNC" \in w.u.peer[p].flags THEN resync ELSE <<>>
  IN CASE "RECONCILIATION_RESYNC" \in w.u.peer[p].f -> w
       [] ResyncOffered(me, w, p) ->
            Then(drbd_send_uuids(me, w, p, {"RESYNC"}, {}), resync \o asked)
       [] OTHER -> Then(w, asked)
UuidsReceived(me, w, p, mask) == AskedForResync(me, receive_uuids(me, w, p, mask), p)

\* drbd_resync, AFTER_UNSTABLE: both sides are stable now and compare anew
ResyncRule(me, w, p) ==
  LET r == drbd_uuid_compare(me, w.s, w.u, p, w.net.proto)
  IN IF r.strategy = "SPLIT_BRAIN_AUTO_RECOVER"
     THEN With(r, resolve_splitbrain_from_disk_states(w.s.disk, w.s.pdsk[p])) ELSE r
ResyncAs(me, w, p, r, repl) ==
  IF repl = L_ESTABLISHED /\ w.s.pdsk[p] >= D_CONSISTENT /\ w.s.disk = D_OUTDATED
  THEN Plan(w, [w.s EXCEPT !.disk = w.s.pdsk[p]], {})
  ELSE Plan([w EXCEPT !.u = IF repl # L_ESTABLISHED
                            THEN bitmap_mod_after_handshake(me, w.s, w.u, p, r) ELSE @],
            Upd(w.s, "repl", p, repl), {})
ResyncBy(me, w, p, r) ==
  IF ~is_strategy_determined(r.strategy) THEN Nothing(w)
  ELSE ResyncAs(me, w, p, r, strategy_to_repl_state(w.s, w.s.peer_role[p], r.strategy))
drbd_resync(me, w, p) == ResyncBy(me, w, p, ResyncRule(me, w, p))
\* still in the previous resync: postponed
ResyncEnd(plan, w, p) ==
  IF /\ plan.go /\ w.rv \in {"SS_NOTHING_TO_DO", "SS_RESYNC_RUNNING"}
     /\ plan.n.repl[p] \in {L_WF_BITMAP_S, L_WF_BITMAP_T} /\ plan.n.disk = plan.w.s.disk
  THEN [w EXCEPT !.u.peer[p].again = @ + 1] ELSE w

-----------------------------------------------------------------------------
\* The state of a peer arrives.  While connecting this is a part of Connect in
\* DrbdGeneration; here the connection is established.

\* "end of sync" confirmation: the peer was sync target, and we know of it
ConfirmsEnd(s, u, p) ==
  /\ repl_is_sync_target(u.peer[p].last)
  /\ s.pdsk[p] \in {D_INCONSISTENT, D_CONSISTENT}
  /\ s.repl[p] > L_ESTABLISHED /\ s.disk >= D_INCONSISTENT
\* the disk of the peer, flapping avoided
PeerDisk(s, u, p, m) ==
  LET real == IF m.disk # D_NEGOTIATING THEN m.disk
              ELSE IF "INCONSISTENT" \in u.peer[p].flags THEN D_INCONSISTENT ELSE D_CONSISTENT
  IN CASE ConfirmsEnd(s, u, p) /\ L_ESTABLISHED < m.repl /\ m.repl < L_SYNC_SOURCE ->
            D_INCONSISTENT
       [] /\ s.pdsk[p] = D_UP_TO_DATE /\ real = D_INCONSISTENT
          /\ s.repl[p] = L_ESTABLISHED /\ m.repl > L_SYNC_SOURCE -> D_UP_TO_DATE
       [] OTHER -> real

\* Both have a disk: is there a reason for a handshake?  The code means a UUID flag
\* of the peer by the last one, but tests the flag of the peer device with its number
Considers(s, u, p, m) ==
  \/ "CONSIDER_RESYNC" \in u.peer[p].f
  \/ s.repl[p] = L_ESTABLISHED /\ m.repl \in {L_STARTING_SYNC_S, L_STARTING_SYNC_T}
  \/ m.repl = L_WF_BITMAP_T /\ "RESYNC_AFTER_NEG" \in u.peer[p].f
Attaches(s, p, m) ==
  s.repl[p] = L_ESTABLISHED /\ (m.disk = D_NEGOTIATING \/ s.disk = D_NEGOTIATING)
Shaken(me, w, p, m) ==
  CASE m.disk < D_NEGOTIATING \/ w.s.disk < D_NEGOTIATING -> [r |-> Rule("", TRUE, ""), u |-> w.u]
    [] Considers(w.s, w.u, p, m) ->
         drbd_sync_handshake(me, w.s, w.u, p, m, w.net, FALSE)
    [] Attaches(w.s, p, m) ->
         drbd_attach_handshake(me, w.s, w.u, p,
           [m EXCEPT !.disk = PeerDisk(w.s, w.u, p, m)], w.net)
    [] OTHER -> [r |-> Rule("", TRUE, ""), u |-> w.u]
NewRepl(w, p, m, r) ==
  CASE r.strategy = "" -> IF m.repl = L_AHEAD THEN L_BEHIND ELSE w.s.repl[p]
    [] r.strategy \in Disconnects /\ w.s.disk = D_NEGOTIATING -> L_NEG_NO_RESULT
    [] OTHER -> strategy_to_repl_state(w.s, m.role, r.strategy)
\* the assignments of the state change
Assigned(s, p, m, repl, pdsk) ==
  [s EXCEPT !.repl[p] = IF s.disk = D_NEGOTIATING THEN @ ELSE repl,
            !.nr[p] = IF s.disk = D_NEGOTIATING THEN repl ELSE @,
            !.peer_role[p] = m.role,
            !.pdsk[p] = IF m.disk = D_NEGOTIATING THEN @ ELSE pdsk,
            !.susp_peer[p] = m.isp,
            !.quorate = IF m.quorum THEN @ \cup {p} ELSE @ \ {p}]
StateAs(w, p, m, sh, repl, pdsk) ==
  Plan([w EXCEPT !.u = [sh.u EXCEPT !.peer[p].f = @ \ {"CONSIDER_RESYNC", "RS_SOURCE_MISSED_END",
                                                        "RS_PEER_MISSED_END", "DISCARD_MY_DATA"}],
                 !.s.quorate = IF m.quorum THEN @ \cup {p} ELSE @ \ {p}],
       Assigned(w.s, p, m, repl, pdsk),
       IF w.s.disk = D_NEGOTIATING THEN {"recalc"} ELSE {})
StateShaken(me, w, p, m, sh) ==
  StateAs(w, p, m, sh, NewRepl(w, p, m, sh.r),
    IF Attaches(w.s, p, m) /\ w.s.disk = D_UP_TO_DATE
         /\ sh.r.strategy # "" /\ NewRepl(w, p, m, sh.r) = L_ESTABLISHED
    THEN D_UP_TO_DATE ELSE PeerDisk(w.s, w.u, p, m))
\* the part that is done when the peer has finished its resync
EndConfirmed(w, p, m) ==
  IF w.s.repl[p] = L_WF_BITMAP_S THEN [w EXCEPT !.u.peer[p].fin = m.disk]
  ELSE IF repl_is_sync_source(w.s.repl[p])
       THEN Then(w, << [do |-> "finished", p |-> p, pdsk |-> m.disk],
                       [do |-> "last", p |-> p, repl |-> m.repl] >>)
       ELSE w
receive_state(me, w, p, m) ==
  IF ConfirmsEnd(w.s, w.u, p) /\ m.repl = L_ESTABLISHED
  THEN EndConfirmed(w, p, m)
  ELSE Then(w, << [do |-> "state", p |-> p, m |-> m] >>)
StatePlan(me, w, p, m) == StateShaken(me, w, p, m, Shaken(me, w, p, m))
\* a refused state ends the connection; a resync the peer does not know of yet
\* makes this node tell it
StateEnd(me, w0, w, p, m) ==
  IF w.rv \notin {"SS_SUCCESS", "SS_NOTHING_TO_DO"}
  THEN Then(w, << [do |-> "cstate", p |-> p, val |-> C_DISCONNECTING] >>)
  ELSE LET w1 == IF /\ w0.s.repl[p] > L_OFF /\ w.s.repl[p] > L_ESTABLISHED
                    /\ m.repl <= L_ESTABLISHED /\ m.disk # D_NEGOTIATING
                 THEN drbd_send_state(drbd_send_uuids(me, w, p, {}, {}), p) ELSE w
       IN [w1 EXCEPT !.u.peer[p].last = m.repl]
\* P_STATE without a volume: the peer has stepped down
receive_role(w, p) == Plan(w, Upd(w.s, "peer_role", p, "Secondary"), {"hard"})

-----------------------------------------------------------------------------
\* The bitmap of a peer arrives, or single blocks of it.

\* mutant: the target does not answer with its bitmap
receive_bitmap_mute(me, w, p, m) ==
  LET w1 == [w EXCEPT !.u.bits[p] = @ \cup m.bits]
      start(side) == << [do |-> "start", p |-> p, side |-> side] >>
  IN CASE w.s.repl[p] = L_WF_BITMAP_T -> Then(w1, start(L_SYNC_TARGET))
       [] w.s.repl[p] = L_WF_BITMAP_S -> Then(w1, start(L_SYNC_SOURCE))
       [] OTHER -> w1

receive_bitmap(me, w, p, m) ==
  LET w1 == [w EXCEPT !.u.bits[p] = @ \cup m.bits]
      start(side) == << [do |-> "start", p |-> p, side |-> side] >>
  IN CASE w.s.repl[p] = L_WF_BITMAP_T ->
            Then(drbd_send_bitmap(w1, p), start(L_SYNC_TARGET))
       [] w.s.repl[p] = L_WF_BITMAP_S -> Then(w1, start(L_SYNC_SOURCE))
       [] OTHER -> w1
BitmapWork(w, p) == If(w.s.repl[p] = L_WF_BITMAP_S, SendBitmapAsSource(w, p), w)
receive_out_of_sync(w, p, m) == [w EXCEPT !.u.bits[p] = @ \cup {m.b}]

-----------------------------------------------------------------------------
\* A Primary is gone.  Its neighbors tell each other what they had received.

drbd_diskless_moved_on(me, u, p, val) ==
  /\ val # 0 /\ ~Same(u.peer[p].cur, val) /\ Same(u.peer[p].cur, u.cur)
  /\ drbd_find_bitmap_by_uuid(me, u, Anonymous(val)) = None
  /\ Anonymous(val) \notin Range(u.hist)
receive_current_uuid(me, w, p, m) ==
  Then([w EXCEPT !.u.peer[p].cur = m.val],
    (IF w.s.peer_role[p] = "Primary"
     THEN << [do |-> "weak", nodes |-> m.weak \cup {p}] >> ELSE <<>>)
    \o << [do |-> "current", p |-> p, val |-> m.val, weak |-> m.weak \cup {p},
           moved |-> drbd_diskless_moved_on(me, w.u, p, m.val)] >>)
CurrentReceived(me, w, p, j) ==
  CASE j.val = w.u.cur \/ w.s.repl[p] < L_ESTABLISHED \/ w.s.disk < D_UP_TO_DATE -> Nothing(w)
    [] OTHER ->
         IF w.s.peer_role[p] = "Primary"
         THEN Nothing(received_new_current(me, w, p, j.val, j.weak))
         ELSE IF j.moved THEN Plan(w, [w.s EXCEPT !.disk = D_OUTDATED], {}) ELSE Nothing(w)

\* The one with the newer dagtag becomes the source.
Reconcilable == {"NO_SYNC", "SYNC_SOURCE_USE_BITMAP", "SYNC_TARGET_USE_BITMAP"}
DagtagIgnored(me, w, p, m, strategy) ==
  \/ w.s.cstate[m.node] = C_CONNECTED \/ w.s.repl[p] > L_ESTABLISHED
  \/ w.s.disk \notin {D_CONSISTENT, D_UP_TO_DATE} \/ strategy \notin Reconcilable
ReconciledBy(strategy, offset) ==
  CASE strategy = "SYNC_SOURCE_USE_BITMAP" -> L_WF_BITMAP_S
    [] strategy = "SYNC_TARGET_USE_BITMAP" -> L_WF_BITMAP_T
    [] OTHER -> IF offset > 0 THEN L_WF_BITMAP_S
                ELSE IF offset < 0 THEN L_WF_BITMAP_T ELSE L_ESTABLISHED
Reconcile(w, p, m, repl) ==
  IF repl = L_ESTABLISHED THEN Nothing([w EXCEPT !.u.bits[p] = {}])
  ELSE Plan([w EXCEPT
               !.u.peer[p].recon = IF repl = L_WF_BITMAP_T THEN <<m.node, m.dagtag>> ELSE @,
               !.u.peer[p].f = @ \cup {"RECONCILIATION_RESYNC"}],
            Upd(w.s, "repl", p, repl), {})
DagtagReceived(me, w, p, m, strategy) ==
  IF DagtagIgnored(me, w, p, m, strategy) THEN Nothing(w)
  ELSE Reconcile(w, p, m, ReconciledBy(strategy, w.u.peer[m.node].dagtag - m.dagtag))
receive_peer_dagtag(me, w, p, m) ==
  DagtagReceived(me, w, p, m, drbd_uuid_compare(me, w.s, w.u, p, w.net.proto).strategy)
\* it waits until this node has done the same for the lost node
dagtag_waits(me, w, p, m) ==
  /\ "NOTIFY_PEERS_LOST_PRIMARY" \in w.u.peer[m.node].f
  /\ ~DagtagIgnored(me, w, p, m, drbd_uuid_compare(me, w.s, w.u, p, w.net.proto).strategy)

drbd_notify_peers_lost_primary(me, w, lost) ==
  EachPeer(me, w, LAMBDA v, q :
    If(q # lost /\ v.s.disk >= D_INCONSISTENT /\ v.s.pdsk[q] >= D_INCONSISTENT,
       Send(Send(v, q, [cmd |-> "current", val |-> v.u.cur,
                        weak |-> drbd_weak_nodes_device(me, v.s)]),
            q, [cmd |-> "dagtag", node |-> lost, dagtag |-> v.u.peer[lost].dagtag]), v))

-----------------------------------------------------------------------------
\* The writes of a peer for which it has not yet said who else has them.

is_sync_source(s, q) == repl_is_sync_source(s.repl[q]) \/ s.repl[q] = L_WF_BITMAP_S
\* a write from p is on the nodes in_sync; the peers that are resynced from
\* this node are told that they lack it
Settled(me, w, p, b, in_sync) ==
  EachPeer(me,
    [w EXCEPT !.u.bits = [q \in Peers(me) |-> IF q = p THEN w.u.bits[q]
                            ELSE IF q \in in_sync THEN w.u.bits[q] \ {b} ELSE w.u.bits[q] \cup {b}]],
    LAMBDA v, q : If(q \notin in_sync /\ is_sync_source(v.s, q),
                     Send(v, q, [cmd |-> "oos", b |-> b]), v))
SettledAll(me, w, p, reqs, in_sync) ==
  FoldLeft(LAMBDA v, r : Settled(me, v, p, r.b, in_sync), w, reqs)
got_peer_ack(me, w, p, m) ==
  LET unack == w.u.peer[p].unack
      i == SelectInSeq(unack, LAMBDA r : r.tag = m.tag)
  IN IF i = 0
     THEN Then(w, << [do |-> "cstate", p |-> p, val |-> C_NETWORK_FAILURE] >>)
     ELSE SettledAll(me, [w EXCEPT !.u.peer[p].unack = SubSeq(unack, i + 1, Len(unack))],
                     p, SubSeq(unack, 1, i), m.mask)
cleanup_unacked_peer_requests(me, w, p) ==
  SettledAll(me, [w EXCEPT !.u.peer[p].unack = <<>>], p, w.u.peer[p].unack, {})

-----------------------------------------------------------------------------
\* The flush a sync target asks the Primary for.  The answer comes behind the
\* writes, and behind what is said of them, by way of every peer.

SendAck(w, p, m) == IF w.s.cstate[p] = C_CONNECTED THEN [w EXCEPT !.ack[p] = Append(@, m)] ELSE w
receive_flush_requests(w, p, m) ==
  [w EXCEPT !.u.peer[p].flush = [seq |-> m.seq, tag |-> w.u.dagtag, sent |-> {}]]
\* are the requests up to the dagtag done, and the peers told?
FlushReached(u, tag) ==
  (\A r \in u.inflight : r.tag > tag) /\ (u.pack.tag = 0 \/ u.pack.tag > tag)
FlushSent(me, w, p, q) ==
  LET f == w.u.peer[p].flush
      w1 == [w EXCEPT !.u.peer[p].flush.sent = @ \cup {q}]
  IN IF \/ f.seq = 0 \/ q \in f.sent \/ w.s.cstate[q] # C_CONNECTED \/ ~FlushReached(w.u, f.tag)
     THEN w
     ELSE IF p = q THEN Send(w1, p, [cmd |-> "flush_ack", seq |-> f.seq, node |-> me])
     ELSE SendAck(w1, q, [cmd |-> "flush_forward", seq |-> f.seq, init |-> p])
FlushSentToAll(me, w, p) == EachPeer(me, w, LAMBDA v, q : FlushSent(me, v, p, q))
drbd_check_flush_dagtag_reached(me, w) == EachPeer(me, w, LAMBDA v, p : FlushSentToAll(me, v, p))
got_flush_forward(w, p, m) ==
  Send(w, m.init, [cmd |-> "flush_ack", seq |-> m.seq, node |-> p])
receive_flush_requests_ack(w, p, m) ==
  IF m.seq < w.u.flush_seq THEN w
  ELSE [w EXCEPT !.u.peer[m.node].pend = @ \ {p}]
drbd_any_flush_pending(me, u) == \E p \in Peers(me) : u.peer[p].pend # {}

\* process_peer_ack_list: the newest request goes to those it was sent to
NoPack == [tag |-> 0, mask |-> {}, sent |-> {}]
PeerAckSent(me, w) ==
  LET pack == w.u.pack
  IN EachPeer(me, [w EXCEPT !.u.pack = NoPack], LAMBDA v, p :
       If(pack.tag # 0 /\ p \in pack.sent,
          SendAck(v, p, [cmd |-> "peer_ack", tag |-> pack.tag, mask |-> pack.mask]), v))
drbd_flush_peer_acks(me, w) == drbd_check_flush_dagtag_reached(me, PeerAckSent(me, w))

-----------------------------------------------------------------------------
\* conn_disconnect: the first state change has been made when it is called.

peer_device_init_connect_state(w, p) ==
  [w EXCEPT !.u.peer[p].f = @ \ {"UUIDS_RECEIVED"}, !.u.peer[p].again = 0,
            !.s.quorate = @ \ {p}]
drbd_check_peers_new_current_uuid(me, w) ==
  If(w.s.have_quorum /\ drbd_data_accessible(me, w.s), drbd_uuid_new_current(me, w, FALSE), w)
\* writes that did not reach the lost peer are about to be finished
NeedsNewCurrent(me, w, writing) ==
  /\ ~resource_is_suspended(me, w.s) /\ writing /\ drbd_data_accessible(me, w.s)
  /\ w.s.new_cur_uuid
\* generate: NEW_CUR_UUID was set, and has been cleared before the peers were pinged
peer_device_disconnected(me, w, p, generate) ==
  LET w1 == peer_device_init_connect_state(w, p)
  IN IF generate THEN drbd_check_peers_new_current_uuid(me, [w1 EXCEPT !.s.new_cur_uuid = FALSE])
     ELSE w1
conn_disconnect(me, w, p, generate) ==
  Then(cleanup_unacked_peer_requests(me,
         peer_device_disconnected(me,
           [w EXCEPT !.u.peer[p].recon = <<None, 0>>, !.u.peer[p].f = @ \ {"RECEIVED_DAGTAG"}],
           p, generate), p),
       << [do |-> "unconnected", p |-> p], [do |-> "notify", p |-> p] >>
         \o (IF w.s.cstate[p] = C_DISCONNECTING
             THEN << [do |-> "cstate", p |-> p, val |-> C_STANDALONE] >>
             ELSE << [do |-> "connecting", p |-> p] >>))
NotifyLost(me, w, p) ==
  IF "NOTIFY_PEERS_LOST_PRIMARY" \in w.u.peer[p].f
  THEN [drbd_notify_peers_lost_primary(me, w, p)
          EXCEPT !.u.peer[p].f = @ \ {"NOTIFY_PEERS_LOST_PRIMARY"}]
  ELSE w
ChangeCstate(w, p, val) ==
  Plan(w, [w.s EXCEPT !.cstate[p] = val, !.repl[p] = IF val < C_CONNECTED THEN L_OFF ELSE @],
       {"hard"})
\* the receiver starts over
Unconnected(w, p) ==
  IF w.s.cstate[p] >= C_UNCONNECTED THEN Plan(w, Upd(w.s, "cstate", p, C_UNCONNECTED), {})
  ELSE Nothing(w)
Connecting(w, p) ==
  IF w.s.cstate[p] = C_UNCONNECTED THEN Plan(w, Upd(w.s, "cstate", p, C_CONNECTING), {})
  ELSE Nothing(w)

-----------------------------------------------------------------------------
\* The two ends of a new connection, within the two-phase commit that makes it.

NoConnect == [on |-> FALSE, conn |-> L_OFF, pdsk |-> D_UNKNOWN, isp |-> FALSE, strategy |-> ""]
\* the UUIDs have been sent; those of the peer arrive, j.m, and its state, j.ps
InitialUuids(me, w, j) ==
  receive_uuids110(me,
    Then([peer_device_init_connect_state(w, j.p) EXCEPT !.u = WithComm(me, w.s, @, j.p)],
         WeakNodes(j.ps.role, j.m) \o << [do |-> "shake", p |-> j.p, m |-> j.ps, demoted |-> j.demoted] >>), j.p, j.m)
InitialState(w, p, m, sh) ==
  [w EXCEPT
     !.u = [sh.u EXCEPT
        !.peer[p].f = @ \ {"RS_SOURCE_MISSED_END", "RS_PEER_MISSED_END"},
        !.peer[p].connect =
          [on |-> TRUE, conn |-> strategy_to_repl_state(w.s, m.role, sh.r.strategy),
           pdsk |-> PeerDisk(w.s, w.u, p, m), isp |-> m.isp, strategy |-> sh.r.strategy]],
     !.s.quorate = IF m.quorum THEN @ \cup {p} ELSE @ \ {p}]
InitialShake(me, w, j) ==
  InitialState(w, j.p, j.m, drbd_sync_handshake(me, w.s, w.u, j.p, j.m, w.net, j.demoted))

\* the commit, on every node it is about: p is the other end or None
Committed(w, j) ==
  [Plan(IF j.p = None THEN w
        ELSE [w EXCEPT !.u.peer[j.p].connect = NoConnect,
                       !.u.peer[j.p].f = @ \ {"DISCARD_MY_DATA"}],
        j.n, {}) EXCEPT !.reach = j.reach]
abort_connect(w, p) ==
  [w EXCEPT !.u.peer[p].connect = NoConnect, !.u.peer[p].f = @ \ {"UUIDS_RECEIVED"}]
\* the handshake has told that the peer has newer data
apply_local_state_change(w, p, disconnect) ==
  LET outdated == w.s.role = "Secondary" /\ w.u.peer[p].connect.conn \in
                    {L_WF_BITMAP_T, L_SYNC_TARGET, L_PAUSED_SYNC_T}
  IN Plan(abort_connect(w, p),
          [w.s EXCEPT !.disk = IF outdated THEN D_OUTDATED ELSE @,
                      !.cstate[p] = IF disconnect THEN C_DISCONNECTING ELSE @], {"hard"})

\* the end of drbd_set_role
send_current_states(me, w) ==
  EachPeer(me, w, LAMBDA v, p : drbd_send_state(v, p))
SetForced(me, w) ==
  EachPeer(me, [drbd_uuid_new_current(me, w, TRUE) EXCEPT !.s.new_cur_uuid = FALSE],
    LAMBDA v, p : If(v.s.cstate[p] = C_CONNECTED,
      [drbd_send_uuids(me, v, p, {}, {}) EXCEPT !.u.peer[p].f = @ \cup {"CONSIDER_RESYNC"}], v))
RoleSet(me, w, forced) ==
  send_current_states(me,
    CASE w.s.role = "Secondary" -> [w EXCEPT !.u.cur = Anonymous(@)]
      [] forced -> SetForced(me, w)
      [] OTHER -> w)

-----------------------------------------------------------------------------
\* The calls.

Prepared(me, w, j) ==
  CASE j.do = "finished" -> drbd_resync_finished(me, w, j.p, j.pdsk)
    [] j.do = "again" -> Again(w, j.p, j.repl)
    [] j.do = "from_primary" -> Nothing(try_to_get_resynced_from_primary(me, w))
    [] j.do = "start" -> drbd_start_resync(me, w, j.p, j.side)
    [] j.do = "weak" -> check_resync_source(me, w, j.nodes)
    [] j.do = "uuids" -> Nothing(UuidsReceived(me, w, j.p, j.mask))
    [] j.do = "resync" -> drbd_resync(me, w, j.p)
    [] j.do = "state" -> StatePlan(me, w, j.p, j.m)
    [] j.do = "last" -> Nothing([w EXCEPT !.u.peer[j.p].last = j.repl])
    [] j.do = "role" -> receive_role(w, j.p)
    [] j.do = "current" -> CurrentReceived(me, w, j.p, j)
    [] j.do = "dagtag" -> receive_peer_dagtag(me, w, j.p, j.m)
    [] j.do = "cstate" -> ChangeCstate(w, j.p, j.val)
    [] j.do = "unconnected" -> Unconnected(w, j.p)
    [] j.do = "connecting" -> Connecting(w, j.p)
    [] j.do = "notify" -> Nothing(NotifyLost(me, w, j.p))
    [] j.do = "initial" -> Nothing(InitialUuids(me, w, j))
    [] j.do = "shake" -> Nothing(InitialShake(me, w, j))
    [] j.do = "commit" -> Committed(w, j)
    [] j.do = "abort" -> Nothing(abort_connect(w, j.p))
    [] j.do = "failed" -> apply_local_state_change(w, j.p, j.disconnect)
    [] j.do = "bitmap" -> Nothing(BitmapWork(w, j.p))
    [] j.do = "role_set" -> Nothing(RoleSet(me, w, j.forced))
\* w0: before the call, plan: what it was prepared to do, w: after the change
Concluded(me, j, w0, plan, w) ==
  CASE j.do = "finished" -> FinishedEnd(me, w0, w, j.p)
    [] j.do = "start" -> StartEnd(w0, w, j.p)
    [] j.do = "resync" -> ResyncEnd(plan, w, j.p)
    [] j.do = "state" -> StateEnd(me, w0, w, j.p, j.m)
    [] OTHER -> w
Executed(me, j, w, plan) ==
  Concluded(me, j, w, plan,
    IF plan.go THEN Change(me, plan.w, plan.n, plan.f, plan.reach) ELSE plan.w)
Called(me, w, j) == Executed(me, j, w, Prepared(me, w, j))
NextCall(me, w) ==
  IF w.todo = <<>> THEN w ELSE Called(me, [w EXCEPT !.todo = Tail(@)], Head(w.todo))
\* as many calls as are made in one step (Run in DrbdGeneration repeats it)
MaxCalls == 3
Settle(me, w) == FoldLeft(LAMBDA v, i : NextCall(me, v), w, [i \in 1..MaxCalls |-> i])
=============================================================================

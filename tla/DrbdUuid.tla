------------------------------ MODULE DrbdUuid ------------------------------
(***************************************************************************)
(* The data generation UUIDs of drbd_main.c.  A node has a current UUID,   *)
(* for each peer a bitmap UUID (the generation since which the bitmap      *)
(* records differences, 0 when there are none) with the bits themselves,   *)
(* and a history.  Everything here is an operator on the state s of a node *)
(* (see DrbdState) and its UUIDs u, a record with the fields               *)
(*    cur, exposed, hist        md.current_uuid, exposed_data_uuid, history*)
(*    bm, tag, bits             per peer: bitmap_uuid, bitmap_dagtag, the  *)
(*                              blocks out of sync in its bitmap slot      *)
(*    dagtag                    resource->dagtag_sector                    *)
(*    peer                      what is known of each peer:                *)
(*       cur, bms, hist, flags, dirty, mask  from its last P_UUIDS110      *)
(*       comm     what was sent to it last: cur, bm, flags, set            *)
(*       start    rs_start_uuid                                            *)
(*       dagtag   last_dagtag_sector of the connection                     *)
(*       f        flags of the connection and the peer device              *)
(* A UUID is a number whose bit 0 is UUID_PRIMARY, 0 is none.              *)
(***************************************************************************)
EXTENDS DrbdState

CONSTANTS Blocks, HISTORY_UUIDS

UUID_JUST_CREATED == 4
Anonymous(val) == val - (val % 2)             \* val & ~UUID_PRIMARY
Same(v, w) == Anonymous(v) = Anonymous(w)
Marked(s, val) == Anonymous(val) + (IF s.role = "Primary" THEN 1 ELSE 0)
have_bitmap(p) == p \notin Diskless           \* MDF_HAVE_BITMAP

-----------------------------------------------------------------------------
\* The UUIDs of the node itself.

drbd_uuid_push_history(u, val) ==
  LET v == Anonymous(val)
  IN IF \/ val \in {0, UUID_JUST_CREATED} \/ v = Anonymous(u.cur)
        \/ \E p \in DOMAIN u.bm : v = Anonymous(u.bm[p])
        \/ v \in Range(u.hist)
     THEN u
     ELSE [u EXCEPT !.hist = SubSeq(<<v>> \o @, 1,
                        IF Len(@) < HISTORY_UUIDS THEN Len(@) + 1 ELSE HISTORY_UUIDS)]
push_all(u, vals) == FoldLeft(LAMBDA v, w : drbd_uuid_push_history(v, w), u, vals)

drbd_uuid_set_exposed(s, u, val) ==
  IF Same(u.exposed, val) \/ val = UUID_JUST_CREATED THEN u
  ELSE [u EXCEPT !.exposed = Marked(s, val)]

drbd_uuid_set_current(s, u, val) ==
  drbd_uuid_set_exposed(s, [u EXCEPT !.cur = Marked(s, val)], Marked(s, val))

drbd_uuid_set_bitmap(u, p, val) ==
  drbd_uuid_push_history(
    [u EXCEPT !.bm[p] = val, !.tag[p] = IF val = 0 THEN 0 ELSE u.dagtag], u.bm[p])

drbd_uuid_is_day0(u) ==
  /\ Anonymous(u.cur) \notin {0, UUID_JUST_CREATED}
  /\ u.hist = <<>> /\ \A p \in DOMAIN u.bm : u.bm[p] = 0

\* The peers for which the bitmap starts to record now: the data is about to
\* change and the peer is not going to get it.
prev_c_uuid(u, fresh) == IF u.cur = UUID_JUST_CREATED THEN fresh ELSE u.cur
Rotated(me, s, u, weak, fresh) ==
  {p \in Peers(me) :
     /\ u.bm[p] \in {0, prev_c_uuid(u, fresh)}
     /\ ~(s.pdsk[p] = D_DISKLESS /\ ~have_bitmap(p))
     /\ \/ s.pdsk[p] <= D_UNKNOWN /\ s.pdsk[p] # D_NEGOTIATING
        \/ p \in weak}
rotate_current_into_bitmap(me, s, u, weak, dagtag, fresh) ==
  [u EXCEPT
    !.bm = [p \in Peers(me) |-> IF p \in Rotated(me, s, u, weak, fresh)
                                THEN prev_c_uuid(u, fresh) ELSE u.bm[p]],
    !.tag = [p \in Peers(me) |-> IF p \in Rotated(me, s, u, weak, fresh)
                                 THEN dagtag ELSE u.tag[p]]]

\* the nodes that do not get what this node writes
drbd_weak_nodes_device(me, s) ==
  Nodes \ ((IF s.disk = D_UP_TO_DATE THEN {me} ELSE {})
            \cup {p \in Peers(me) : s.pdsk[p] > D_FAILED
                                  /\ s.pdsk[p] \notin {D_UNKNOWN, D_OUTDATED}})

initial_resync_nodes(me, s) ==
  {p \in Peers(me) : s.pdsk[p] = D_INCONSISTENT /\ s.repl[p] = L_ESTABLISHED}

\* __new_current_uuid_prepare: is there anything to tell apart?  Then the next
\* write is the first of a new generation.
NeedsCurrent(me, s, u, forced, fresh) ==
  \/ Rotated(me, s, u, IF forced THEN initial_resync_nodes(me, s) ELSE {}, fresh) # {}
  \/ drbd_uuid_is_day0(u)
new_current_uuid_prepare(me, s, u, forced, fresh) ==
  IF ~NeedsCurrent(me, s, u, forced, fresh) THEN u
  ELSE drbd_uuid_set_current(s,
         rotate_current_into_bitmap(me, s, u,
           IF forced THEN initial_resync_nodes(me, s) ELSE {}, u.dagtag, fresh), fresh + 2)

\* a slot of the bitmap gets another UUID, in the order of the node ids
SetSlot(u, p, val) ==
  IF u.bm[p] = val THEN u
  ELSE drbd_uuid_push_history(
         [u EXCEPT !.bm[p] = val, !.tag[p] = IF val = 0 THEN 0 ELSE u.dagtag], u.bm[p])
set_bitmap_slots(me, u, val, nodes) ==
  FoldLeft(LAMBDA v, p : IF p \in nodes /\ have_bitmap(p) THEN SetSlot(v, p, val) ELSE v,
           u, PeerSeq[me])
modified_slots(me, u, val, nodes) ==
  {p \in Peers(me) \cap nodes : have_bitmap(p) /\ u.bm[p] # val}

\* A Primary has begun a new generation.  A sync target adopts it when its
\* resync ends; any other disk now, and remembers the old one.
IsTargetOfAny(me, s) ==
  \E p \in Peers(me) : s.repl[p] \in {L_SYNC_TARGET, L_BEHIND, L_PAUSED_SYNC_T}
AdoptCurrent(me, s, u, val, weak, u1) ==
  drbd_uuid_push_history(
    drbd_uuid_set_current(s,
      set_bitmap_slots(me, u1, val, {p \in Peers(me) \ weak : u1.bm[p] # 0}), val),
    u.cur)
drbd_uuid_received_new_current(me, s, u, val, weak, dagtag, fresh) ==
  IF IsTargetOfAny(me, s)
  THEN [u EXCEPT !.peer = [p \in Peers(me) |->
          IF s.repl[p] \in {L_SYNC_TARGET, L_BEHIND, L_PAUSED_SYNC_T}
          THEN [u.peer[p] EXCEPT !.cur = val] ELSE u.peer[p]]]
  ELSE AdoptCurrent(me, s, u, val, weak,
         IF s.disk = D_UP_TO_DATE
         THEN rotate_current_into_bitmap(me, s, u, weak, dagtag, fresh) ELSE u)
\* to whom the node passes that on
CurrentRecipients(me, s, u, weak, fresh) ==
  IF IsTargetOfAny(me, s) THEN {}
  ELSE {p \in Peers(me) :
          \/ s.repl[p] \in {L_WF_BITMAP_S, L_SYNC_SOURCE, L_PAUSED_SYNC_S, L_ESTABLISHED}
          \/ s.pdsk[p] = D_DISKLESS
          \/ s.disk = D_UP_TO_DATE /\ p \in Rotated(me, s, u, weak, fresh)}

-----------------------------------------------------------------------------
\* A resync begins and ends.

drbd_uuid_resync_starting(me, s, u, p, fresh) ==
  rotate_current_into_bitmap(me, s,
    [u EXCEPT !.peer[p].start = u.cur,
              !.peer[p].f = IF "CRASHED_PRIMARY" \in u.peer[p].flags
                            THEN @ \cup {"SYNC_SRC_CRASHED_PRI"} ELSE @],
    {}, u.dagtag, fresh)

\* the peers that are on the UUID the node is going to have
peers_with_current_uuid(me, s, u, val) ==
  {q \in Peers(me) : /\ s.pdsk[q] >= D_INCONSISTENT /\ s.pdsk[q] # D_UNKNOWN
                     /\ Same(u.peer[q].cur, val)}
slots_of_peer(u, p) == {q \in Nodes : u.peer[p].bms[q] \notin {0, -1}}
\* The node has the data of the sync source now, and with it its history and
\* its differences to others.
Newer(me, s, u, p) ==
  slots_of_peer(u, p) \ peers_with_current_uuid(me, s, u, u.peer[p].cur)
Inherited(u, p) ==
  LET ids == SetToSortSeq(Nodes, LAMBDA a, b : a < b)
      bms == [i \in DOMAIN ids |-> u.peer[p].bms[ids[i]]]
  IN push_all(u, u.peer[p].hist \o SelectSeq(bms, LAMBDA v : v # -1))
\* mutant: the node stays in its own generation
drbd_uuid_resync_finished_stay(me, s, u, p) ==
  LET u1 == Inherited(u, p)
      u2 == set_bitmap_slots(me, u1, u.peer[p].start, Newer(me, s, u, p))
  IN set_bitmap_slots(me, u2, 0, Nodes \ Newer(me, s, u, p))

drbd_uuid_resync_finished(me, s, u, p) ==
  LET u1 == Inherited(u, p)
      u2 == set_bitmap_slots(me, u1, u.peer[p].start, Newer(me, s, u, p))
      u3 == set_bitmap_slots(me, u2, 0, Nodes \ Newer(me, s, u, p))
  IN drbd_uuid_set_current(s, drbd_uuid_push_history(u3, u3.cur), u.peer[p].cur)
drbd_uuid_resync_newer(me, s, u, p) ==
  modified_slots(me, Inherited(u, p), u.peer[p].start, Newer(me, s, u, p))

-----------------------------------------------------------------------------
\* What is sent: P_UUIDS110.

\* 0 says "in sync": not true while a resync from that peer waits
bitmap_uuid_sent(s, u, q) ==
  IF /\ u.bm[q] = 0 /\ repl_is_sync_target(s.repl[q])
     /\ u.peer[q].cur # 0 /\ ~Same(u.peer[q].cur, u.cur)
  THEN -1 ELSE u.bm[q]

UUID_FLAGS == {"RECONNECT", "DISCARD_MY_DATA", "CRASHED_PRIMARY", "INCONSISTENT", "STABLE",
               "SYNC_TARGET", "NEW_DATAGEN", "GOT_STABLE", "RESYNC"}
drbd_collect_local_uuid_flags(me, s, u, p) ==
  {f \in UUID_FLAGS :
     \/ f \in {"RECONNECT", "DISCARD_MY_DATA"} /\ f \in u.peer[p].f
     \/ f = "CRASHED_PRIMARY" /\ s.crashed
     \/ f = "INCONSISTENT" /\ ~s.md.consistent
     \/ f = "STABLE" /\ calc_device_stable(me, s)}

\* a sync target answers with the UUID it is about to get
SyncSources(me, s, p) == {q \in Peers(me) \ {p} : s.repl[q] = L_SYNC_TARGET}
drbd_resolved_uuid(me, s, u, p) ==
  IF SyncSources(me, s, p) = {} THEN u.cur
  ELSE u.peer[CHOOSE q \in SyncSources(me, s, p) : TRUE].cur
drbd_resolved_flags(me, s, u, p) ==
  {f \in UUID_FLAGS : \/ f \in drbd_collect_local_uuid_flags(me, s, u, p)
                      \/ f = "SYNC_TARGET" /\ SyncSources(me, s, p) # {}}

\* authoritative_mask: the Primaries this node is not stable because of
UuidsMsg(me, s, u, p, flags, mask) ==
  [cmd |-> "uuids", cur |-> drbd_resolved_uuid(me, s, u, p),
   bms |-> (me :> 0) @@ [q \in Peers(me) |-> IF have_bitmap(q)
                                              THEN bitmap_uuid_sent(s, u, q) ELSE -1],
   hist |-> u.hist, dirty |-> Cardinality(u.bits[p]),
   flags |-> {f \in UUID_FLAGS : f \in flags \/ f \in drbd_resolved_flags(me, s, u, p)},
   mask |-> IF calc_device_stable(me, s) THEN mask
            ELSE {q \in Peers(me) : s.peer_role[q] = "Primary"}]
WithComm(me, s, u, p) ==
  [u EXCEPT !.peer[p].comm =
     [cur |-> drbd_resolved_uuid(me, s, u, p), bm |-> u.bm[p],
      flags |-> drbd_resolved_flags(me, s, u, p), set |-> Cardinality(u.bits[p])]]

-----------------------------------------------------------------------------
\* What is concluded from the UUIDs of a peer.

find_node_id_by_bitmap_uuid(me, u, val) ==
  LET found == {q \in Peers(me) : Same(u.bm[q], val)}
      with == {q \in found : have_bitmap(q)}
      least(S) == CHOOSE q \in S : \A r \in S : q <= r
  IN IF with # {} THEN least(with) ELSE IF found # {} THEN least(found) ELSE None

copy_bitmap(u, from, to) ==
  drbd_uuid_push_history(
    [u EXCEPT !.bm[to] = u.bm[from], !.tag[to] = u.tag[from],
              !.bits[to] = u.bits[from],
              !.peer[to].comm.bm = IF @ = u.bm[to] THEN u.bm[from] ELSE @],
    u.bm[to])

\* While connecting: the data is the same, but one side has not seen the end
\* of the last resync.
current_equal(me, s, u, p) ==
  /\ Same(u.peer[p].cur, drbd_resolved_uuid(me, s, u, p))
  /\ "SYNC_TARGET" \notin u.peer[p].flags \cup u.peer[p].comm.flags
MissedEnd(me, s, u, p) ==
  LET to_peer == Anonymous(u.peer[p].comm.bm)
      to_me == Anonymous(u.peer[p].bms[me])
      none == u.peer[p].comm.set = 0 /\ u.peer[p].dirty = 0
      current == Anonymous(u.peer[p].cur)
      peer_missed == to_me # 0 /\ to_peer = 0 /\ to_me # current /\ ~none
      source_missed == to_me = 0 /\ to_peer # 0 /\ to_peer # current
      u1 == IF source_missed /\ none
            THEN drbd_uuid_push_history(
                   [u EXCEPT !.bm[p] = 0, !.peer[p].comm.bm = 0], u.bm[p])
            ELSE u
  IN [u1 EXCEPT !.peer[p].f = @
        \cup (IF peer_missed THEN {"RS_PEER_MISSED_END"} ELSE {})
        \cup (IF source_missed /\ ~none THEN {"RS_SOURCE_MISSED_END"} ELSE {})]

\* The peer has no differences to q any more.  If it is on our UUID neither
\* have we; if a bitmap started at its UUID that one is good for q too.
\* r: [u, wrote, filled]
Cleared(r, p, q) ==
  [r EXCEPT !.wrote = TRUE,
            !.u = drbd_uuid_push_history(
                    [@ EXCEPT !.bm[q] = 0, !.bits[q] = IF q = p THEN @ ELSE {}], r.u.bm[q])]
Filled(r, from, q) ==
  IF from # None /\ from # q /\ r.u.tag[from] > r.u.tag[q]
  THEN [r EXCEPT !.filled = TRUE, !.u = copy_bitmap(@, from, q)] ELSE r
FinishedFor(me, s, r, p, q, equal) ==
  LET r1 == IF equal THEN Cleared(r, p, q) ELSE r
  IN IF \/ q # p /\ s.repl[q] > L_ESTABLISHED
        \/ ~(r.u.peer[p].bms[q] = 0 /\ r.u.bm[q] # 0)
     THEN r
     ELSE Filled(r1, find_node_id_by_bitmap_uuid(me, r1.u, r.u.peer[p].cur), q)

\* The peer records the same differences to two nodes that are away.
CopyPairs(me, s, u, p) ==
  {r \in Peers(me) \X Peers(me) :
     /\ r[1] < r[2] /\ \A i \in 1..2 : s.cstate[r[i]] # C_CONNECTED
     /\ u.peer[p].bms[r[1]] \notin {0, -1}
     /\ Same(u.peer[p].bms[r[1]], u.peer[p].bms[r[2]])}
CopyTo(r, from, q, val) ==
  IF from # q /\ r.u.bm[q] # val THEN [r EXCEPT !.wrote = TRUE, !.u = copy_bitmap(@, from, q)]
  ELSE r
CopyPair(r, from, pair, val) ==
  IF from = None THEN r ELSE CopyTo(CopyTo(r, from, pair[1], val), from, pair[2], val)
detect_copy_ops_on_peer(me, s, r, p) ==
  LET pair == CHOOSE x \in CopyPairs(me, s, r.u, p) : TRUE
      val == Anonymous(r.u.peer[p].bms[pair[1]])
  IN IF CopyPairs(me, s, r.u, p) = {} THEN r
     ELSE CopyPair(r, find_node_id_by_bitmap_uuid(me, r.u, val), pair, val)

\* wrote and filled: whom is it passed on to?
drbd_uuid_detect_finished_resyncs(me, s, u, p) ==
  IF s.repl[p] = L_OFF /\ current_equal(me, s, u, p)
  THEN [u |-> MissedEnd(me, s, u, p), wrote |-> FALSE, filled |-> FALSE]
  ELSE detect_copy_ops_on_peer(me, s,
         FoldLeft(LAMBDA r, q : FinishedFor(me, s, r, p, q, current_equal(me, s, u, p)),
                  [u |-> u, wrote |-> FALSE, filled |-> FALSE], PeerSeq[me]), p)
=============================================================================

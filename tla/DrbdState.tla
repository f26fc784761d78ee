------------------------------ MODULE DrbdState ------------------------------
(***************************************************************************)
(* The state engine of drbd_state.c for a resource of one volume.  A state *)
(* change copies the current state, lets its caller assign new values, and *)
(* ends in ___end_state_change: sanitize_state derives what follows from   *)
(* the assignments, is_valid_transition and __is_valid_soft_transition may *)
(* refuse the result, update_members and finish_state_change complete it.  *)
(* Here each of these is an operator on the old state o (OLD, which equals *)
(* NOW in a state change) and the new state n.                             *)
(*                                                                         *)
(* Besides the fields of DrbdQuorum a state has                            *)
(*    susp_nod, susp_quorum         IO is suspended: no data, no quorum     *)
(*    new_cur_uuid                  NEW_CUR_UUID: a new data generation is  *)
(*                                  due before the next write               *)
(*    crashed, restore              CRASHED_PRIMARY, RESTORE_QUORUM         *)
(*    md                            the flags of the meta data in memory    *)
(* and for each peer                                                       *)
(*    stable, got_stable, match     UUID_FLAG_STABLE, UUID_FLAG_GOT_STABLE, *)
(*                                  the peer's current UUID equals ours     *)
(*    active, susp_other, susp_user, susp_peer, susp_fen, nr                *)
(*                                  resync_active, resync_susp_other_c, ... *)
(*                                  negotiation_result                      *)
(* and the sets of peers mdout (MDF_PEER_OUTDATED), quorate (PEER_QUORATE)  *)
(* and holding (HOLDING_UUID_READ_LOCK: in the handshake).  open is "no",    *)
(* "ro" or "rw": how the device is held open; inflight: the peers whose      *)
(* writes are being processed here.                                          *)
(***************************************************************************)
EXTENDS DrbdQuorum, Sequences, SequencesExt

CONSTANTS Fencing,     \* "dont-care", "resource-only" or "resource-and-stonith"
          BmWeight,    \* bits set in the bitmap slot of each peer
          SuspendNoData,    \* on-no-data-accessible is suspend-io
          SuspendNoQuorum   \* on-no-quorum is suspend-io

ASSUME FencingAssumption ==
  Fencing \in {"dont-care", "resource-only", "resource-and-stonith"}

\* for_each_peer_device: in the order of the node ids
PeerSeq == [n \in Nodes |-> SetToSortSeq(Peers(n), LAMBDA a, b : a < b)]

Upd(s, field, p, v) == [s EXCEPT ![field][p] = v]

repl_is_sync_target(r) == r \in {L_SYNC_TARGET, L_PAUSED_SYNC_T}
repl_is_sync_source(r) == r \in {L_SYNC_SOURCE, L_PAUSED_SYNC_S}
repl_is_sync(r) == repl_is_sync_target(r) \/ repl_is_sync_source(r)

-----------------------------------------------------------------------------
\* What may be concluded from a state.

drbd_data_accessible(me, s) ==
  \/ s.disk = D_UP_TO_DATE
  \/ \E p \in Peers(me) : s.pdsk[p] = D_UP_TO_DATE

\* calc_device_stable and drbd_device_stable: not the neighbor of a Primary
calc_device_stable(me, s) ==
  s.role = "Primary" \/ \A p \in Peers(me) : s.peer_role[p] # "Primary"

calc_resync_target(me, s) ==
  \E p \in Peers(me) :
    s.repl[p] \in {L_WF_BITMAP_T, L_SYNC_TARGET, L_PAUSED_SYNC_T}

may_return_to_up_to_date(me, s) ==
  \A p \in Peers(me) :
    ~(s.pdsk[p] = D_DISKLESS /\ s.peer_role[p] = "Primary" /\ ~s.match[p])

\* with fencing, only when every peer is connected or known to be outdated
may_be_up_to_date(me, s) ==
  /\ may_return_to_up_to_date(me, s)
  /\ Fencing # "dont-care" =>
       \A p \in Peers(me) \ Diskless :
         \/ s.pdsk[p] \in {D_INCONSISTENT, D_OUTDATED, D_CONSISTENT, D_UP_TO_DATE}
         \/ p \in s.mdout

stable_up_to_date_neighbor(me, s) ==
  \E p \in Peers(me) : s.pdsk[p] = D_UP_TO_DATE /\ s.stable[p] /\ s.match[p]

\* the state a disk has after it was attached, or stops negotiating
disk_state_from_md(me, s) ==
  CASE ~s.md.consistent -> D_INCONSISTENT
    [] s.md.consistent /\ ~s.md.up_to_date -> D_OUTDATED
    [] OTHER -> IF may_be_up_to_date(me, s) THEN D_UP_TO_DATE
                ELSE D_CONSISTENT

resource_is_suspended(me, s) ==
  s.susp_nod \/ s.susp_quorum \/ \E p \in Peers(me) : s.susp_fen[p]

resync_suspended(s, p) == s.susp_user[p] \/ s.susp_peer[p] \/ s.susp_other[p]

is_sync_target_other_c(me, s, p) ==
  \E q \in Peers(me) \ {p} : repl_is_sync_target(s.repl[q])

lost_contact_to_peer_data(o, n, p) ==
  /\ o.pdsk[p] >= D_INCONSISTENT /\ o.pdsk[p] \notin {D_UNKNOWN, D_OUTDATED}
  /\ n.pdsk[p] < D_INCONSISTENT \/ n.pdsk[p] \in {D_UNKNOWN, D_OUTDATED}

should_try_become_up_to_date(me, o, n) ==
  /\ o.disk = D_UP_TO_DATE /\ n.disk = D_CONSISTENT
  /\ may_return_to_up_to_date(me, n)

-----------------------------------------------------------------------------
\* sanitize_state: what follows from the assignments of a state change.

SanitizeConnections(me, n) ==
  [n EXCEPT !.peer_role =
     [p \in Peers(me) |-> IF n.cstate[p] < C_CONNECTED THEN "Unknown"
                          ELSE n.peer_role[p]]]

\* A connection to a Primary broke: the Primary may have crashed.
maybe_crashed_primary(me, o, n, hard) ==
  \E p \in Peers(me) :
    /\ o.peer_role[p] = "Primary" /\ o.cstate[p] = C_CONNECTED
    /\ \/ n.cstate[p] \in C_TIMEOUT..C_PROTOCOL_ERROR
       \/ n.cstate[p] = C_DISCONNECTING /\ hard

\* An attaching disk stays D_NEGOTIATING until every connected peer that has
\* a disk has answered; then the answers decide.
SanitizeNegotiation(me, o, n) ==
  LET n1 == IF o.disk = D_NEGOTIATING THEN n
            ELSE [n EXCEPT !.nr = [p \in Peers(me) |-> L_NEGOTIATING]]
      all == {p \in Peers(me) : n1.pdsk[p] >= D_NEGOTIATING /\ n1.repl[p] # L_OFF}
      none == {p \in all : n1.nr[p] = L_NEG_NO_RESULT}
      disk == CASE none # {} /\ none = all -> D_DETACHING
                [] \E p \in all : n1.nr[p] = L_WF_BITMAP_T -> D_INCONSISTENT
                [] OTHER -> IF \E p \in all : n1.pdsk[p] = D_UP_TO_DATE
                            THEN D_UP_TO_DATE ELSE disk_state_from_md(me, n1)
      delayed(p) == n1.nr[p] = L_WF_BITMAP_S /\ disk = D_INCONSISTENT
      result(p) == CASE n1.cstate[p] < C_CONNECTED -> n1.repl[p]
                     [] n1.nr[p] = L_NEGOTIATING -> n1.repl[p]
                     [] n1.nr[p] = L_NEG_NO_RESULT -> L_ESTABLISHED
                     [] OTHER -> IF delayed(p) THEN L_PAUSED_SYNC_S ELSE n1.nr[p]
  IN CASE n.disk # D_NEGOTIATING -> n
       [] n.disk = D_NEGOTIATING
            /\ \E p \in all : n1.nr[p] = L_NEGOTIATING -> n1
       [] OTHER ->
            [n1 EXCEPT !.disk = disk,
                       !.repl = [p \in Peers(me) |-> result(p)],
                       !.susp_other = [p \in Peers(me) |->
                          n1.susp_other[p] \/ (delayed(p) /\ n1.cstate[p] = C_CONNECTED)]]

\* The first pass over the peers: without a link nothing is known of a peer's
\* disk but that it is out of date, and no resync runs without disks.
SanitizeLinks(me, o, n) ==
  LET off(p) == n.repl[p] < L_ESTABLISHED
      pdsk(p) == IF off(p) /\ (n.pdsk[p] > D_UNKNOWN \/ n.pdsk[p] < D_INCONSISTENT)
                 THEN D_UNKNOWN ELSE n.pdsk[p]
      abort(p) == n.repl[p] > L_ESTABLISHED
                    /\ (n.disk <= D_FAILED \/ pdsk(p) <= D_FAILED)
      lost(p) == o.repl[p] >= L_ESTABLISHED /\ off(p)
  IN [n EXCEPT
       !.pdsk = [p \in Peers(me) |-> pdsk(p)],
       !.repl = [p \in Peers(me) |-> IF abort(p) THEN L_ESTABLISHED ELSE n.repl[p]],
       !.susp_peer = [p \in Peers(me) |-> n.susp_peer[p] /\ ~off(p)],
       !.active = [p \in Peers(me) |-> n.active[p] /\ ~lost(p) /\ ~abort(p)],
       !.susp_fen = [p \in Peers(me) |->
          \/ n.susp_fen[p]
          \/ /\ Fencing = "resource-and-stonith"
             /\ n.role = "Primary" /\ off(p) /\ pdsk(p) = D_UNKNOWN
             /\ o.role # "Primary" \/ o.pdsk[p] # D_UNKNOWN]]

drbd_is_sync_target_candidate(n, p) ==
  /\ repl_is_sync_target(n.repl[p])
  /\ ~n.susp_peer[p] /\ ~n.susp_user[p]
  /\ n.pdsk[p] >= D_OUTDATED

\* At most one of the peers this node is sync target of is active, the one
\* with the fewest bits set unless the current one has hardly more.
None == -1
last(S) == IF S = {} THEN None ELSE CHOOSE p \in S : \A q \in S : q <= p
lightest(S) == last({p \in S : \A q \in S : BmWeight[p] <= BmWeight[q]})
Kept(current, best) ==
  IF current # None /\ BmWeight[current] < BmWeight[best] + 256 THEN current ELSE best
Desired(active, kept) == IF active # None /\ kept # active THEN None ELSE kept
Select(me, n, desired) ==
  [n EXCEPT
    !.active = [p \in Peers(me) |-> n.active[p] \/ p = desired],
    !.susp_other = [p \in Peers(me) |-> desired # None /\ p # desired],
    !.repl = [p \in Peers(me) |->
       IF ~repl_is_sync_target(n.repl[p]) THEN n.repl[p]
       ELSE IF p = desired THEN L_SYNC_TARGET ELSE L_PAUSED_SYNC_T]]
drbd_select_sync_target(me, o, n) ==
  LET candidates == {p \in Peers(me) : drbd_is_sync_target_candidate(n, p)}
  IN Select(me, n,
       Desired(last({p \in Peers(me) : n.active[p]}),
               Kept(last({p \in candidates : o.repl[p] = L_SYNC_TARGET}),
                    lightest(candidates))))

\* the disk states each replication state allows: own and the peer's
DiskRange(r) ==
  CASE r = L_OFF -> <<D_DISKLESS, D_UP_TO_DATE, D_INCONSISTENT, D_UNKNOWN>>
    [] r \in {L_WF_BITMAP_T, L_STARTING_SYNC_T, L_WF_SYNC_UUID, L_BEHIND} ->
         <<D_INCONSISTENT, D_OUTDATED, D_INCONSISTENT, D_UP_TO_DATE>>
    [] r \in {L_VERIFY_S, L_VERIFY_T} ->
         <<D_INCONSISTENT, D_UP_TO_DATE, D_INCONSISTENT, D_UP_TO_DATE>>
    [] r = L_ESTABLISHED -> <<D_DISKLESS, D_UP_TO_DATE, D_DISKLESS, D_UP_TO_DATE>>
    [] r \in {L_WF_BITMAP_S, L_PAUSED_SYNC_S, L_STARTING_SYNC_S, L_AHEAD} ->
         <<D_INCONSISTENT, D_UP_TO_DATE, D_INCONSISTENT, D_CONSISTENT>>
    [] r \in {L_PAUSED_SYNC_T, L_SYNC_TARGET} ->
         <<D_INCONSISTENT, D_INCONSISTENT, D_INCONSISTENT, D_UP_TO_DATE>>
    [] r = L_SYNC_SOURCE ->
         <<D_INCONSISTENT, D_UP_TO_DATE, D_INCONSISTENT, D_INCONSISTENT>>

Clamp(x, lo, hi) == IF x > hi THEN hi ELSE IF x < lo THEN lo ELSE x

\* A sync source waits until its own resync as target is done; a full resync
\* as target makes the node a waiting target of its other peers.
PauseResync(me, o, n, p) ==
  LET n1 == IF o.repl[p] # L_SYNC_SOURCE /\ n.repl[p] = L_SYNC_SOURCE
                 /\ is_sync_target_other_c(me, n, p)
            THEN Upd(n, "susp_other", p, TRUE) ELSE n
      n2 == CASE resync_suspended(n1, p) /\ n1.repl[p] = L_SYNC_SOURCE ->
                   Upd(n1, "repl", p, L_PAUSED_SYNC_S)
              [] ~resync_suspended(n1, p) /\ n1.repl[p] = L_PAUSED_SYNC_S ->
                   Upd(n1, "repl", p, L_SYNC_SOURCE)
              [] OTHER -> n1
  IN IF o.repl[p] # L_STARTING_SYNC_T /\ n2.repl[p] = L_STARTING_SYNC_T
     THEN [n2 EXCEPT !.repl = [q \in Peers(me) |->
             IF q # p /\ n2.pdsk[q] >= D_INCONSISTENT /\ n2.repl[q] = L_ESTABLISHED
             THEN L_PAUSED_SYNC_T ELSE n2.repl[q]]]
     ELSE n2

LimitDisks(o, n, p) ==
  LET range == DiskRange(n.repl[p])
      pdsk == Clamp(n.pdsk[p], range[3], range[4])
  IN [n EXCEPT
       !.disk = Clamp(n.disk, range[1], range[2]),
       !.pdsk[p] = IF o.pdsk[p] = D_DISKLESS /\ pdsk \in {D_FAILED, D_DETACHING}
                   THEN D_DISKLESS ELSE pdsk]

\* When the own disk becomes as good as the peer's without a resync: the
\* peer is stable and as good, or the consistent disk is confirmed.
UpgradeDisk(me, o, n, p) ==
  LET d1 == IF /\ n.repl[p] = L_ESTABLISHED /\ n.disk = D_OUTDATED
               /\ n.pdsk[p] >= D_CONSISTENT /\ n.stable[p]
               /\ \/ o.repl[p] < L_ESTABLISHED
                  \/ n.got_stable[p]
                  \/ o.pdsk[p] = D_OUTDATED
            THEN n.pdsk[p] ELSE n.disk
      d2 == IF /\ o.repl[p] = L_WF_BITMAP_T /\ n.repl[p] = L_OFF
               /\ d1 = D_OUTDATED
               /\ stable_up_to_date_neighbor(me, n) /\ may_be_up_to_date(me, n)
            THEN D_UP_TO_DATE ELSE d1
      d3 == IF /\ o.repl[p] < L_ESTABLISHED /\ n.repl[p] >= L_ESTABLISHED
               /\ d2 = D_CONSISTENT /\ may_be_up_to_date(me, n)
            THEN D_UP_TO_DATE ELSE d2
      d4 == IF /\ d3 = D_CONSISTENT /\ n.stable[p]
               /\ o.pdsk[p] = D_CONSISTENT /\ n.pdsk[p] = D_UP_TO_DATE
            THEN D_UP_TO_DATE ELSE d3
  IN [n EXCEPT !.disk = d4, !.got_stable[p] = FALSE]

\* A Primary without a disk decides which data is valid: a disk with its
\* UUID is up to date, one with another UUID is not; a diskless node does
\* not believe a peer that claims to be up to date with another UUID.
TrustUuids(me, o, n, p) ==
  LET meets == /\ o.peer_role[p] = "Unknown" /\ n.peer_role[p] = "Primary"
               /\ n.pdsk[p] = D_DISKLESS /\ n.disk >= D_NEGOTIATING
      same == n.match[p] /\ ~is_sync_target_other_c(me, n, p)
      disk == CASE meets /\ same /\ o.disk < D_UP_TO_DATE -> D_UP_TO_DATE
                [] meets /\ ~same /\ n.disk = D_UP_TO_DATE -> D_CONSISTENT
                [] OTHER -> n.disk
      doubt == /\ disk = D_DISKLESS /\ n.pdsk[p] = D_UP_TO_DATE
               /\ o.pdsk[p] # D_UP_TO_DATE /\ ~n.match[p]
  IN [n EXCEPT !.disk = disk,
               !.pdsk[p] = IF doubt THEN D_CONSISTENT ELSE @]

SanitizePeer(me, o, n, p) ==
  TrustUuids(me, o,
    UpgradeDisk(me, o, LimitDisks(o, PauseResync(me, o, n, p), p), p), p)

\* The end: quorum, then the suspensions, and last the disk of a node whose
\* Primary may have crashed, which is then only D_CONSISTENT.
WithQuorum(me, o, n, hard, quorum) ==
  LET blind(s) == s.role = "Primary" /\ ~drbd_data_accessible(me, s)
      lost == \E p \in Peers(me) :
                o.repl[p] >= L_ESTABLISHED /\ n.repl[p] < L_ESTABLISHED
      d1 == IF lost /\ n.disk = D_NEGOTIATING THEN disk_state_from_md(me, n)
            ELSE n.disk
      d2 == IF /\ maybe_crashed_primary(me, o, n, hard)
               /\ \A p \in Peers(me) : n.peer_role[p] # "Primary"
               /\ d1 = D_UP_TO_DATE /\ o.role = "Secondary"
            THEN D_CONSISTENT ELSE d1
  IN [n EXCEPT !.have_quorum = quorum,
               !.disk = d2,
               !.susp_nod = IF ~blind(n) THEN FALSE
                            ELSE @ \/ (SuspendNoData /\ ~blind(o)),
               !.susp_quorum = SuspendNoQuorum /\ ~quorum]
SanitizeQuorum(me, o, n, hard) ==
  WithQuorum(me, o, n, hard,
    \/ QuorumSetting = QOU_OFF
    \/ calc_quorum(me, n, o.have_quorum, n.quorate)
    \/ n.disk = D_UP_TO_DATE /\ n.restore)

SanitizePeers(me, o, n) ==
  FoldLeft(LAMBDA s, p : SanitizePeer(me, o, s, p), n, PeerSeq[me])
sanitize_state(me, o, n, hard) ==
  SanitizeQuorum(me, o,
    SanitizePeers(me, o,
      drbd_select_sync_target(me, o,
        SanitizeLinks(me, o,
          SanitizeNegotiation(me, o, SanitizeConnections(me, n))))), hard)

-----------------------------------------------------------------------------
\* Which transitions are refused.  The result is the SS_ code.

\* limits even what the environment imposes
is_valid_transition(me, o, n) ==
  LET bad(p) == LET oc == o.cstate[p]
                    nc == n.cstate[p]
                IN /\ oc # nc
                   /\ \/ oc = C_STANDALONE /\ nc # C_UNCONNECTED
                      \/ oc \in C_TIMEOUT..C_TEAR_DOWN
                           /\ nc \notin {C_UNCONNECTED, C_DISCONNECTING}
                      \/ oc = C_DISCONNECTING /\ nc # C_STANDALONE
      first == SelectSeq(PeerSeq[me], LAMBDA p : bad(p))
  IN CASE first # <<>> ->
            IF o.cstate[Head(first)] # C_STANDALONE THEN "SS_IN_TRANSIENT_STATE"
            ELSE IF n.cstate[Head(first)] = C_DISCONNECTING
                 THEN "SS_ALREADY_STANDALONE" ELSE "SS_NEED_CONNECTION"
       [] OTHER -> IF n.disk \in {D_FAILED, D_DETACHING} /\ o.disk = D_DISKLESS
                   THEN "SS_IS_DISKLESS" ELSE "SS_SUCCESS"

\* a Primary decides on its data, and the neighbor of one can not doubt it
local_disk_may_be_outdated(me, o, n) ==
  LET primaries == {p \in Peers(me) :
                      n.peer_role[p] = "Primary" /\ n.repl[p] > L_OFF}
      first == CHOOSE p \in primaries : \A q \in primaries : p <= q
      targets == {L_WF_SYNC_UUID, L_WF_BITMAP_T, L_STARTING_SYNC_T,
                  L_SYNC_TARGET, L_PAUSED_SYNC_T, L_BEHIND}
  IN IF n.role = "Primary"
     THEN \E p \in Peers(me) :
            n.pdsk[p] = D_UP_TO_DATE /\ n.repl[p] = L_WF_BITMAP_T
     ELSE \/ primaries = {}
          \/ /\ n.pdsk[first] = D_DISKLESS
             /\ o.repl[first] = L_OFF /\ n.repl[first] = L_ESTABLISHED
          \/ \E p \in Peers(me) : n.repl[p] \in targets

\* the first half of __is_valid_soft_transition: roles and connections
InvalidRoles(me, o, n, two_primaries) ==
  LET promote == o.role # "Primary" /\ n.role = "Primary"
      in_handshake == \E p \in n.holding : o.repl[p] = L_OFF
      peer_promotes(p) == n.peer_role[p] = "Primary" /\ o.peer_role[p] # "Primary"
  IN CASE ~two_primaries /\ promote
            /\ \E p \in Peers(me) : n.peer_role[p] = "Primary" ->
            "SS_TWO_PRIMARIES"
       [] in_handshake /\ o.role # n.role -> "SS_IN_TRANSIENT_STATE"
       [] \E p \in Peers(me) : n.cstate[p] = C_DISCONNECTING
                               /\ o.cstate[p] = C_UNCONNECTED ->
            "SS_IN_TRANSIENT_STATE"
       [] ~two_primaries /\ o.role = "Primary"
            /\ \E p \in Peers(me) : peer_promotes(p) -> "SS_TWO_PRIMARIES"
       [] ~two_primaries /\ o.open = "ro"
            /\ \E p \in Peers(me) : peer_promotes(p) -> "SS_PRIMARY_READER"
       [] in_handshake /\ o.disk # n.disk
            /\ (n.disk = D_ATTACHING \/ n.disk = D_DETACHING) ->
            "SS_IN_TRANSIENT_STATE"
       [] OTHER -> "SS_SUCCESS"

\* and the second: disks, quorum and resyncs
InvalidDisks(me, o, n, ign_openers) ==
  LET data(s) == drbd_data_accessible(me, s)
      demote == o.role = "Primary" /\ n.role = "Secondary"
      starts(p, S) == n.repl[p] \in S /\ o.repl[p] \notin S
      bad(p) ==
        \/ /\ Fencing # "dont-care" /\ n.role = "Primary"
           /\ n.repl[p] < L_ESTABLISHED /\ n.pdsk[p] > D_OUTDATED
           /\ ~(o.role = "Primary" /\ o.repl[p] < L_ESTABLISHED
                                   /\ o.pdsk[p] > D_OUTDATED)
        \/ n.repl[p] > L_ESTABLISHED /\ n.disk < D_INCONSISTENT
             /\ ~(o.repl[p] > L_ESTABLISHED /\ o.disk < D_INCONSISTENT)
        \/ n.repl[p] > L_ESTABLISHED /\ n.pdsk[p] < D_INCONSISTENT
             /\ ~(o.repl[p] > L_ESTABLISHED /\ o.pdsk[p] < D_INCONSISTENT)
        \/ repl_is_sync_source(o.repl[p]) /\ n.repl[p] = L_WF_BITMAP_S
        \/ repl_is_sync_target(o.repl[p]) /\ n.repl[p] = L_WF_BITMAP_T
        \/ (starts(p, {L_STARTING_SYNC_S}) \/ starts(p, {L_STARTING_SYNC_T})
             \/ starts(p, {L_VERIFY_S}) \/ starts(p, {L_VERIFY_T}))
           /\ o.repl[p] # L_ESTABLISHED
  IN CASE demote /\ o.open = "rw" /\ ~ign_openers -> "SS_DEVICE_IN_USE"
       [] n.disk > D_ATTACHING /\ o.disk = D_DISKLESS -> "SS_IS_DISKLESS"
       [] n.disk = D_OUTDATED /\ o.disk < D_OUTDATED
            /\ o.disk \notin {D_ATTACHING, D_NEGOTIATING}
            /\ ~\E p \in Peers(me) : o.repl[p] = L_SYNC_TARGET
                                   /\ n.repl[p] = L_ESTABLISHED ->
            "SS_LOWER_THAN_OUTDATED"
       [] /\ ~(o.role = "Primary" /\ ~data(o))
          /\ n.role = "Primary" /\ ~data(n) -> "SS_NO_UP_TO_DATE_DISK"
       [] o.open = "ro" /\ data(o) /\ ~data(n) -> "SS_NO_UP_TO_DATE_DISK"
       [] /\ o.role = "Secondary" \/ o.have_quorum
          /\ n.role = "Primary" /\ ~n.have_quorum -> "SS_NO_QUORUM"
       [] \/ \E p \in Peers(me) : n.disk = D_NEGOTIATING /\ n.pdsk[p] = D_NEGOTIATING
          \/ \E p, q \in Peers(me) :
               p # q /\ n.pdsk[p] = D_NEGOTIATING /\ n.pdsk[q] = D_NEGOTIATING ->
            "SS_IN_TRANSIENT_STATE"
       [] o.disk > D_OUTDATED /\ n.disk = D_OUTDATED
            /\ ~local_disk_may_be_outdated(me, o, n) -> "SS_CONNECTED_OUTDATES"
       [] \E p \in Peers(me) : bad(p) -> "SS_RESYNC_RUNNING"
       [] OTHER -> "SS_SUCCESS"

\* try_state_change, after sanitize_state: a hard change is not asked for
FirstError(v, w) == IF v = "SS_SUCCESS" THEN w ELSE v
is_valid(me, o, n, f) ==
  FirstError(is_valid_transition(me, o, n),
    IF "hard" \in f THEN "SS_SUCCESS"
    ELSE FirstError(InvalidRoles(me, o, n, "two_primaries" \in f),
                    InvalidDisks(me, o, n, "ign_openers" \in f)))

-----------------------------------------------------------------------------
\* Completing a change.

\* members is what the initiator of a two-phase commit counted, or else grows
\* by every new connection; only an empty two-phase commit removes a lost peer
\* mutant: the members stay what they were
update_members_never(me, o, n, reachable) == n.members

update_members(me, o, n, reachable) ==
  IF reachable # {} THEN reachable
  ELSE n.members \cup {p \in Peers(me) : o.cstate[p] < C_CONNECTED
                                       /\ n.cstate[p] = C_CONNECTED}

drbd_need_twopc_after_lost_peer(o, n, p) ==
  o.cstate[p] = C_CONNECTED /\ n.cstate[p] < C_CONNECTED
    /\ n.cstate[p] # C_TEAR_DOWN

\* does this change end in an empty two-phase commit?  (update_members and
\* the end of w_after_state_change)
drbd_schedule_empty_twopc(me, o, n, reachable) ==
  \/ reachable = {} /\ \E p \in Peers(me) \cap n.members :
                          drbd_need_twopc_after_lost_peer(o, n, p)
  \/ should_try_become_up_to_date(me, o, n)
  \/ n.role = "Primary" /\ ~drbd_data_accessible(me, o)
                        /\ drbd_data_accessible(me, n)

\* from here on writes are not replicated to a peer that was: the data is of
\* a new generation before the next write
create_new_uuid(me, o, n) ==
  \/ o.role = "Secondary" /\ n.role = "Primary"
  \/ \E p \in Peers(me) :
       \/ o.repl[p] # L_AHEAD /\ n.repl[p] = L_AHEAD
       \/ /\ lost_contact_to_peer_data(o, n, p)
          /\ n.role = "Primary" /\ drbd_data_accessible(me, n)
  \/ /\ o.disk >= D_INCONSISTENT /\ n.disk < D_INCONSISTENT
     /\ n.role = "Primary" /\ drbd_data_accessible(me, n)

\* a peer, or this node, with access to up-to-date data may go on writing
primary_and_data_present(me, n) ==
  /\ n.role = "Primary" \/ \E p \in Peers(me) : n.peer_role[p] = "Primary"
  /\ drbd_data_accessible(me, n)

\* The meta data flags after a change.  The activity log is applied after a
\* crash when primary_ind is set.
MetaData(me, o, n) ==
  LET primary_near == \E p \in Peers(me) : n.peer_role[p] = "Primary"
      in_flight == \E p \in Peers(me) :
         IF n.cstate[p] = C_CONNECTED THEN p \in n.inflight
         ELSE n.cstate[p] \notin {C_STANDALONE, C_UNCONNECTED, C_CONNECTING}
      detach == n.disk = D_DETACHING
  IN [consistent |-> IF n.disk >= D_INCONSISTENT THEN n.disk > D_INCONSISTENT
                     ELSE n.md.consistent,
      up_to_date |->
        CASE n.disk >= D_INCONSISTENT -> n.disk > D_OUTDATED
          [] n.disk \in {D_FAILED, D_DETACHING} ->
               n.md.up_to_date /\ ~primary_and_data_present(me, n)
          [] OTHER -> n.md.up_to_date,
      crashed |-> n.crashed \/ (n.role = "Primary" /\ ~detach),
      quorum |-> n.have_quorum,
      members |-> n.members,
      primary_ind |->
        CASE n.role = "Primary" \/ primary_near -> TRUE
          [] ~in_flight /\ (detach \/ n.disk >= D_INCONSISTENT) -> FALSE
          [] OTHER -> n.md.primary_ind]

\* finish_state_change; the meta data is reached through the old disk state
ldev(o, n, min) == o.disk >= min /\ n.disk # D_NEGOTIATING
WithMetaData(me, o, n) ==
  IF ldev(o, n, D_DETACHING) THEN [n EXCEPT !.md = MetaData(me, o, n)] ELSE n
finish_state_change(me, o, n) ==
  LET both(s, p) == s.disk = D_UP_TO_DATE /\ s.pdsk[p] = D_UP_TO_DATE
  IN WithMetaData(me, o, [n EXCEPT
        !.restore = @ /\ ~n.have_quorum /\ n.disk >= D_UP_TO_DATE,
        !.crashed = @ /\ ~\E p \in Peers(me) : ~both(o, p) /\ both(n, p),
        !.mdout = IF ldev(o, n, D_INCONSISTENT)
                  THEN {p \in Peers(me) \ Diskless :
                          n.pdsk[p] \in {D_INCONSISTENT, D_OUTDATED}}
                  ELSE @,
        !.new_cur_uuid =
           IF o.role = "Primary" /\ n.role = "Secondary" THEN FALSE
           ELSE @ \/ create_new_uuid(me, o, n)])

\* ___end_state_change: f holds "hard", "two_primaries", "ign_openers" and
\* "recalc"; reachable is the result of a two-phase commit of this node, {}
\* otherwise.  A refused change leaves the old state; one that assigns nothing
\* new is not sanitized, yet completed.
Changed(me, o, n, f) ==
  n # o \/ "recalc" \in f \/ \E p \in Peers(me) : n.got_stable[p]
Completed(me, o, n, reachable) ==
  finish_state_change(me, o, [n EXCEPT !.members = update_members(me, o, n, reachable)])
TryState(me, o, n, f, reachable) ==
  [rv |-> is_valid(me, o, n, f), s |-> Completed(me, o, n, reachable)]
Refused(o, r) == IF r.rv = "SS_SUCCESS" THEN r ELSE [r EXCEPT !.s = o]
EndStateChange(me, o, n, f, reachable) ==
  IF Changed(me, o, n, f)
  THEN Refused(o, TryState(me, o, sanitize_state(me, o, n, "hard" \in f), f, reachable))
  ELSE [rv |-> "SS_NOTHING_TO_DO", s |-> Completed(me, o, n, reachable)]

Ok(r) == r.rv \in {"SS_SUCCESS", "SS_NOTHING_TO_DO"}
=============================================================================

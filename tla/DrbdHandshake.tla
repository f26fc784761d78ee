---------------------------- MODULE DrbdHandshake ----------------------------
(***************************************************************************)
(* The handshake of drbd_receiver.c: from its own UUIDs u and those it has *)
(* been sent by peer p (u.peer[p]) a node concludes whether a resync with  *)
(* p is necessary, in which direction, and on which bitmap.  Both nodes    *)
(* conclude for themselves and nobody compares the results: they have to   *)
(* match.  net is the configuration of the connection, with the fields     *)
(*    zero, one, two   after-sb-0pri, after-sb-1pri, after-sb-2pri         *)
(*    rr               rr-conflict                                         *)
(*    asbp, proto      always-asbp, the wire protocol                      *)
(* and ps the role, the disk and the quorum in the peer's P_STATE.         *)
(***************************************************************************)
EXTENDS DrbdUuid

Sources == {"SYNC_SOURCE_IF_BOTH_FAILED", "SYNC_SOURCE_USE_BITMAP",
            "SYNC_SOURCE_SET_BITMAP", "SYNC_SOURCE_COPY_BITMAP"}
Targets == {"SYNC_TARGET_IF_BOTH_FAILED", "SYNC_TARGET_USE_BITMAP",
            "SYNC_TARGET_SET_BITMAP", "SYNC_TARGET_CLEAR_BITMAP",
            "SYNC_TARGET_PRIMARY_RECONNECT", "SYNC_TARGET_PRIMARY_DISCONNECT"}
SplitBrain == {"SPLIT_BRAIN_AUTO_RECOVER", "SPLIT_BRAIN_DISCONNECT"}
Disconnects == SplitBrain \cup {"UNRELATED_DATA", "SYNC_TARGET_PRIMARY_DISCONNECT"}
Reconnects == {"RETRY_CONNECT", "SYNC_TARGET_PRIMARY_RECONNECT"}
is_strategy_determined(x) == x \in Sources \cup Targets \cup {"NO_SYNC"}
full_sync_equivalent(x) ==
  CASE x = "SYNC_SOURCE_USE_BITMAP" -> "SYNC_SOURCE_SET_BITMAP"
    [] x = "SYNC_TARGET_USE_BITMAP" -> "SYNC_TARGET_SET_BITMAP"
    [] OTHER -> "UNDETERMINED"
reverse(x) ==
  CASE x = "SYNC_SOURCE_IF_BOTH_FAILED" -> "SYNC_TARGET_IF_BOTH_FAILED"
    [] x = "SYNC_SOURCE_USE_BITMAP" -> "SYNC_TARGET_USE_BITMAP"
    [] x = "SYNC_SOURCE_SET_BITMAP" -> "SYNC_TARGET_SET_BITMAP"
    [] x = "SYNC_TARGET_IF_BOTH_FAILED" -> "SYNC_SOURCE_IF_BOTH_FAILED"
    [] x = "SYNC_TARGET_USE_BITMAP" -> "SYNC_SOURCE_USE_BITMAP"
    [] x = "SYNC_TARGET_SET_BITMAP" -> "SYNC_SOURCE_SET_BITMAP"
    [] OTHER -> "UNDETERMINED"

\* RESOLVE_CONFLICTS: exactly one end of a connection has it
resolve_conflicts(me, p) == me > p

drbd_find_peer_bitmap_by_uuid(u, p, val) ==
  LET found == {q \in Nodes : Anonymous(u.peer[p].bms[q]) = val}
  IN IF found = {} THEN None ELSE Min(found)
drbd_find_bitmap_by_uuid(me, u, val) ==
  LET found == {q \in Peers(me) : Anonymous(u.bm[q]) = val}
  IN IF found = {} THEN None ELSE Min(found)

-----------------------------------------------------------------------------
\* drbd_uuid_compare: the first rule that applies decides.

Rule(name, when, strategy) == [rule |-> name, when |-> when, strategy |-> strategy,
                               node |-> None]
OfNode(r, q) == [r EXCEPT !.node = q]
FirstOf(rules) == SelectSeq(rules, LAMBDA r : r.when)[1]

\* both have the same current UUID
EqualRules(lf, pf, f, proto, resolve) ==
  LET lost == "PRIMARY_LOST_QUORUM"
      crashed == "CRASHED_PRIMARY"
      again == "RECONNECT"
  IN << Rule("SYNC_SOURCE_MISSED_FINISH", "RS_SOURCE_MISSED_END" \in f,
             "SYNC_SOURCE_USE_BITMAP"),
        Rule("SYNC_TARGET_PEER_MISSED_FINISH", "RS_PEER_MISSED_END" \in f,
             "SYNC_TARGET_USE_BITMAP"),
        Rule("RECONNECTED", again \in pf /\ again \in lf, "NO_SYNC"),
        Rule("CRASHED_PRIMARY", proto # "C" /\ crashed \in lf \ pf,
             "SYNC_SOURCE_USE_BITMAP"),
        Rule("CRASHED_PRIMARY", proto # "C" /\ crashed \in pf \ lf,
             "SYNC_TARGET_USE_BITMAP"),
        Rule("LOST_QUORUM", lost \in pf \ lf, "SYNC_TARGET_IF_BOTH_FAILED"),
        Rule("LOST_QUORUM", lost \in lf \ pf, "SYNC_SOURCE_IF_BOTH_FAILED"),
        Rule("LOST_QUORUM", lost \in lf \cap pf,
             IF resolve THEN "SYNC_SOURCE_IF_BOTH_FAILED"
             ELSE "SYNC_TARGET_IF_BOTH_FAILED"),
        Rule("LOST_QUORUM", crashed \in pf /\ again \in lf, "SYNC_SOURCE_IF_BOTH_FAILED"),
        Rule("LOST_QUORUM", crashed \in lf /\ again \in pf, "SYNC_TARGET_IF_BOTH_FAILED"),
        Rule("LOST_QUORUM", again \in pf \cup lf, "NO_SYNC"),
        Rule("BOTH_OFF", crashed \in lf \cap pf /\ resolve, "SYNC_TARGET_IF_BOTH_FAILED"),
        Rule("BOTH_OFF", crashed \in lf, "SYNC_SOURCE_IF_BOTH_FAILED"),
        Rule("BOTH_OFF", crashed \in pf, "SYNC_TARGET_IF_BOTH_FAILED"),
        Rule("BOTH_OFF", TRUE, "NO_SYNC") >>

\* mutant: the one whose UUID the other has in its bitmap slot is the source
DifferentRules_reversed(me, u, p, self, peer, theirs, mine) ==
  << Rule("BITMAP_PEER", self = Anonymous(u.peer[p].bms[me]), "SYNC_SOURCE_USE_BITMAP"),
     Rule("BITMAP_SELF", Anonymous(u.bm[p]) = peer, "SYNC_TARGET_USE_BITMAP"),
     Rule("BITMAP_BOTH", Same(u.bm[p], u.peer[p].bms[me]) /\ Anonymous(u.bm[p]) # 0,
          "SPLIT_BRAIN_AUTO_RECOVER"),
     Rule("HISTORY_BOTH", TRUE, "UNRELATED_DATA") >>

\* they differ: which one is the ancestor of the other?
DifferentRules(me, u, p, self, peer, theirs, mine) ==
  LET in_theirs == self \in Range(u.peer[p].hist)
      in_mine == peer \in Range(u.hist)
  IN << Rule("BITMAP_PEER", self = Anonymous(u.peer[p].bms[me]), "SYNC_TARGET_USE_BITMAP"),
        OfNode(Rule("BITMAP_PEER_OTHER", theirs # None, "SYNC_TARGET_CLEAR_BITMAP"), theirs),
        Rule("BITMAP_SELF", Anonymous(u.bm[p]) = peer, "SYNC_SOURCE_USE_BITMAP"),
        OfNode(Rule("BITMAP_SELF_OTHER", mine # None, "SYNC_SOURCE_COPY_BITMAP"), mine),
        Rule("HISTORY_PEER", in_theirs /\ ~in_mine, "SYNC_TARGET_SET_BITMAP"),
        Rule("HISTORY_SELF", ~in_theirs /\ in_mine, "SYNC_SOURCE_SET_BITMAP"),
        Rule("BITMAP_BOTH", Same(u.bm[p], u.peer[p].bms[me]) /\ Anonymous(u.bm[p]) # 0,
             "SPLIT_BRAIN_AUTO_RECOVER"),
        Rule("HISTORY_BOTH", Range(u.hist) \cap Range(u.peer[p].hist) # {},
             "SPLIT_BRAIN_DISCONNECT"),
        Rule("HISTORY_BOTH", TRUE, "UNRELATED_DATA") >>

\* the UUID or the flags have changed since they were sent
ChangedMeanwhile(me, s, u, p) ==
  \/ ~Same(drbd_resolved_uuid(me, s, u, p), u.peer[p].comm.cur)
  \/ u.bm[p] # u.peer[p].comm.bm
  \/ drbd_resolved_flags(me, s, u, p) \ {"INCONSISTENT"}
       # u.peer[p].comm.flags \ {"INCONSISTENT"}

Created(val) == IF val = 0 THEN UUID_JUST_CREATED ELSE val
CompareRules(me, s, u, p, self, peer, proto) ==
  << Rule("INITIAL_HANDSHAKE_CHANGED",
          ChangedMeanwhile(me, s, u, p) /\ s.cstate[p] = C_CONNECTING, "RETRY_CONNECT"),
     Rule("JUST_CREATED_BOTH", self = UUID_JUST_CREATED /\ peer = UUID_JUST_CREATED, "NO_SYNC"),
     Rule("JUST_CREATED_SELF", self = UUID_JUST_CREATED, "SYNC_TARGET_SET_BITMAP"),
     Rule("JUST_CREATED_PEER", peer = UUID_JUST_CREATED, "SYNC_SOURCE_SET_BITMAP") >>
  \o (IF self = peer
      THEN EqualRules(drbd_resolved_flags(me, s, u, p), u.peer[p].flags, u.peer[p].f,
                      proto, resolve_conflicts(me, p))
      ELSE DifferentRules(me, u, p, self, peer,
             drbd_find_peer_bitmap_by_uuid(u, p, self), drbd_find_bitmap_by_uuid(me, u, peer)))
drbd_uuid_compare(me, s, u, p, proto) ==
  FirstOf(CompareRules(me, s, u, p,
            Created(Anonymous(drbd_resolved_uuid(me, s, u, p))),
            Created(Anonymous(u.peer[p].cur)), proto))

-----------------------------------------------------------------------------
\* Recovery after a split brain, for nobody, one node or both being Primary.

asb_primaries(me, u, p) == << u.bm[p] % 2, u.peer[p].bms[me] % 2 >>
asb_zero_changes(self, peer, resolve) ==
  CASE peer = 0 /\ self = 0 -> IF resolve THEN "SYNC_TARGET_USE_BITMAP"
                               ELSE "SYNC_SOURCE_USE_BITMAP"
    [] peer = 0 /\ self # 0 -> "SYNC_SOURCE_USE_BITMAP"
    [] peer # 0 /\ self = 0 -> "SYNC_TARGET_USE_BITMAP"
    [] OTHER -> "UNDETERMINED"
asb_least_changes(self, peer, resolve) ==
  CASE self < peer -> "SYNC_TARGET_USE_BITMAP"
    [] self > peer -> "SYNC_SOURCE_USE_BITMAP"
    [] OTHER -> IF resolve THEN "SYNC_TARGET_USE_BITMAP" ELSE "SYNC_SOURCE_USE_BITMAP"
\* each policy falls through to the next one while there is no decision
asb_fall_through(policy, pri, self, peer, resolve) ==
  LET younger == IF policy # "discard-younger-primary" THEN "UNDETERMINED"
                 ELSE CASE pri = <<0, 1>> -> "SYNC_TARGET_USE_BITMAP"
                        [] pri = <<1, 0>> -> "SYNC_SOURCE_USE_BITMAP"
                        [] OTHER -> "UNDETERMINED"
      older == IF policy \notin {"discard-younger-primary", "discard-older-primary"}
               THEN "UNDETERMINED"
               ELSE CASE pri = <<0, 1>> -> "SYNC_SOURCE_USE_BITMAP"
                      [] pri = <<1, 0>> -> "SYNC_TARGET_USE_BITMAP"
                      [] OTHER -> "UNDETERMINED"
      zero == IF policy = "discard-least-changes" THEN "UNDETERMINED"
              ELSE asb_zero_changes(self, peer, resolve)
      least == IF policy = "discard-zero-changes" THEN "SPLIT_BRAIN_DISCONNECT"
               ELSE asb_least_changes(self, peer, resolve)
  IN SelectSeq(<<younger, older, zero, least>>, LAMBDA x : x # "UNDETERMINED")[1]
drbd_asb_recover_0p(me, u, p, net) ==
  CASE net.zero = "discard-local" -> "SYNC_TARGET_USE_BITMAP"
    [] net.zero = "discard-remote" -> "SYNC_SOURCE_USE_BITMAP"
    [] net.zero \in {"discard-younger-primary", "discard-older-primary",
                     "discard-zero-changes", "discard-least-changes"} ->
         asb_fall_through(net.zero, asb_primaries(me, u, p), u.peer[p].comm.set,
                          u.peer[p].dirty, resolve_conflicts(me, p))
    [] OTHER -> "SPLIT_BRAIN_DISCONNECT"

\* mutant: discard-secondary does not ask who is the Secondary
drbd_asb_recover_1p_source(me, s, net, zero, demoted) ==
  IF net.one = "discard-secondary" THEN "SYNC_SOURCE_USE_BITMAP" ELSE "SPLIT_BRAIN_DISCONNECT"

\* with "call-pri-lost-after-sb" the Primary that loses tries to step down:
\* whether it can is an input
drbd_asb_recover_1p(me, s, net, zero, demoted) ==
  CASE \/ net.one = "consensus" /\ zero = "SYNC_TARGET_USE_BITMAP" /\ s.role = "Secondary"
       \/ net.one = "consensus" /\ zero = "SYNC_SOURCE_USE_BITMAP" /\ s.role = "Primary"
       \/ net.one = "violently-as0p"
       \/ /\ net.one = "call-pri-lost-after-sb"
          /\ zero = "SYNC_TARGET_USE_BITMAP" /\ s.role = "Primary" => demoted -> zero
    [] net.one = "discard-secondary" ->
         IF s.role = "Primary" THEN "SYNC_SOURCE_USE_BITMAP" ELSE "SYNC_TARGET_USE_BITMAP"
    [] OTHER -> "SPLIT_BRAIN_DISCONNECT"
drbd_asb_recover_2p(net, zero, demoted) ==
  IF \/ net.two = "violently-as0p"
     \/ net.two = "call-pri-lost-after-sb" /\ (zero = "SYNC_TARGET_USE_BITMAP" => demoted)
  THEN zero ELSE "SPLIT_BRAIN_DISCONNECT"
drbd_asb_recover(me, s, u, p, ps, net, demoted) ==
  LET pcount == Cardinality({r \in {<<1, s.role>>, <<2, ps.role>>} : r[2] = "Primary"})
      zero == drbd_asb_recover_0p(me, u, p, net)
  IN CASE pcount = 0 -> zero
       [] pcount = 1 -> drbd_asb_recover_1p(me, s, net, zero, demoted)
       [] OTHER -> drbd_asb_recover_2p(net, zero, demoted)

-----------------------------------------------------------------------------
\* The UUIDs are equal or do not say which side is better: the disks may.

drbd_disk_states_source_strategy(me, u, p) ==
  LET slot == u.peer[p].bms[me]
      i == IF slot = 0 THEN None ELSE drbd_find_bitmap_by_uuid(me, u, slot)
  IN IF \/ "SYNC_TARGET" \notin u.peer[p].flags
        \/ slot = u.peer[p].cur /\ slot = u.cur
        \/ i = p
     THEN Rule("", TRUE, "SYNC_SOURCE_USE_BITMAP")
     ELSE IF i = None THEN Rule("", TRUE, "SYNC_SOURCE_SET_BITMAP")
          ELSE OfNode(Rule("", TRUE, "SYNC_SOURCE_COPY_BITMAP"), i)
drbd_disk_states_target_strategy(me, u, p) ==
  LET i == drbd_find_peer_bitmap_by_uuid(u, p, u.bm[p])
  IN IF \/ "SYNC_TARGET" \notin u.peer[p].comm.flags
        \/ u.bm[p] = u.peer[p].cur /\ u.bm[p] = u.cur
        \/ i = me
     THEN Rule("", TRUE, "SYNC_TARGET_USE_BITMAP")
     ELSE IF i = None THEN Rule("", TRUE, "SYNC_TARGET_SET_BITMAP")
          ELSE OfNode(Rule("", TRUE, "SYNC_TARGET_CLEAR_BITMAP"), i)

DiskStatesDecide(disk, pdsk, r) ==
  /\ disk # pdsk /\ disk >= D_INCONSISTENT /\ pdsk >= D_INCONSISTENT /\ pdsk # D_UNKNOWN
  /\ \/ /\ r.rule \in {"RECONNECTED", "LOST_QUORUM", "BOTH_OFF"}
        /\ r.strategy \in {"SYNC_TARGET_IF_BOTH_FAILED", "SYNC_SOURCE_IF_BOTH_FAILED"}
     \/ /\ r.strategy = "NO_SYNC"
        /\ \/ disk = D_INCONSISTENT /\ pdsk > D_INCONSISTENT
           \/ pdsk = D_INCONSISTENT /\ disk > D_INCONSISTENT
disk_states_to_strategy(me, u, p, disk, pdsk, r) ==
  IF ~DiskStatesDecide(disk, pdsk, r) THEN r
  ELSE [(IF disk > pdsk THEN drbd_disk_states_source_strategy(me, u, p)
         ELSE drbd_disk_states_target_strategy(me, u, p)) EXCEPT !.rule = r.rule]

-----------------------------------------------------------------------------
\* drbd_sync_handshake: the steps between drbd_handshake and the bitmaps.

discard_my_data_to_strategy(u, p) ==
  LET self == "DISCARD_MY_DATA" \in u.peer[p].f
      peer == "DISCARD_MY_DATA" \in u.peer[p].flags
  IN IF self /\ ~peer THEN "SYNC_TARGET_USE_BITMAP"
     ELSE IF peer /\ ~self THEN "SYNC_SOURCE_USE_BITMAP" ELSE "UNDETERMINED"

With(r, x) == [r EXCEPT !.strategy = x]
IgnoreUnstable(me, s, u, p, r) ==
  IF /\ r.strategy = "SPLIT_BRAIN_AUTO_RECOVER"
     /\ ~calc_device_stable(me, s) \/ "STABLE" \notin u.peer[p].flags
  THEN With(r, "NO_SYNC") ELSE r

ByQuorum(s, ps, r) ==
  CASE QuorumSetting # 0 /\ s.have_quorum /\ ~ps.quorum -> "SYNC_SOURCE_USE_BITMAP"
    [] QuorumSetting # 0 /\ ~s.have_quorum /\ ps.quorum -> "SYNC_TARGET_USE_BITMAP"
    [] OTHER -> r.strategy
Recovered(me, s, u, p, ps, net, demoted, r) ==
  LET x == ByQuorum(s, ps, r)
      y == IF x \in SplitBrain THEN drbd_asb_recover(me, s, u, p, ps, net, demoted) ELSE x
  IN IF r.strategy = "SPLIT_BRAIN_DISCONNECT" /\ y \notin SplitBrain
     THEN full_sync_equivalent(y) ELSE y
RecoverSplitBrain(me, s, u, p, ps, net, demoted, r) ==
  IF \/ r.strategy = "SPLIT_BRAIN_AUTO_RECOVER"
     \/ r.strategy = "SPLIT_BRAIN_DISCONNECT" /\ net.asbp
  THEN With(r, Recovered(me, s, u, p, ps, net, demoted, r)) ELSE r

\* --discard-my-data resolves a split brain ...
ManuallySolved(user, full, r) ==
  IF r.strategy = "SPLIT_BRAIN_DISCONNECT" /\ user # "UNDETERMINED"
  THEN With(r, IF full THEN full_sync_equivalent(user) ELSE user) ELSE r
\* ... and reverses a resync
Reversed(user, disk, pdsk, r) ==
  IF /\ r.strategy # "NO_SYNC" /\ user # "UNDETERMINED"
     /\ (r.strategy \in Sources) # (user \in Sources)
     /\ reverse(r.strategy) # "UNDETERMINED"
     /\ (IF reverse(r.strategy) \in Sources THEN disk ELSE pdsk) > D_INCONSISTENT
  THEN With(r, reverse(r.strategy)) ELSE r

\* a Primary must not become sync target of other data
PrimaryTarget(s, u, p, net, r) ==
  IF /\ r.strategy \in Targets \ {"SYNC_TARGET_IF_BOTH_FAILED"}
     /\ s.role = "Primary" /\ s.disk >= D_CONSISTENT
     /\ u.peer[p].comm.set > 0 \/ u.peer[p].dirty > 0
  THEN CASE net.rr \in {"disconnect", "call-pri-lost"} ->
              With(r, "SYNC_TARGET_PRIMARY_DISCONNECT")
         [] net.rr = "retry-connect" -> With(r, "SYNC_TARGET_PRIMARY_RECONNECT")
         [] net.rr = "auto-discard" /\ r.strategy = "SYNC_TARGET_USE_BITMAP"
              /\ r.rule = "CRASHED_PRIMARY" -> With(r, "SYNC_SOURCE_USE_BITMAP")
         [] OTHER -> r
  ELSE r
AutoDiscard(ps, net, r) ==
  IF /\ r.strategy = "SYNC_SOURCE_USE_BITMAP" /\ r.rule = "CRASHED_PRIMARY"
     /\ ps.role = "Primary" /\ ps.disk >= D_CONSISTENT /\ net.rr = "auto-discard"
  THEN With(r, "SYNC_TARGET_USE_BITMAP") ELSE r

\* the end of a resync was missed, but its source is no good source any more
MissedFinish(r) ==
  r.rule \in {"SYNC_SOURCE_MISSED_FINISH", "SYNC_TARGET_PEER_MISSED_FINISH"}
SkipMissed(disk, pdsk, r) ==
  IF MissedFinish(r) /\ \/ r.strategy = "SYNC_SOURCE_USE_BITMAP" /\ disk # D_UP_TO_DATE
                        \/ r.strategy = "SYNC_TARGET_USE_BITMAP" /\ pdsk # D_UP_TO_DATE
  THEN With(r, "NO_SYNC") ELSE r
\* what that changes in the UUIDs
SkipForgets(u, p, pdsk, r) ==
  IF MissedFinish(r) /\ r.strategy = "SYNC_TARGET_USE_BITMAP" /\ pdsk # D_UP_TO_DATE
  THEN drbd_uuid_push_history([u EXCEPT !.bm[p] = 0], u.bm[p]) ELSE u

NegotiatedDisk(me, s) == IF s.disk = D_NEGOTIATING THEN disk_state_from_md(me, s) ELSE s.disk
UpToRecovery(me, s, u, p, ps, net, demoted) ==
  LET r0 == drbd_uuid_compare(me, s, u, p, net.proto)
  IN IF r0.strategy \in {"RETRY_CONNECT", "UNRELATED_DATA"} THEN r0
     ELSE LET r1 == IgnoreUnstable(me, s, u, p,
                      disk_states_to_strategy(me, u, p, NegotiatedDisk(me, s), ps.disk, r0))
              full == r1.strategy = "SPLIT_BRAIN_DISCONNECT"
          IN ManuallySolved(discard_my_data_to_strategy(u, p), full,
               RecoverSplitBrain(me, s, u, p, ps, net, demoted, r1))
UpToMissed(me, s, u, p, ps, net, r) ==
  IF ~is_strategy_determined(r.strategy) THEN r
  ELSE AutoDiscard(ps, net, PrimaryTarget(s, u, p, net,
         Reversed(discard_my_data_to_strategy(u, p), s.disk, ps.disk, r)))

is_resync_running(me, s) ==
  \E p \in Peers(me) : s.repl[p] \in {L_SYNC_TARGET, L_PAUSED_SYNC_T}
bitmap_mod_after_handshake(me, s, u, p, r) ==
  LET fresh == u.cur = UUID_JUST_CREATED
      full == [u EXCEPT !.bits = [q \in Peers(me) |->
                 IF (fresh /\ have_bitmap(q)) \/ q = p THEN Blocks ELSE u.bits[q]]]
  IN CASE r.strategy = "SYNC_SOURCE_COPY_BITMAP" ->
            [u EXCEPT !.bits[p] = IF have_bitmap(r.node) THEN u.bits[r.node] ELSE Blocks]
       [] r.strategy = "SYNC_TARGET_CLEAR_BITMAP" -> [u EXCEPT !.bits[p] = {}]
       [] r.strategy = "SYNC_SOURCE_SET_BITMAP" ->
            IF fresh \/ u.peer[p].cur = UUID_JUST_CREATED THEN full
            ELSE drbd_uuid_set_bitmap(full, p, u.peer[p].cur)
       [] r.strategy = "SYNC_TARGET_SET_BITMAP" ->
            IF fresh /\ is_resync_running(me, s) THEN u ELSE full
       [] OTHER -> u

\* [r: the decision, u: the UUIDs and bitmaps after it]
ShakenAs(me, s, u, p, ps, r) ==
  LET x == SkipMissed(NegotiatedDisk(me, s), ps.disk, r)
  IN [r |-> x, u |-> IF is_strategy_determined(x.strategy)
                     THEN bitmap_mod_after_handshake(me, s, SkipForgets(u, p, ps.disk, r), p, x)
                     ELSE u]
drbd_sync_handshake(me, s, u, p, ps, net, demoted) ==
  ShakenAs(me, s, u, p, ps,
    UpToMissed(me, s, u, p, ps, net, UpToRecovery(me, s, u, p, ps, net, demoted)))

\* drbd_attach_handshake: the same while a disk is attached, without a split
\* brain ever being resolved
drbd_attach_handshake(me, s, u, p, ps, net) ==
  LET r0 == drbd_uuid_compare(me, s, u, p, net.proto)
      r1 == PrimaryTarget(s, u, p, [net EXCEPT !.rr = IF @ = "auto-discard" THEN "" ELSE @],
              disk_states_to_strategy(me, u, p, NegotiatedDisk(me, s), ps.disk, r0))
  IN IF ~is_strategy_determined(r0.strategy) THEN [r |-> r0, u |-> u]
     ELSE [r |-> r1, u |-> bitmap_mod_after_handshake(me, s, u, p, r1)]

strategy_to_repl_state(s, peer_role, x) ==
  IF /\ x \in {"SYNC_SOURCE_IF_BOTH_FAILED", "SYNC_TARGET_IF_BOTH_FAILED"}
     /\ s.role = "Primary" \/ peer_role = "Primary"
  THEN CASE peer_role = "Secondary" -> L_WF_BITMAP_S
         [] peer_role # "Secondary" /\ s.role = "Secondary" -> L_WF_BITMAP_T
         [] OTHER -> L_ESTABLISHED
  ELSE CASE x \in Sources -> L_WF_BITMAP_S
         [] x \in Targets -> L_WF_BITMAP_T
         [] OTHER -> L_ESTABLISHED

resolve_splitbrain_from_disk_states(disk, pdsk) ==
  CASE disk <= D_UP_TO_DATE /\ pdsk = D_UP_TO_DATE -> "SYNC_TARGET_USE_BITMAP"
    [] disk = D_UP_TO_DATE /\ pdsk < D_UP_TO_DATE -> "SYNC_SOURCE_USE_BITMAP"
    [] OTHER -> "SPLIT_BRAIN_AUTO_RECOVER"
=============================================================================

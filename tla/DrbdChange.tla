----------------------------- MODULE DrbdChange -----------------------------
(***************************************************************************)
(* What a cluster-wide change does to the state of a node, from            *)
(* drbd_state.c (the callbacks of the node that initiates it) and          *)
(* drbd_receiver.c (a node that takes part in it).  How the nodes agree on *)
(* a change is in DrbdTwopc, what becomes of the data generations in       *)
(* DrbdGeneration.                                                         *)
(*                                                                         *)
(* A transaction is a record t with op (see Op), the initiator init, the   *)
(* target (None: all), the nodes that can be reached (reach), the primary  *)
(* nodes and the weak nodes the replies have reported (prim, weak), those  *)
(* the commit carries (prims), and what it is to this node (is_connect,     *)
(* is_disconnect).                                                          *)
(***************************************************************************)
EXTENDS DrbdState

\* mask and val of a change: the kind, the role it carries, what it outdates
Op(kind, role, out) == [kind |-> kind, role |-> role, out |-> out]

directly_connected_nodes(s) == {p \in DOMAIN s.cstate : s.cstate[p] = C_CONNECTED}
outdate_myself(s) == [s EXCEPT !.disk = IF @ > D_OUTDATED THEN D_OUTDATED ELSE @]
change_cstate(s, p, c) ==
  [s EXCEPT !.cstate[p] = c, !.repl[p] = IF c < C_CONNECTED THEN L_OFF ELSE @]
downgrade_pdsk(s, p) == [s EXCEPT !.pdsk[p] = IF @ > D_OUTDATED THEN D_OUTDATED ELSE @]
quorum_flag == IF QuorumSetting # QOU_OFF THEN {"recalc"} ELSE {}

-----------------------------------------------------------------------------
\* The change callbacks of the initiator: o is the state, t the transaction.

\* CS_FP_LOCAL_UP_TO_DATE: the data of this node is declared to be the good one
forced_up_to_date(me, o, op) ==
  /\ op.out = "up_to_date" /\ D_INCONSISTENT <= o.disk /\ o.disk < D_UP_TO_DATE
  /\ \A p \in Peers(me) : o.pdsk[p] # D_UP_TO_DATE
disconnect_where_resync_target(me, o) ==
  [p \in Peers(me) |-> IF repl_is_sync_target(o.repl[p]) THEN C_TEAR_DOWN ELSE o.cstate[p]]
\* the peers that can be reached but whose disks are unknown are not current
do_change_role(me, o, op, t, phase) ==
  [o EXCEPT !.role = op.role,
            !.disk = IF forced_up_to_date(me, o, op) THEN D_UP_TO_DATE ELSE @,
            !.cstate = IF forced_up_to_date(me, o, op)
                       THEN disconnect_where_resync_target(me, o) ELSE @,
            !.pdsk = [p \in Peers(me) |->
               IF /\ op.role = "Primary" /\ phase = "commit"
                  /\ p \in t.reach \ Diskless /\ o.pdsk[p] = D_UNKNOWN
               THEN D_OUTDATED ELSE o.pdsk[p]]]

\* a polite disconnect between a Primary and a Secondary outdates the latter
outdate_on_disconnect(o, p) ==
  IF /\ o.cstate[p] = C_CONNECTED /\ o.role # o.peer_role[p]
     /\ Fencing # "dont-care" \/ QuorumSetting # QOU_OFF
  THEN IF o.role = "Primary" THEN "peer_disks"
       ELSE IF o.peer_role[p] = "Primary" THEN "disks" ELSE "none"
  ELSE "none"

\* c: connect_state, what the initial state of the peer has led to
apply_connect(s, p, c) ==
  [s EXCEPT !.repl[p] = IF s.disk # D_NEGOTIATING THEN c.conn ELSE @,
            !.pdsk[p] = c.pdsk, !.susp_peer[p] = c.isp,
            !.cstate[p] = IF c.conn = L_OFF THEN C_DISCONNECTING ELSE @]

do_change_cstate(me, o, p, op, t, phase, c) ==
  LET connect == op.kind = "connect"
      n1 == IF ~connect THEN change_cstate(o, p, C_DISCONNECTING)
            ELSE IF o.cstate[p] = C_CONNECTING THEN change_cstate(o, p, C_CONNECTED)
            ELSE o
      n2 == CASE op.out = "disks" -> outdate_myself(n1)
              [] op.out = "peer_disks" -> downgrade_pdsk(n1, p)
              [] OTHER -> n1
      n3 == IF connect /\ phase = "commit" /\ n2.cstate[p] = C_CONNECTED
            THEN apply_connect(n2, p, c) ELSE n2
      n4 == IF phase = "commit"
                 /\ t.prim \ (directly_connected_nodes(n3) \cup {me}) # {}
            THEN outdate_myself(n3) ELSE n3
  IN IF connect /\ o.peer_role[p] = "Unknown"
     THEN Upd(n4, "peer_role", p, IF p \in t.prim THEN "Primary" ELSE "Secondary")
     ELSE n4

\* after a lost connection: somebody else may be Primary, or nobody is
do_twopc_after_lost_peer(me, o, t, phase) ==
  IF /\ phase = "commit"
     /\ t.prim \ (directly_connected_nodes(o) \cup {me}) # {}
     /\ ~(t.prim # {} /\ t.weak = {})
  THEN outdate_myself(o)
  ELSE [o EXCEPT !.disk = IF @ = D_CONSISTENT /\ may_return_to_up_to_date(me, o)
                          THEN D_UP_TO_DATE ELSE @]

-----------------------------------------------------------------------------
\* The changes of a participant.

\* convert_state, __change_peer_device_state, __change_connection_state and
\* what change_connection_state adds to them; p is the initiator
change_connection_state(me, o, p, t, phase, c) ==
  LET op == t.op
      n1 == IF t.is_disconnect /\ op.out = "disks" /\ o.pdsk[p] >= D_OUTDATED
            THEN Upd(o, "pdsk", p, D_OUTDATED) ELSE o
      n2 == IF t.is_disconnect /\ op.out = "peer_disks" /\ o.disk >= D_OUTDATED
            THEN [n1 EXCEPT !.disk = D_OUTDATED] ELSE n1
      n3 == CASE op.kind = "disconnect" -> change_cstate(n2, p, C_TEAR_DOWN)
              [] op.kind = "connect" -> change_cstate(n2, p, C_CONNECTED)
              [] OTHER -> n2
      n4 == IF op.role = "none" THEN n3
            ELSE [n3 EXCEPT !.peer_role[p] = op.role,
                            !.pdsk[p] = IF op.out = "up_to_date" THEN D_UP_TO_DATE ELSE @]
      prim == IF phase = "commit" THEN t.prims ELSE t.prim
      n5 == IF phase # "abort" /\ prim \ (directly_connected_nodes(n4) \cup {me}) # {}
            THEN outdate_myself(n4) ELSE n4
  IN IF t.is_connect /\ phase = "commit" THEN apply_connect(n5, p, c) ELSE n5

far_away_change(me, o, t, incapable) ==
  LET n1 == IF t.op.kind = "empty" /\ o.role = "Primary"
            THEN downgrade_pdsk(o, t.init) ELSE o
  IN IF t.prims \ (directly_connected_nodes(o) \cup {me}) # {} /\ ~incapable
     THEN outdate_myself(n1) ELSE n1

\* is the change between the initiator and this node?
affected_connection(me, o, t) ==
  /\ t.target \in {None, me}
  /\ o.cstate[t.init] >= C_CONNECTED \/ t.op.kind \in {"connect", "disconnect"}
=============================================================================

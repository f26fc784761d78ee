--------------------------- MODULE DrbdGeneration ---------------------------
(***************************************************************************)
(* A cluster whose nodes write, lose each other, crash, come back and      *)
(* resync: the data generations of drbd_main.c and the resync handshake of *)
(* drbd_receiver.c at work.                                                *)
(*                                                                         *)
(* A handler makes calls (see DrbdExchange); todo[n] are those it has not  *)
(* made yet, and Run makes them before anything else happens.  The content *)
(* of a block is the last write to it.  A resync of one block is one step, *)
(* and so is a cluster-wide change (DrbdTwopc is about those).             *)
(***************************************************************************)
EXTENDS DrbdExchange, DrbdChange

CONSTANT Scenarios   \* what may happen in a behaviour: see MCDrbdGeneration

VARIABLES st, uu,    \* node -> state (DrbdState), UUIDs (DrbdUuid)
          todo,      \* node -> calls to be made
          due,       \* node -> an empty two-phase commit is scheduled
          up,        \* the nodes that run
          net, ctl,  \* <<n, p>> -> data stream, control stream from n to p
          data,      \* node -> block -> the write it holds
          fresh,     \* the last UUID generated
          acked,     \* the writes that were completed to the application
          shook,     \* the outcome of the last handshake, on both sides
          budget     \* what may still happen

vars == <<st, uu, todo, due, up, net, ctl, data, fresh, acked, shook, budget>>

Ends == {e \in Nodes \X Nodes : e[1] # e[2]}
NoShook == [n |-> None, p |-> None, mine |-> "", peers |-> ""]

\* node n at work, and the result of its work
At(n) == [s |-> st[n], u |-> uu[n], out |-> [p \in Peers(n) |-> <<>>],
          ack |-> [p \in Peers(n) |-> <<>>], fresh |-> fresh, due |-> due[n],
          rv |-> "SS_SUCCESS", todo |-> todo[n], net |-> budget.net]
\* what is sent to a node that does not listen is lost
Listens(p, n) == p \in up /\ (st[p].cstate[n] = C_CONNECTED \/ uu[p].peer[n].connect.on)
Result(n, w) ==
  /\ st' = [st EXCEPT ![n] = w.s] /\ uu' = [uu EXCEPT ![n] = w.u]
  /\ todo' = [todo EXCEPT ![n] = w.todo] /\ due' = [due EXCEPT ![n] = w.due]
  /\ fresh' = w.fresh
\* the streams after it, if they were d and c
Data(n, w, d) ==
  [e \in Ends |-> IF e[1] = n /\ Listens(e[2], n) THEN d[e] \o w.out[e[2]]
                  ELSE IF e[2] = n /\ w.s.cstate[e[1]] # C_CONNECTED THEN <<>> ELSE d[e]]
Control(n, w, c) ==
  [e \in Ends |-> IF e[1] = n /\ Listens(e[2], n) THEN c[e] \o w.ack[e[2]] ELSE c[e]]
Put(n, w) == Result(n, w) /\ net' = Data(n, w, net) /\ ctl' = Control(n, w, ctl)
Quiet == \A n \in Nodes : todo[n] = <<>>
\* nobody is in the middle of a cluster-wide change
Free == Quiet /\ \A n \in Nodes : \A p \in Peers(n) : ~uu[n].peer[p].connect.on

\* of the two ends of a new connection the one that was asked is first
Run(n) ==
  /\ todo[n] # <<>> /\ \A p \in Nodes : todo[p] # <<>> => p <= n
  /\ Put(n, Settle(n, At(n)))
  /\ UNCHANGED <<up, data, acked, shook, budget>>

\* drbd_check_peers: every connection is known to be alive, or to be lost
Alive(n, p) == p \in up /\ st[p].cstate[n] = C_CONNECTED
Pinged(n) == \A p \in Peers(n) : st[n].cstate[p] = C_CONNECTED => Alive(n, p)

Lost == {C_DISCONNECTING, C_TIMEOUT, C_NETWORK_FAILURE, C_PROTOCOL_ERROR, C_TEAR_DOWN}

-----------------------------------------------------------------------------
\* The application writes.

drbd_should_send_out_of_sync(s, p) ==
  \/ s.repl[p] \in {L_AHEAD, L_WF_BITMAP_S}
  \/ s.repl[p] >= L_ESTABLISHED /\ s.pdsk[p] = D_OUTDATED
Syncing(s, p) == L_SYNC_SOURCE <= s.repl[p] /\ s.repl[p] <= L_PAUSED_SYNC_T

\* mutant: what only some of the peers have is not marked in the bitmap
drbd_req_destroy_unmarked(me, w, r) ==
  [w EXCEPT !.u.pack = [tag |-> r.tag, mask |-> {me} \cup r.ok, sent |-> r.sent]]

\* drbd_req_destroy: the peers that do not have the write are out of sync
drbd_req_destroy(me, w, r) ==
  EachPeer(me,
    [w EXCEPT !.u.pack = [tag |-> r.tag, mask |-> {me} \cup r.ok, sent |-> r.sent],
              !.u.bits = [p \in Peers(me) |->
                 IF p \notin r.ok THEN w.u.bits[p] \cup {r.b}
                 ELSE IF p \in r.sis THEN w.u.bits[p] \ {r.b} ELSE w.u.bits[p]]],
    LAMBDA v, p : If(p \in r.oos /\ r.b \notin w.u.bits[p], Send(v, p, [cmd |-> "oos", b |-> r.b]), v))
\* peer_ack_differs: the newest request stands for all before it that are on
\* the same nodes
AckDue(me, u, r) == u.pack.tag # 0 /\ u.pack.mask # {me} \cup r.ok
\* a request is done when nobody is waited for
Progressed(n, w, r) ==
  IF r.wait # {} THEN [w EXCEPT !.u.inflight = @ \cup {r}]
  ELSE drbd_req_destroy(n, If(AckDue(n, w.u, r), drbd_flush_peer_acks(n, w), w), r)
Finished(r) == IF r.wait # {} THEN acked ELSE acked \cup {r.id}

\* A bound: unless budget.rush, no write and no new generation begins while the
\* Primary does not know the state of its peers.
Informed(n) ==
  budget.rush \/ \A p \in Peers(n) : \A i \in DOMAIN net[<<p, n>>] : net[<<p, n>>][i].cmd # "state"
\* a write is admitted in the current generation only
MayWrite(n) ==
  LET s == st[n]
  IN /\ s.role = "Primary" /\ ~s.new_cur_uuid /\ ~resource_is_suspended(n, s)
     /\ s.disk >= D_INCONSISTENT /\ drbd_data_accessible(n, s)
Write(n, b) ==
  /\ Free /\ n \in up /\ budget.writes[n] > 0 /\ MayWrite(n) /\ Informed(n)
  /\ Cardinality(uu[n].inflight) < budget.inflight /\ \A r \in uu[n].inflight : r.b # b
  /\ LET s == st[n]
         id == budget.next
         remote == {p \in Peers(n) : drbd_should_do_remote(s, p)}
         tag == uu[n].dagtag + 1
         w == EachPeer(n, [At(n) EXCEPT !.u.dagtag = tag], LAMBDA v, p :
                If(p \in remote, Send(v, p, [cmd |-> "data", b |-> b, id |-> id, tag |-> tag,
                                             sis |-> Syncing(s, p)]), v))
         r == [b |-> b, id |-> id, tag |-> tag, wait |-> remote, ok |-> {}, sis |-> {}, sent |-> remote,
               oos |-> {p \in Peers(n) \ remote : drbd_should_send_out_of_sync(s, p)}]
     IN Put(n, Progressed(n, w, r)) /\ acked' = Finished(r) /\ data' = [data EXCEPT ![n][b] = id]
  /\ budget' = [budget EXCEPT !.writes[n] = @ - 1, !.next = @ + 1]
  /\ UNCHANGED <<up, shook>>

\* make_new_current_uuid, in the worker: a write waits for the new generation
make_new_current_uuid(n) ==
  /\ Free /\ n \in up /\ budget.writes[n] > 0
  /\ st[n].role = "Primary" /\ st[n].new_cur_uuid /\ ~resource_is_suspended(n, st[n])
  /\ Pinged(n) /\ Informed(n)
  /\ LET w == drbd_check_peers_new_current_uuid(n, At(n))
     IN Put(n, [w EXCEPT !.s.new_cur_uuid = FALSE])
  /\ UNCHANGED <<up, data, acked, shook, budget>>

-----------------------------------------------------------------------------
\* Packets arrive at n from p.

\* A bound on the schedules: unless budget.order is "free", packets are taken in
\* a fixed order of the streams, and those of one kind of stream before the
\* other.  A P_PEER_DAGTAG may have to wait.
Pending(q) == {e \in Ends : /\ q[e] # <<>> /\ st[e[2]].cstate[e[1]] = C_CONNECTED
                            /\ Head(q[e]).cmd # "dagtag"}
InTurn(q, e) ==
  \/ budget.order = "free" \/ Head(q[e]).cmd = "dagtag"
  \/ \A d \in Pending(q) : e[1] < d[1] \/ (e[1] = d[1] /\ e[2] <= d[2])
\* unless budget.eager, what nobody waits for is done when there is nothing else
Lull == budget.eager \/ Pending(net) \cup Pending(ctl) = {}
\* and the administrator and the connects wait until lost connections are
\* cleaned up
Unhurried ==
  budget.eager \/ (Lull /\ \A n \in up : ~due[n] /\ \A p \in Peers(n) : st[n].cstate[p] \notin Lost)
Arrived(n, p, cmd) ==
  /\ Free /\ n \in up /\ st[n].cstate[p] = C_CONNECTED
  /\ net[<<p, n>>] # <<>> /\ Head(net[<<p, n>>]).cmd = cmd
  /\ InTurn(net, <<p, n>>) /\ (budget.order = "control" => Pending(ctl) = {})
Packet(n, p) == Head(net[<<p, n>>])
\* Put, and the packet is taken off the stream
Took(n, p, w) ==
  /\ Result(n, w) /\ net' = Data(n, w, [net EXCEPT ![<<p, n>>] = Tail(@)])
  /\ ctl' = Control(n, w, ctl)
Handled(n, p, w) == Took(n, p, w) /\ UNCHANGED <<up, data, acked, shook, budget>>

\* receive_Data, and e_end_block when it is on disk
receive_Data(n, p) ==
  /\ Arrived(n, p, "data")
  /\ LET m == Packet(n, p)
         in_sync == m.sis /\ Syncing(st[n], p)
         w == [At(n) EXCEPT
                 !.u.peer[p].dagtag = m.tag,
                 !.u.peer[p].f = @ \cup {"RECEIVED_DAGTAG"},
                 !.u.peer[p].unack = Append(@, [b |-> m.b, tag |-> m.tag]),
                 !.u.bits[p] = IF in_sync THEN @ \ {m.b} ELSE @]
     IN /\ Took(n, p, SendAck(w, p, [cmd |-> "ack", id |-> m.id, sis |-> in_sync]))
        /\ data' = [data EXCEPT ![n][m.b] = m.id]
  /\ UNCHANGED <<up, acked, shook, budget>>

ReceiveUuids(n, p) ==
  Arrived(n, p, "uuids") /\ Handled(n, p, receive_uuids110(n, At(n), p, Packet(n, p)))
ReceiveState(n, p) ==
  Arrived(n, p, "state") /\ Handled(n, p, receive_state(n, At(n), p, Packet(n, p)))
ReceiveRole(n, p) ==
  Arrived(n, p, "role") /\ Handled(n, p, Then(At(n), << [do |-> "role", p |-> p] >>))
ReceiveBitmap(n, p) ==
  Arrived(n, p, "bitmap") /\ Handled(n, p, receive_bitmap(n, At(n), p, Packet(n, p)))
ReceiveOutOfSync(n, p) ==
  Arrived(n, p, "oos") /\ Handled(n, p, receive_out_of_sync(At(n), p, Packet(n, p)))
ReceiveCurrentUuid(n, p) ==
  Arrived(n, p, "current") /\ Handled(n, p, receive_current_uuid(n, At(n), p, Packet(n, p)))
receive_dagtag(n, p) ==
  /\ Arrived(n, p, "tag")
  /\ Handled(n, p, [At(n) EXCEPT !.u.peer[p].dagtag = Packet(n, p).tag,
                                 !.u.peer[p].f = @ \cup {"RECEIVED_DAGTAG"}])
ReceiveFlushRequests(n, p) ==
  /\ Arrived(n, p, "flush")
  /\ Handled(n, p, drbd_flush_peer_acks(n, receive_flush_requests(At(n), p, Packet(n, p))))
ReceiveFlushAck(n, p) ==
  Arrived(n, p, "flush_ack") /\ Handled(n, p, receive_flush_requests_ack(At(n), p, Packet(n, p)))
\* it asks the lost node first whether it is really gone
ReceivePeerDagtag(n, p) ==
  /\ Arrived(n, p, "dagtag")
  /\ LET m == Packet(n, p)
     IN /\ st[n].cstate[m.node] = C_CONNECTED => Alive(n, m.node)
        /\ ~dagtag_waits(n, At(n), p, m)
        /\ Handled(n, p, Then(At(n), << [do |-> "dagtag", p |-> p, m |-> m] >>))

\* the control stream
Acked(n, p, cmd) ==
  /\ Free /\ n \in up /\ st[n].cstate[p] = C_CONNECTED
  /\ ctl[<<p, n>>] # <<>> /\ Head(ctl[<<p, n>>]).cmd = cmd
  /\ InTurn(ctl, <<p, n>>) /\ (budget.order = "data" => Pending(net) = {})
Reply(n, p) == Head(ctl[<<p, n>>])
TookAck(n, p, w) ==
  /\ Result(n, w) /\ net' = Data(n, w, net)
  /\ ctl' = Control(n, w, [ctl EXCEPT ![<<p, n>>] = Tail(@)])
  /\ UNCHANGED <<up, data, shook, budget>>

got_BlockAck(n, p) ==
  /\ Acked(n, p, "ack")
  /\ \E r \in uu[n].inflight :
       LET r1 == [r EXCEPT !.wait = @ \ {p}, !.ok = @ \cup {p},
                           !.sis = IF Reply(n, p).sis THEN @ \cup {p} ELSE @]
       IN /\ r.id = Reply(n, p).id /\ acked' = Finished(r1)
          /\ TookAck(n, p, Progressed(n, [At(n) EXCEPT !.u.inflight = @ \ {r}], r1))
GotPeerAck(n, p) ==
  /\ Acked(n, p, "peer_ack") /\ acked' = acked
  /\ TookAck(n, p, got_peer_ack(n, At(n), p, Reply(n, p)))
GotFlushForward(n, p) ==
  /\ Acked(n, p, "flush_forward") /\ acked' = acked
  /\ TookAck(n, p, got_flush_forward(At(n), p, Reply(n, p)))
\* the timer for the newest request, or the Primary steps down
SendPeerAck(n) ==
  /\ Free /\ n \in up /\ uu[n].pack.tag # 0 /\ Lull
  /\ Put(n, drbd_flush_peer_acks(n, At(n)))
  /\ UNCHANGED <<up, data, acked, shook, budget>>

-----------------------------------------------------------------------------
\* Resync.

\* w_update_peers: the nodes that have the block are told of each other
bits_in_sync(w, q, b) ==
  /\ w.s.repl[q] \in {L_ESTABLISHED, L_SYNC_SOURCE, L_SYNC_TARGET, L_PAUSED_SYNC_S, L_PAUSED_SYNC_T}
  /\ b \notin w.u.bits[q]
drbd_al_active(n, u, b) ==
  \/ \E r \in u.inflight : r.b = b
  \/ \E p \in Peers(n) : \E r \in Range(u.peer[p].unack) : r.b = b
UpdatePeers(n, w, p, b) ==
  LET mask == {p} \cup {q \in Peers(n) : bits_in_sync(w, q, b)}
  IN IF b \in w.u.bits[p] \/ drbd_al_active(n, w.u, b) THEN w
     ELSE EachPeer(n, w, LAMBDA v, q :
            If(q \in mask, SendAck(v, q, [cmd |-> "in_sync", b |-> b, mask |-> mask]), v))
got_peers_in_sync(n, p) ==
  /\ Acked(n, p, "in_sync") /\ acked' = acked
  /\ LET m == Reply(n, p)
         w == [At(n) EXCEPT !.u.bits = [q \in Peers(n) |-> IF q \in m.mask THEN @[q] \ {m.b} ELSE @[q]]]
     IN TookAck(n, p, If(w.u # uu[n] \/ st[n].repl[p] = L_SYNC_SOURCE, UpdatePeers(n, w, p, m.b), w))

\* find_current_dagtag, need_to_wait_for_dagtag_of_peer_request: what the
\* target s has received from a Primary the source has to have as well
find_current_dagtag(t) ==
  LET prims == {p \in Peers(t) : st[t].peer_role[p] = "Primary" /\ "RECEIVED_DAGTAG" \in uu[t].peer[p].f}
  IN IF st[t].role = "Primary" THEN {<<t, uu[t].dagtag>>}
     ELSE {<<p, uu[t].peer[p].dagtag>> : p \in prims}
need_to_wait_for_dagtag(s, d) ==
  d[1] # s /\ st[s].cstate[d[1]] = C_CONNECTED /\ uu[s].peer[d[1]].dagtag < d[2]
\* The block b of the source s replaces that of the target t.  Both hold the
\* interval of the block from the request to the ack, which is why this is one
\* step; the request is behind what the target has sent, and the data behind
\* what the source has.
ResyncBlock(t, s, b) ==
  /\ Free /\ Alive(t, s) /\ st[t].cstate[s] = C_CONNECTED /\ t \in up
  /\ st[t].repl[s] = L_SYNC_TARGET /\ st[s].repl[t] = L_SYNC_SOURCE /\ b \in uu[t].bits[s]
  /\ net[<<t, s>>] = <<>> /\ net[<<s, t>>] = <<>>
  /\ \A r \in uu[s].inflight \cup uu[t].inflight : r.b # b
  /\ Cardinality(find_current_dagtag(t)) <= 1
  /\ \A d \in find_current_dagtag(t) : ~need_to_wait_for_dagtag(s, d)
  /\ LET w == EachPeer(t,
                [At(t) EXCEPT
                   !.u.stable_rs = @ /\ "UNSTABLE_RESYNC" \notin uu[t].peer[s].f,
                   !.u.bits = [q \in Peers(t) |-> IF q = s THEN @[q] \ {b} ELSE @[q] \cup {b}]],
                LAMBDA v, q : If(is_sync_source(v.s, q), Send(v, q, [cmd |-> "oos", b |-> b]), v))
         w1 == UpdatePeers(t, w, s, b)
     IN /\ uu' = [uu EXCEPT ![t] = w1.u, ![s].bits[t] = @ \ {b}]
        /\ net' = Data(t, w1, net) /\ ctl' = Control(t, w1, ctl)
  /\ data' = [data EXCEPT ![t][b] = data[s][b]]
  /\ UNCHANGED <<st, todo, due, up, fresh, acked, shook, budget>>
\* nothing is left to be requested
ResyncFinished(t, s) ==
  /\ Free /\ t \in up /\ st[t].repl[s] = L_SYNC_TARGET /\ uu[t].bits[s] = {}
  /\ ~drbd_any_flush_pending(t, uu[t])
  /\ Put(t, Then(At(t), << [do |-> "finished", p |-> s, pdsk |-> D_UNKNOWN] >>))
  /\ UNCHANGED <<up, data, acked, shook, budget>>

-----------------------------------------------------------------------------
\* A connection is lost: one end notices, later the other one.

Lose(n, p) ==
  /\ Free /\ n \in up /\ st[n].cstate[p] = C_CONNECTED
  /\ \/ ~Alive(n, p) /\ budget' = budget
     \/ /\ Alive(n, p) /\ {n, p} \in budget.links /\ budget.losses > 0
        /\ budget.told => Informed(n) /\ Informed(p)
        /\ budget' = [budget EXCEPT !.losses = @ - 1]
  /\ Put(n, Then(At(n), << [do |-> "cstate", p |-> p, val |-> C_NETWORK_FAILURE] >>))
  /\ UNCHANGED <<up, data, acked, shook>>

\* tl_walk(CONNECTION_LOST): nobody waits for the peer any longer
ConnectionLost(n, w, p, R) ==
  FoldSet(LAMBDA r, v : Progressed(n, [v EXCEPT !.u.inflight = @ \ {r}], [r EXCEPT !.wait = @ \ {p}]),
          w, R)
\* nothing more comes from the peer, and it is not owed a peer ack
Disconnected(n, p, generate) ==
  LET R == {r \in uu[n].inflight : p \in r.wait}
      w == [conn_disconnect(n, At(n), p, generate) EXCEPT !.u.pack.sent = @ \ {p},
                                                        !.u.peer[p].f = @ \ {"CHECKING"}]
      w1 == ConnectionLost(n, w, p, R)
  IN /\ Result(n, w1) /\ net' = Data(n, w1, net)
     /\ ctl' = Control(n, w1, [ctl EXCEPT ![<<p, n>>] = <<>>])
     /\ acked' = acked \cup {r.id : r \in {x \in R : x.wait = {p}}}
\* conn_disconnect.  With budget.window the peers take their time to answer
\* the ping, and NEW_CUR_UUID is already cleared then.
Disconnect(n, p) ==
  LET generate == NeedsNewCurrent(n, At(n), uu[n].inflight # {})
  IN /\ Free /\ n \in up /\ st[n].cstate[p] \in Lost /\ "CHECKING" \notin uu[n].peer[p].f
     /\ ~(generate /\ budget.window) /\ Lull
     /\ generate => Pinged(n)
     /\ Disconnected(n, p, generate)
     /\ UNCHANGED <<up, data, shook, budget>>
DisconnectBegins(n, p) ==
  /\ Free /\ n \in up /\ st[n].cstate[p] \in Lost /\ "CHECKING" \notin uu[n].peer[p].f
  /\ budget.window /\ NeedsNewCurrent(n, At(n), uu[n].inflight # {})
  /\ Put(n, [At(n) EXCEPT !.s.new_cur_uuid = FALSE, !.u.peer[p].f = @ \cup {"CHECKING"}])
  /\ UNCHANGED <<up, data, acked, shook, budget>>
DisconnectGoesOn(n, p) ==
  /\ Free /\ n \in up /\ "CHECKING" \in uu[n].peer[p].f /\ Pinged(n)
  /\ Disconnected(n, p, TRUE)
  /\ UNCHANGED <<up, data, shook, budget>>

-----------------------------------------------------------------------------
\* Cluster-wide changes, each of them in one step: the calls of all nodes.

Neighbors(n) == {p \in Peers(n) : st[n].cstate[p] = C_CONNECTED}
Component(n) ==
  FoldLeft(LAMBDA S, i : S \cup UNION {Neighbors(m) : m \in S}, {n}, NodeSeq)
Primaries(S) == {m \in S : st[m].role = "Primary"}
\* Everybody who takes part can answer.  The packets of a two-phase commit are
\* behind what was sent before them.
Answers(S) ==
  /\ \A m \in S : m \in up /\ Pinged(m)
  /\ \A e \in Ends : {e[1], e[2]} \subseteq S => net[e] = <<>>
Transaction(op, n, target, S) ==
  LET prims == IF op.role = "none" THEN Primaries(S)
               ELSE (Primaries(S) \ {n}) \cup (IF op.role = "Primary" THEN {n} ELSE {})
      weak == IF \E m \in prims : drbd_data_accessible(m, st[m]) THEN {None} ELSE {}
  IN [op |-> op, init |-> n, target |-> target, reach |-> S, prim |-> prims, weak |-> weak,
      prims |-> prims, is_connect |-> op.kind = "connect", is_disconnect |-> FALSE]
Commit(q, t) ==
  LET s == [st[q] EXCEPT !.members = @ \cup t.reach]
      peer == IF t.is_connect /\ q = t.init THEN t.target
              ELSE IF t.is_connect /\ q = t.target THEN t.init ELSE None
      c == IF peer = None THEN NoConnect ELSE uu[q].peer[peer].connect
      new == CASE q = t.init /\ t.op.kind = "connect" -> do_change_cstate(q, s, peer, t.op, t, "commit", c)
               [] q = t.init /\ t.op.kind = "role" -> do_change_role(q, s, t.op, t, "commit")
               [] q = t.init /\ t.op.kind = "empty" -> do_twopc_after_lost_peer(q, s, t, "commit")
               [] q # t.init /\ affected_connection(q, s, t) ->
                    change_connection_state(q, s, t.init, t, "commit", c)
               [] OTHER -> far_away_change(q, s, t, t.prims # {} /\ t.weak = {})
  IN << [do |-> "commit", p |-> peer, n |-> new, reach |-> IF q = t.init THEN t.reach ELSE {}] >>
Todo(q, calls) == calls \o todo[q]

\* conn_connect: the two ends exchange their UUIDs and states
Hello(n, p) ==
  LET mask == IF st[n].role = "Primary" THEN drbd_weak_nodes_device(n, st[n]) ELSE {}
  IN [do |-> "initial", p |-> n, m |-> UuidsMsg(n, st[n], uu[n], p, {}, mask),
      ps |-> StateOf(st[n], p), demoted |-> FALSE]
conn_connect(n, p) ==
  /\ Free /\ n < p /\ {n, p} \subseteq up /\ {n, p} \in budget.links
  /\ st[n].cstate[p] = C_CONNECTING /\ st[p].cstate[n] = C_CONNECTING
  /\ Unhurried
  /\ Answers(Component(n) \cup Component(p))
  /\ todo' = [todo EXCEPT ![n] = Todo(n, << Hello(p, n) >>), ![p] = Todo(p, << Hello(n, p) >>)]
  /\ net' = [net EXCEPT ![<<n, p>>] = <<>>, ![<<p, n>>] = <<>>]
  /\ ctl' = [ctl EXCEPT ![<<n, p>>] = <<>>, ![<<p, n>>] = <<>>]
  /\ UNCHANGED <<st, uu, due, up, data, fresh, acked, shook, budget>>

\* connect_work of the node with the smaller id
Connects(n, p) == uu[n].peer[p].connect
TwoPrimaries(n, p) == Cardinality(Primaries(Component(n) \cup Component(p))) > 1
connect_work(n, p) ==
  LET t == Transaction(Op("connect", "none", "none"), n, p, Component(n) \cup Component(p))
      retry == Connects(n, p).strategy \in Reconnects
      refuse == \/ {Connects(n, p).strategy, Connects(p, n).strategy} \cap (Disconnects \cup Reconnects) # {}
                \/ TwoPrimaries(n, p)
      failed(d) == << [do |-> "failed", p |-> p, disconnect |-> d] >>
  IN /\ Quiet /\ n < p /\ Connects(n, p).on /\ Connects(p, n).on
     /\ todo' = [q \in Nodes |->
          CASE refuse /\ retry -> Todo(q, IF q = n THEN failed(FALSE)
                                  ELSE IF q = p THEN << [do |-> "abort", p |-> n] >> ELSE <<>>)
            [] refuse /\ ~retry ->
                 Todo(q, IF q = n THEN failed(TRUE)
                         ELSE IF q = p THEN << [do |-> "abort", p |-> n],
                                               [do |-> "cstate", p |-> n, val |-> C_DISCONNECTING] >>
                         ELSE <<>>)
            [] OTHER -> Todo(q, IF q \in t.reach THEN Commit(q, t) ELSE <<>>)]
     /\ shook' = [n |-> n, p |-> p, mine |-> Connects(n, p).strategy, peers |-> Connects(p, n).strategy]
     /\ UNCHANGED <<st, uu, due, up, net, ctl, data, fresh, acked, budget>>

\* drbd_set_role; force: the data is taken for the good one
Promote(n, force) ==
  LET S == Component(n)
      t == Transaction(Op("role", "Primary", IF force THEN "up_to_date" ELSE "none"), n, None, S)
  IN /\ Free /\ n \in up /\ <<n, force>> \in budget.promotes /\ Unhurried
     /\ Answers(S) /\ Primaries(S) = {}
     /\ IF force THEN D_INCONSISTENT <= st[n].disk /\ st[n].disk < D_UP_TO_DATE
                      /\ \A p \in Peers(n) : st[n].pdsk[p] # D_UP_TO_DATE
        ELSE st[n].disk = D_UP_TO_DATE
     /\ todo' = [q \in Nodes |->
                   Todo(q, IF q = n THEN Append(Commit(q, t), [do |-> "role_set", forced |-> force])
                           ELSE IF q \in S THEN Commit(q, t) ELSE <<>>)]
     /\ budget' = [budget EXCEPT !.promotes = @ \ {<<n, force>>}]
     /\ UNCHANGED <<st, uu, due, up, net, ctl, data, fresh, acked, shook>>
Demote(n) ==
  LET S == Component(n)
      t == Transaction(Op("role", "Secondary", "none"), n, None, S)
      w == drbd_flush_peer_acks(n, At(n))
  IN /\ Free /\ n \in up /\ n \in budget.demotes /\ Unhurried /\ st[n].role = "Primary"
     /\ Answers(S) /\ uu[n].inflight = {}
     /\ todo' = [q \in Nodes |->
                   Todo(q, IF q = n THEN Append(Commit(q, t), [do |-> "role_set", forced |-> FALSE])
                           ELSE IF q \in S THEN Commit(q, t) ELSE <<>>)]
     /\ uu' = [uu EXCEPT ![n] = w.u] /\ net' = Data(n, w, net) /\ ctl' = Control(n, w, ctl)
     /\ budget' = [budget EXCEPT !.demotes = @ \ {n}]
     /\ UNCHANGED <<st, due, up, data, fresh, acked, shook>>
\* twopc_after_lost_peer
EmptyTwopc(n) ==
  LET S == Component(n)
      t == Transaction(Op("empty", "none", "none"), n, None, S)
  IN /\ Free /\ n \in up /\ due[n] /\ Answers(S) /\ Lull
     /\ todo' = [q \in Nodes |-> Todo(q, IF q \in S THEN Commit(q, t) ELSE <<>>)]
     /\ due' = [due EXCEPT ![n] = FALSE]
     /\ UNCHANGED <<st, uu, up, net, ctl, data, fresh, acked, shook, budget>>

-----------------------------------------------------------------------------
\* Crashes, restarts, and the administrator.

PerPeer(n, v) == [p \in Peers(n) |-> v]
\* a node that has just attached its disk and is about to connect
Blank(n, md, mdout) ==
  [role |-> "Secondary", disk |-> D_ATTACHING, have_quorum |-> TRUE, members |-> md.members,
   susp_nod |-> FALSE, susp_quorum |-> FALSE, new_cur_uuid |-> FALSE, crashed |-> md.crashed,
   restore |-> FALSE, md |-> md, open |-> "no", mdout |-> mdout, quorate |-> {}, holding |-> {},
   inflight |-> {}, cstate |-> PerPeer(n, C_CONNECTING), peer_role |-> PerPeer(n, "Unknown"),
   repl |-> PerPeer(n, L_OFF),
   pdsk |-> [p \in Peers(n) |-> IF p \in mdout THEN D_OUTDATED ELSE D_UNKNOWN],
   stable |-> PerPeer(n, FALSE), got_stable |-> PerPeer(n, FALSE), match |-> PerPeer(n, FALSE),
   active |-> PerPeer(n, FALSE), susp_other |-> PerPeer(n, FALSE), susp_user |-> PerPeer(n, FALSE),
   susp_peer |-> PerPeer(n, FALSE), susp_fen |-> PerPeer(n, FALSE), nr |-> PerPeer(n, L_OFF)]
Attached(n, s) == [s EXCEPT !.disk = disk_state_from_md(n, s)]
Stranger ==
  [cur |-> 0, bms |-> [q \in Nodes |-> 0], hist |-> <<>>, flags |-> {}, dirty |-> 0, mask |-> {},
   comm |-> [cur |-> 0, bm |-> 0, flags |-> {}, set |-> 0], start |-> 0, dagtag |-> 0, f |-> {},
   last |-> L_OFF, fin |-> D_UNKNOWN, again |-> 0, unack |-> <<>>, recon |-> <<None, 0>>,
   pend |-> {}, flush |-> [seq |-> 0, tag |-> 0, sent |-> {}],
   connect |-> NoConnect]
Uuids(n, cur, hist, bm, tag, bits, dagtag) ==
  [cur |-> cur, exposed |-> cur, hist |-> hist, bm |-> bm, tag |-> tag, bits |-> bits,
   dagtag |-> dagtag, peer |-> PerPeer(n, Stranger), stable_rs |-> TRUE, flush_seq |-> 0, inflight |-> {},
   pack |-> NoPack]
\* the activity log covers the writes that were under way
Unfinished(n, u) == {b \in Blocks : drbd_al_active(n, u, b)}
Reattached(n, u) ==
  Uuids(n, Anonymous(u.cur), u.hist, u.bm, u.tag,
        [p \in Peers(n) |-> IF st[n].md.primary_ind THEN u.bits[p] \cup Unfinished(n, u) ELSE u.bits[p]],
        Max({0} \cup {u.tag[p] : p \in {q \in Peers(n) : u.bm[q] # 0}}))
Crash(n) ==
  /\ Free /\ n \in up /\ n \in budget.crashes
  /\ up' = up \ {n}
  /\ st' = [st EXCEPT ![n] = Attached(n, Blank(n, st[n].md, st[n].mdout))]
  /\ uu' = [uu EXCEPT ![n] = Reattached(n, uu[n])]
  /\ due' = [due EXCEPT ![n] = FALSE]
  /\ net' = [e \in Ends |-> IF e[2] = n THEN <<>> ELSE net[e]]
  /\ ctl' = [e \in Ends |-> IF e[2] = n THEN <<>> ELSE ctl[e]]
  /\ budget' = [budget EXCEPT !.crashes = @ \ {n}]
  /\ UNCHANGED <<todo, data, fresh, acked, shook>>
Restart(n) ==
  /\ Free /\ n \notin up /\ n \notin budget.dead
  /\ up' = up \cup {n}
  /\ UNCHANGED <<st, uu, todo, due, net, ctl, data, fresh, acked, shook, budget>>
\* drbdadm connect [--discard-my-data], after the connection was refused
AdminConnect(n, p, discard) ==
  /\ Free /\ n \in up /\ st[n].cstate[p] = C_STANDALONE /\ <<n, p, discard>> \in budget.connects
  /\ Unhurried
  /\ Put(n, Then([At(n) EXCEPT !.u.peer[p].f = IF discard THEN @ \cup {"DISCARD_MY_DATA"} ELSE @],
                 << [do |-> "cstate", p |-> p, val |-> C_UNCONNECTED],
                    [do |-> "connecting", p |-> p] >>))
  /\ budget' = [budget EXCEPT !.connects = @ \ {<<n, p, discard>>}]
  /\ UNCHANGED <<up, data, acked, shook>>

-----------------------------------------------------------------------------
Start == 16
Acquainted == [Stranger EXCEPT !.cur = Start, !.hist = <<8>>, !.flags = {"STABLE"},
                 !.f = {"UUIDS_RECEIVED"}, !.last = L_ESTABLISHED,
                 !.comm = [cur |-> Start, bm |-> 0, flags |-> {"STABLE"}, set |-> 0]]
\* in sync; the administrator has disconnected those that run and are apart
Joined(n, p, yes, no) == IF {n, p} \in budget.joined THEN yes ELSE no
SyncedState(n) ==
  [Blank(n, [consistent |-> TRUE, up_to_date |-> TRUE, crashed |-> FALSE, quorum |-> TRUE,
             members |-> Nodes, primary_ind |-> FALSE], {}) EXCEPT
     !.disk = D_UP_TO_DATE, !.quorate = {p \in Peers(n) : {n, p} \in budget.joined},
     !.cstate = [p \in Peers(n) |->
        Joined(n, p, C_CONNECTED, IF {n, p} \subseteq budget.up THEN C_STANDALONE ELSE C_CONNECTING)],
     !.repl = [p \in Peers(n) |-> Joined(n, p, L_ESTABLISHED, L_OFF)],
     !.peer_role = [p \in Peers(n) |-> Joined(n, p, "Secondary", "Unknown")],
     !.pdsk = [p \in Peers(n) |-> Joined(n, p, D_UP_TO_DATE, D_UNKNOWN)]]
SyncedUuids(n) ==
  [Uuids(n, Start, <<8>>, PerPeer(n, 0), PerPeer(n, 0), PerPeer(n, {}), 0) EXCEPT
     !.peer = [p \in Peers(n) |-> Joined(n, p, Acquainted, Stranger)]]
\* after drbdadm create-md: no data yet
CreatedState(n) ==
  Attached(n, Blank(n, [consistent |-> FALSE, up_to_date |-> FALSE, crashed |-> FALSE, quorum |-> TRUE,
                        members |-> Nodes, primary_ind |-> FALSE], {}))
CreatedUuids(n) ==
  Uuids(n, UUID_JUST_CREATED, <<>>, PerPeer(n, 0), PerPeer(n, 0), PerPeer(n, Blocks), 0)
Init ==
  /\ budget \in Scenarios
  /\ st = [n \in Nodes |-> IF budget.synced THEN SyncedState(n) ELSE CreatedState(n)]
  /\ uu = [n \in Nodes |-> IF budget.synced THEN SyncedUuids(n) ELSE CreatedUuids(n)]
  /\ todo = [n \in Nodes |-> <<>>] /\ due = [n \in Nodes |-> FALSE]
  /\ up = budget.up
  /\ net = [e \in Ends |-> <<>>] /\ ctl = [e \in Ends |-> <<>>]
  /\ data = [n \in Nodes |-> [b \in Blocks |-> IF budget.synced THEN 0 ELSE -n]]
  /\ fresh = Start /\ acked = {} /\ shook = NoShook

Received(n, p) ==
  \/ receive_Data(n, p) \/ ReceiveUuids(n, p) \/ ReceiveState(n, p) \/ ReceiveRole(n, p)
  \/ ReceiveBitmap(n, p) \/ ReceiveOutOfSync(n, p) \/ ReceiveCurrentUuid(n, p)
  \/ receive_dagtag(n, p) \/ ReceivePeerDagtag(n, p)
  \/ ReceiveFlushRequests(n, p) \/ ReceiveFlushAck(n, p) \/ GotFlushForward(n, p)
  \/ got_BlockAck(n, p) \/ GotPeerAck(n, p) \/ got_peers_in_sync(n, p)
Resync(n, p) == ResyncFinished(n, p) \/ \E b \in Blocks : ResyncBlock(n, p, b)
Links(n, p) ==
  \/ Lose(n, p) \/ Disconnect(n, p) \/ DisconnectBegins(n, p) \/ DisconnectGoesOn(n, p)
  \/ conn_connect(n, p) \/ connect_work(n, p)
  \/ \E discard \in BOOLEAN : AdminConnect(n, p, discard)
Single(n) ==
  \/ Run(n) \/ make_new_current_uuid(n) \/ SendPeerAck(n) \/ Demote(n) \/ EmptyTwopc(n)
  \/ Crash(n) \/ Restart(n)
  \/ (\E b \in Blocks : Write(n, b)) \/ (\E force \in BOOLEAN : Promote(n, force))
\* nothing is left to be done
AtRest ==
  /\ Quiet /\ \A n \in up : ~due[n] /\ uu[n].inflight = {} /\ uu[n].pack.tag = 0
  /\ \A e \in Ends : net[e] = <<>> /\ ctl[e] = <<>>
  /\ \A n \in up : \A p \in Peers(n) :
       CASE st[n].cstate[p] = C_CONNECTED -> Alive(n, p) /\ st[n].repl[p] = L_ESTABLISHED
         [] st[n].cstate[p] = C_CONNECTING -> p \notin up \/ st[p].cstate[n] = C_STANDALONE
         [] OTHER -> st[n].cstate[p] = C_STANDALONE
  /\ UNCHANGED vars
Next ==
  \/ AtRest
  \/ \E n \in Nodes : Single(n) \/ \E p \in Peers(n) : Received(n, p) \/ Resync(n, p) \/ Links(n, p)
Spec == Init /\ [][Next]_vars

-----------------------------------------------------------------------------
\* Types: every node has a state and UUIDs, and what is under way is known.
\* The UUIDs in use (drbd_main.c) are generated ones, and the history holds no
\* more than HISTORY_UUIDS of them.
TypeOK ==
  /\ up \subseteq Nodes /\ acked \subseteq Nat /\ fresh \in Nat
  /\ \A n \in Nodes :
       /\ st[n].disk \in D_DISKLESS..D_UP_TO_DATE /\ st[n].role \in {"Primary", "Secondary"}
       /\ Len(uu[n].hist) <= HISTORY_UUIDS
       /\ Range(uu[n].hist) \cup {uu[n].cur} \cup {uu[n].bm[p] : p \in Peers(n)} \subseteq 0..fresh + 1
       /\ \A p \in Peers(n) : uu[n].bits[p] \subseteq Blocks /\ st[n].repl[p] \in L_NEGOTIATING..L_BEHIND
       /\ data[n] \in [Blocks -> Int] /\ due[n] \in BOOLEAN

\* Nothing is under way, and nothing will happen by itself.
Calmed ==
  /\ Free /\ \A n \in up : ~due[n] /\ Pinged(n)
  /\ \A e \in Ends : net[e] = <<>> /\ ctl[e] = <<>> /\ st[e[1]].cstate[e[2]] \notin Lost
InSync(n, p) ==
  /\ {n, p} \subseteq up
  /\ st[n].repl[p] = L_ESTABLISHED /\ st[p].repl[n] = L_ESTABLISHED
  /\ st[n].disk = D_UP_TO_DATE /\ st[p].disk = D_UP_TO_DATE
  /\ \A m \in Nodes : uu[m].inflight = {}
\* Two nodes that are connected, not resyncing and both UpToDate hold the same
\* data once all packets have arrived: whatever writes, losses, crashes and
\* resyncs there were, the bitmaps (drbd_req_destroy, got_peer_ack,
\* cleanup_unacked_peer_requests) have covered every block that differed and the
\* handshake (drbd_sync_handshake) has not skipped a resync that was needed.
\* They are also in the same data generation: a new current UUID
\* (drbd_uuid_new_current) has reached everybody who has the data, directly or
\* at the end of a resync (drbd_uuid_resync_finished).
SyncedEqual ==
  Calmed => \A e \in Ends :
    InSync(e[1], e[2]) => data[e[1]] = data[e[2]] /\ Same(uu[e[1]].cur, uu[e[2]].cur)

Mirror(r) == CASE r = L_SYNC_SOURCE -> L_SYNC_TARGET [] r = L_SYNC_TARGET -> L_SYNC_SOURCE
               [] r = L_PAUSED_SYNC_S -> L_PAUSED_SYNC_T [] r = L_PAUSED_SYNC_T -> L_PAUSED_SYNC_S
               [] OTHER -> r
\* The two ends of a new connection evaluate the handshake (drbd_sync_handshake)
\* each for itself, and come to opposite conclusions: one of them becomes the
\* source exactly when the other becomes the target, and a split brain is seen
\* by both.  When all packets have arrived they agree on the resync between them,
\* and no end waits for a bitmap that the other one is not going to send
\* (receive_state, receive_bitmap, drbd_start_resync).
Mirrors ==
  /\ shook.n # None /\ "RETRY_CONNECT" \notin {shook.mine, shook.peers}
       => /\ shook.mine \in Sources <=> shook.peers \in Targets
          /\ shook.mine \in Targets <=> shook.peers \in Sources
          /\ shook.mine \in SplitBrain <=> shook.peers \in SplitBrain
  /\ Calmed => \A e \in Ends :
       Alive(e[1], e[2]) /\ Alive(e[2], e[1])
         => /\ st[e[2]].repl[e[1]] = Mirror(st[e[1]].repl[e[2]])
            /\ st[e[1]].repl[e[2]] \notin {L_WF_BITMAP_S, L_WF_BITMAP_T}
\* Unless the administrator or a split brain policy discards data, no node
\* gives up a write that was completed to the application for an older one:
\* the resyncs after losses, crashes and failovers go from newer to older data.
NoSilentRollback ==
  [][\A n \in Nodes : \A b \in Blocks :
        data'[n][b] < data[n][b] => data[n][b] \notin acked \/ budget.discards]_vars
=============================================================================

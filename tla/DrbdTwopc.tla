------------------------------ MODULE DrbdTwopc ------------------------------
(***************************************************************************)
(* Cluster-wide state changes: the two-phase commit of drbd_state.c        *)
(* (change_cluster_wide_state) and drbd_receiver.c (process_twopc), between *)
(* nodes whose states are those of DrbdState.  Promotion, demotion,        *)
(* connecting, disconnecting and the empty change that follows a lost      *)
(* connection are such changes.  A node forwards a request to the nodes    *)
(* its initiator does not reach and answers when all of them have.         *)
(*                                                                         *)
(* One node is the threads                                                 *)
(*    "adm"  an administrative command (drbd_set_role, disconnect),         *)
(*    "con"  connect_work of the sender, on the node with the lower id,     *)
(*    "emp"  the empty_twopc work,                                          *)
(* one receiver for each connection (data stream), one ack receiver for    *)
(* each connection (control stream, the replies), twopc_work and the timer. *)
(***************************************************************************)
EXTENDS DrbdChange

CONSTANT Scenarios   \* what may happen in a behaviour: see MCDrbdTwopc

VARIABLES st,      \* node -> state, as in DrbdState
          tx,      \* node -> twopc, twopc_reply, remote_state_change, ...
          fl,      \* node -> peer -> TWOPC_PREPARED, _YES, _NO, _RETRY
          thr,     \* node -> thread -> initiator thread
          rcv,     \* node -> peer -> the receiver of that connection
          env,     \* node -> semaphore, flags, timer
          link,    \* <<n, p>>: n's end of the transport to p works
          net,     \* <<n, p>> -> data stream from n to p
          ctl,     \* <<n, p>> -> control stream from n to p
          shake,   \* <<n, p>> -> what n knows of p's initial state
          tids,    \* transactions so far
          budget,  \* what may still happen
          hist     \* tid -> who denied, what the initiator decided, FATAL errors

vars == <<st, tx, fl, thr, rcv, env, link, net, ctl, shake, tids, budget, hist>>

Ends == {e \in Nodes \X Nodes : e[1] # e[2]}
Threads == {"adm", "con", "emp"}
NoOp == Op("none", "none", "none")

NoTx == [on |-> FALSE, tid |-> 0, init |-> None, target |-> None, op |-> NoOp,
         reach |-> {}, treach |-> {}, prim |-> {}, weak |-> {}, failed |-> FALSE,
         is_connect |-> FALSE, is_disconnect |-> FALSE, prims |-> {}, sreach |-> {},
         cmd |-> "none", parents |-> {}, executed |-> FALSE]
Idle == [pc |-> "idle", op |-> NoOp, target |-> None, rv |-> "none", tid |-> 0,
         to |-> {}, incapable |-> FALSE, peers |-> FALSE]
NoMsg == [cmd |-> "none"]
NoShake == [ready |-> FALSE, pdsk |-> D_UNKNOWN]

Change(me, o, op, p, t, phase, c) ==
  CASE op.kind = "role" -> do_change_role(me, o, op, t, phase)
    [] op.kind \in {"connect", "disconnect"} ->
         do_change_cstate(me, o, p, op, t, phase, c)
    [] op.kind = "empty" -> do_twopc_after_lost_peer(me, o, t, phase)

\* does the callback ask for a cluster-wide change?
IsClusterWide(me, o, op, p) ==
  CASE op.kind = "role" -> o.role # op.role
    [] op.kind = "connect" -> TRUE
    [] op.kind = "disconnect" -> o.cstate[p] = C_CONNECTED
    [] op.kind = "empty" -> tx[me].reach # {me}

Flags(op) == IF op.kind = "empty" THEN quorum_flag ELSE {}
\* the peers are told before the node itself changes
change_local_state_last(op) ==
  op.kind \in {"connect", "disconnect"} \/ op.role = "Secondary"

-----------------------------------------------------------------------------
\* Who has answered.

drbd_twopc_between_peer_and_me(me, t, p) ==
  \/ t.target \in {me, None} /\ t.init = p
  \/ t.target \in {p, None} /\ t.init = me

\* f: the flags of the connections, sh: the handshakes
\* mutant: the first answer is enough
cluster_wide_reply_ready_first(me, t, f, e, sh) ==
  LET prepared == {p \in Peers(me) : "P" \in f[p]}
  IN \/ e.abort_local \/ prepared = {}
     \/ \E p \in prepared : f[p] \cap {"Y", "N", "R"} # {}

cluster_wide_reply_ready(me, t, f, e, sh) ==
  LET prepared == {p \in Peers(me) : "P" \in f[p]}
      connect_ready == t.is_connect =>
        \A p \in Peers(me) : drbd_twopc_between_peer_and_me(me, t, p)
                               => sh[<<me, p>>].ready
  IN \/ e.abort_local
     \/ \E p \in prepared : "R" \in f[p]
     \/ /\ connect_ready
        /\ \/ t.failed
           \/ \E p \in prepared : "N" \in f[p]
           \/ \A p \in prepared : "Y" \in f[p]

get_cluster_wide_reply(me, t, f, e) ==
  LET prepared == {p \in Peers(me) : "P" \in f[p]}
  IN CASE e.abort_local \/ \E p \in prepared : "R" \in f[p] -> "retry"
       [] ~e.abort_local /\ (t.failed \/ \E p \in prepared : "N" \in f[p]) -> "no"
       [] OTHER -> "yes"

\* a participant that has all answers schedules twopc_work
drbd_maybe_cluster_wide_reply(me, t, f, e, sh) ==
  IF t.on /\ t.init # me /\ cluster_wide_reply_ready(me, t, f, e, sh)
  THEN [e EXCEPT !.pending = TRUE] ELSE e

clear_remote_state_change(t) == [t EXCEPT !.on = FALSE, !.init = None, !.tid = 0]

-----------------------------------------------------------------------------
\* Messages.  A connection whose other end is gone loses what is sent.

Send(q, me, S, m) ==
  [e \in Ends |-> IF e[1] = me /\ e[2] \in S /\ e \in link /\ <<e[2], me>> \in link
                  THEN Append(q[e], m) ELSE q[e]]

TwopcMsg(cmd, t, to, incapable) ==
  [cmd |-> cmd, tid |-> t.tid, init |-> t.init, target |-> t.target, op |-> t.op,
   to |-> to, prims |-> t.prims, sreach |-> t.sreach, incapable |-> incapable]

ReplyMsg(cmd, t) == [cmd |-> cmd, tid |-> t.tid, init |-> t.init,
                     reach |-> t.reach, prim |-> t.prim, weak |-> t.weak]

StateMsg(cmd, s) == [cmd |-> cmd, role |-> s.role, disk |-> s.disk,
                     quorum |-> s.have_quorum]

\* w_after_state_change: which peers are told of the change from o to s
\* mutant: a change of the disk is not told
StateSentTo_quorum(me, o, s) ==
  {p \in Peers(me) : s.cstate[p] = C_CONNECTED /\ o.have_quorum # s.have_quorum}

StateSentTo(me, o, s) ==
  {p \in Peers(me) :
     /\ s.cstate[p] = C_CONNECTED
     /\ \/ /\ s.disk >= D_INCONSISTENT /\ s.disk # o.disk
           /\ o.repl[p] >= L_ESTABLISHED /\ s.repl[p] >= L_ESTABLISHED
           /\ ~(o.role = "Secondary" /\ s.role = "Primary")
        \/ o.have_quorum # s.have_quorum /\ s.disk >= D_INCONSISTENT
        \/ o.repl[p] = L_OFF /\ s.repl[p] >= L_ESTABLISHED}

send_role_to_all_peers(me, o, s) ==
  IF o.role = "Primary" /\ s.role = "Secondary"
  THEN directly_connected_nodes(s) ELSE {}

AfterSends(q, me, o, s) ==
  Send(Send(q, me, StateSentTo(me, o, s), StateMsg("state", s)),
       me, send_role_to_all_peers(me, o, s), StateMsg("role", s))

\* the rest of a completed change: finish_state_change marks the lost
\* connections of an ongoing transaction, update_members and
\* w_after_state_change schedule an empty one, and with no connection left
\* the timer expires now
AfterFlags(me, o, s, f, t) ==
  [p \in Peers(me) |->
     IF /\ o.cstate[p] = C_CONNECTED /\ s.cstate[p] < C_CONNECTED
        /\ t.init # None /\ "P" \in f[p]
     THEN f[p] \cup {"R"} ELSE f[p]]
AfterEnv(me, o, s, f, t, e, reachable) ==
  LET e1 == IF f = AfterFlags(me, o, s, f, t) THEN e
            ELSE drbd_maybe_cluster_wide_reply(me, t, AfterFlags(me, o, s, f, t), e, shake)
  IN [e1 EXCEPT
        !.empty = @ \/ drbd_schedule_empty_twopc(me, o, s, reachable),
        !.timer = IF /\ @ = "armed"
                     /\ \A p \in Peers(me) : s.cstate[p] \notin {C_CONNECTED, C_CONNECTING}
                  THEN "due" ELSE @]

\* holding: the uuid_sem is released when a connection is established
IsConnect(me, o, s) ==
  \E p \in Peers(me) : o.cstate[p] < C_CONNECTED /\ s.cstate[p] = C_CONNECTED
AfterState(me, o, s) == IF IsConnect(me, o, s) THEN [s EXCEPT !.holding = {}] ELSE s

\* abort_connect
NoHandshake(s, p) == [s EXCEPT !.holding = @ \ {p}]

-----------------------------------------------------------------------------
\* The initiator: change_cluster_wide_state.

Elsewhere == 0    \* stands for the node ids that are not configured
All == Nodes \cup {Elsewhere}
Success(rv) == rv \in {"SS_SUCCESS", "SS_NOTHING_TO_DO"}

Serialized(w) == w # "emp"

Up(e, w) == IF Serialized(w) THEN [e EXCEPT !.sem = @ + 1] ELSE e
WithFlags(f, S) == [p \in DOMAIN f |-> IF p \in S THEN {"P"} ELSE f[p] \ {"P"}]

\* the state of node n changes from o to s
Became(n, o, s, reachable, t, f, e) ==
  /\ st' = [st EXCEPT ![n] = AfterState(n, o, s)]
  /\ fl' = [fl EXCEPT ![n] = AfterFlags(n, o, s, f, t)]
  /\ env' = [env EXCEPT ![n] = AfterEnv(n, o, s, f, t, e, reachable)]

\* connect_work after the attempt: retry, give up for good, or start over
HardChange(n, s, c) == EndStateChange(n, s, c, {"hard"}, {}).s
IncompatStates(rv) == rv \in {"SS_CW_FAILED_BY_PEER", "SS_TWO_PRIMARIES"}
connect_work(n, s, p, rv, again) ==
  IF again \/ rv \in {"SS_TIMEOUT", "SS_CONCURRENT_ST_CHG"} THEN s
  ELSE HardChange(n, s, change_cstate(s, p, IF IncompatStates(rv) THEN C_DISCONNECTING
                                            ELSE C_NETWORK_FAILURE))

\* The end of a thread's attempt that did not change the state: t, f are what
\* is left, q the data stream.
GiveUpAs(n, w, rv, t, e, q, s, s1, again) ==
  LET p == thr[n][w].target
  IN /\ Became(n, s, s1, {}, t, fl[n], Up(e, w))
     /\ tx' = [tx EXCEPT ![n] = t]
     /\ thr' = [thr EXCEPT ![n][w] = IF again THEN [Idle EXCEPT !.pc = "armed", !.target = p]
                                     ELSE Idle]
     /\ net' = AfterSends(IF w = "con" /\ IncompatStates(rv)
                          THEN Send(q, n, {p}, [cmd |-> "disconnect"]) ELSE q,
                          n, s, s1)
GiveUp(n, w, rv, t, e, q) ==
  LET p == thr[n][w].target
      s == NoHandshake(st[n], p)
      again == /\ w = "con" /\ rv \in {"SS_TIMEOUT", "SS_CONCURRENT_ST_CHG"}
               /\ s.cstate[p] = C_CONNECTING
  IN GiveUpAs(n, w, rv, t, e, q, s,
              IF w = "con" THEN connect_work(n, s, p, rv, again) ELSE s, again)

\* begin_state_change up to try_state_change: does the change make sense here?
\* op is what the caller asks for, p the target (None: no target)
StartAs(n, w, op, p, o, r, e) ==
  /\ Serialized(w) => env[n].sem > 0
  /\ \/ /\ ~IsClusterWide(n, o, op, p)
        /\ Became(n, o, r.s, {}, tx[n], fl[n], e)
        /\ thr' = [thr EXCEPT ![n][w] = Idle]
        /\ net' = AfterSends(net, n, o, r.s)
        /\ UNCHANGED tx
     \/ /\ IsClusterWide(n, o, op, p) /\ r.rv # "SS_SUCCESS"
        /\ \/ w # "con" /\ thr' = [thr EXCEPT ![n][w] = Idle]
                        /\ env' = [env EXCEPT ![n] = e]
                        /\ UNCHANGED <<st, fl, tx, net>>
           \/ w = "con" /\ GiveUp(n, w, r.rv, tx[n], [e EXCEPT !.sem = @ - 1], net)
     \/ /\ IsClusterWide(n, o, op, p) /\ r.rv = "SS_SUCCESS"
        /\ thr' = [thr EXCEPT ![n][w] =
                     [Idle EXCEPT !.pc = "wait", !.op = op, !.target = p]]
        /\ env' = [env EXCEPT ![n] = IF Serialized(w) THEN [e EXCEPT !.sem = @ - 1] ELSE e]
        /\ UNCHANGED <<st, fl, tx, net>>
  /\ UNCHANGED <<rcv, link, ctl, shake, tids, hist>>
\* no resync is modelled here
connect_state(n, p) ==
  [conn |-> L_ESTABLISHED, isp |-> FALSE,
   pdsk |-> IF p = None THEN D_UNKNOWN ELSE shake[<<n, p>>].pdsk]
StartOp(n, w, op, p, o) ==
  StartAs(n, w, op, p, o,
          EndStateChange(n, o, Change(n, o, op, p, tx[n], "prepare", connect_state(n, p)), Flags(op), {}),
          [env[n] EXCEPT !.empty = IF w = "emp" THEN FALSE ELSE @])
Start(n, w, op, p) ==
  StartOp(n, w,
    [op EXCEPT !.out = IF op.kind = "disconnect" THEN outdate_on_disconnect(st[n], p) ELSE "none",
               !.role = IF op.kind = "connect" THEN st[n].role ELSE @], p, st[n])

\* mutant: a transaction of another node is not waited for
complete_remote_state_change_late(n) == ~env[n].pending

complete_remote_state_change(n) == ~tx[n].on /\ ~env[n].pending

\* retry: up to the wait for the replies
Begin(n, w) ==
  LET a == thr[n][w]
      o == st[n]
      p == a.target
      connect == a.op.kind = "connect"
      gone == p # None /\ ~(\/ o.cstate[p] = C_CONNECTED
                            \/ connect /\ o.cstate[p] = C_CONNECTING)
      to == directly_connected_nodes(o) \cup ({p} \ {None})
      reach == directly_connected_nodes(o) \cup {n}
      t == [tx[n] EXCEPT
              !.on = TRUE, !.tid = tids + 1, !.init = n, !.target = p, !.op = a.op,
              !.prims = {}, !.sreach = {}, !.parents = {}, !.prim = {}, !.weak = {},
              !.failed = FALSE, !.is_connect = connect,
              !.is_disconnect = a.op.kind = "disconnect",
              !.reach = CASE connect -> reach \cup {p}
                          [] a.op.kind = "disconnect" -> reach \ {p}
                          [] OTHER -> reach,
              !.treach = CASE connect -> reach \cup {p}
                           [] a.op.kind = "disconnect" -> {p}
                           [] OTHER -> reach]
      sent == {x \in to : <<n, x>> \in link}
      peers == sent # {} /\ p \in sent \cup {None}
      q == Send(net, n, sent, TwopcMsg("prepare", t, Nodes \ (to \cup {n}), FALSE))
  IN /\ a.pc = "wait"
     /\ (w = "con" /\ gone) \/ complete_remote_state_change(n)
     /\ \/ gone /\ GiveUp(n, w, "SS_NEED_CONNECTION", tx[n], env[n], net)
                /\ UNCHANGED <<shake, tids>>
        \/ /\ ~gone /\ tids < budget.tids
           /\ tids' = tids + 1
           /\ tx' = [tx EXCEPT ![n] = t]
           /\ fl' = [fl EXCEPT ![n] = WithFlags(fl[n], sent)]
           /\ thr' = [thr EXCEPT ![n][w].pc = IF peers THEN "collect" ELSE "commit",
                                 ![n][w].rv = IF p \in sent \cup {None} THEN "SS_SUCCESS"
                                              ELSE "SS_NEED_CONNECTION",
                                 ![n][w].peers = peers, ![n][w].tid = tids + 1]
           /\ net' = IF connect /\ peers THEN Send(q, n, {p}, StateMsg("hs", o)) ELSE q
           /\ st' = IF connect THEN [st EXCEPT ![n].holding = @ \cup {p},
                                               ![n].quorate = @ \ {p}] ELSE st
           /\ shake' = IF connect THEN [shake EXCEPT ![<<n, p>>] = NoShake] ELSE shake
           /\ UNCHANGED env
     /\ UNCHANGED <<rcv, link, ctl, budget, hist>>

\* nobody may become Primary, or meet one, when there is a Primary already
check_primaries_distances(op, prim) ==
  IF /\ op.kind = "connect" \/ op.role = "Primary"
     /\ Cardinality(prim) > 1
  THEN "SS_TWO_PRIMARIES" ELSE "SS_SUCCESS"

\* A timeout: when nothing is under way any more, and budget.timeouts times
\* while something still is.
Down == C_TIMEOUT..C_TEAR_DOWN \cup {C_DISCONNECTING}
Quiet == \A e \in Ends : net[e] = <<>> /\ ctl[e] = <<>>
Late == Quiet \/ budget.timeouts > 0
Waited == IF Quiet THEN budget ELSE [budget EXCEPT !.timeouts = @ - 1]

\* the replies are in (or the time is up): the decision, for the peers of a
\* change_local_state_last also phase 2
Decide(n, w, why) ==
  LET a == thr[n][w]
      o == st[n]
      t == tx[n]
      p == a.target
      reply == get_cluster_wide_reply(n, t, fl[n], env[n])
      now == directly_connected_nodes(o)
               \cup {x \in {p} \ {None} : o.cstate[x] = C_CONNECTING}
      split == a.op.kind = "disconnect" /\ t.reach \cap t.treach = {}
      primary == \/ a.op.kind = "role" /\ a.op.role = "Primary"
                 \/ a.op.kind # "role" /\ a.op.kind # "connect" /\ o.role = "Primary"
                 \/ a.op.kind = "connect" /\ a.op.role = "Primary"
      near == (now \cup {n}) \ (IF a.op.kind = "disconnect" THEN {p} ELSE {})
      prim == IF primary THEN t.prim \cup {n} ELSE t.prim
      weak == IF primary /\ drbd_data_accessible(n, o) THEN t.weak \cup (All \ near)
              ELSE t.weak
      ready == why = "ready"
      rv == CASE why = "timeout" -> "SS_TIMEOUT"
              [] why = "signal" -> "SS_INTERRUPTED"
              [] ready /\ reply = "retry" -> "SS_CONCURRENT_ST_CHG"
              [] ready /\ reply = "no" -> "SS_CW_FAILED_BY_PEER"
              [] OTHER -> check_primaries_distances(a.op, prim)
      t1 == IF ~ready \/ reply # "yes" THEN t
            ELSE [t EXCEPT !.prim = prim, !.weak = weak,
                           !.reach = IF split THEN @ ELSE t.reach \cup t.treach,
                           !.treach = IF split THEN @ ELSE t.reach \cup t.treach,
                           !.prims = prim,
                           !.sreach = IF split THEN t.treach ELSE t.reach \cup t.treach]
      a1 == [a EXCEPT !.rv = rv, !.to = now, !.incapable = prim # {} /\ weak = {}]
      cmd == IF Success(rv) THEN "commit" ELSE "abort"
      retry == rv \in {"SS_TIMEOUT", "SS_CONCURRENT_ST_CHG"} /\ w # "con"
      phase2 == Send(net, n, now, TwopcMsg(cmd, t1, Nodes \ (now \cup {n}), a1.incapable))
  IN /\ a.pc = "collect"
     /\ ready = cluster_wide_reply_ready(n, t, fl[n], env[n], shake)
     /\ why = "timeout" => Late
     /\ why = "signal" => w = "con" /\ o.cstate[p] \in Down
     /\ thr' = [thr EXCEPT ![n][w] = IF retry THEN [a EXCEPT !.pc = "wait"]
                                     ELSE [a1 EXCEPT !.pc = "commit"]]
     /\ tx' = [tx EXCEPT ![n] = IF retry THEN clear_remote_state_change(t1) ELSE t1]
     /\ net' = IF retry \/ change_local_state_last(a.op) THEN phase2 ELSE net
     /\ st' = IF Success(rv) THEN st ELSE [st EXCEPT ![n] = NoHandshake(o, p)]
     /\ hist' = IF Success(rv) THEN [hist EXCEPT !.committed = @ \cup {a.tid}] ELSE hist
     /\ budget' = IF why = "timeout" THEN Waited ELSE budget
     /\ UNCHANGED <<fl, rcv, env, link, ctl, shake, tids>>

\* end_remote_state_change and the local part of the decision; a change that
\* the peers have agreed to and that can not be made here is only reported
CommitAs(n, w, a, o, t, r) ==
  LET q == AfterSends(net, n, o, r.s)
      tell == a.peers /\ ~change_local_state_last(a.op)
      phase2(cmd, to) == Send(to, n, a.to, TwopcMsg(cmd, t, Nodes \ (a.to \cup {n}), a.incapable))
      t1 == clear_remote_state_change(t)
  IN /\ \/ /\ Success(a.rv) /\ Ok(r)
           /\ Became(n, o, r.s, t.reach, t1, fl[n], Up(env[n], w))
           /\ tx' = [tx EXCEPT ![n] = t1]
           /\ thr' = [thr EXCEPT ![n][w] = IF tell /\ budget.late
                                           THEN [a EXCEPT !.pc = "phase2"] ELSE Idle]
           /\ net' = IF tell /\ ~budget.late THEN phase2("commit", q) ELSE q
           /\ UNCHANGED hist
        \/ /\ ~(Success(a.rv) /\ Ok(r))
           /\ GiveUp(n, w, IF Success(a.rv) THEN r.rv ELSE a.rv, t1, env[n],
                     IF tell THEN phase2(IF Success(a.rv) THEN "commit" ELSE "abort", net)
                     ELSE net)
           /\ hist' = IF Success(a.rv) /\ a.peers THEN [hist EXCEPT !.fatal = @ \cup {a.tid}]
                      ELSE hist
     /\ UNCHANGED <<rcv, link, ctl, shake, tids, budget>>
Commit(n, w) ==
  LET a == thr[n][w]
      t == tx[n]
  IN /\ a.pc = "commit"
     /\ CommitAs(n, w, a, st[n], t,
          EndStateChange(n, st[n],
            Change(n, st[n], a.op, a.target, t, "commit", connect_state(n, a.target)),
            Flags(a.op), t.reach))

\* the packet is put together from the state_change of the moment it is sent
Phase2(n, w) ==
  LET a == thr[n][w]
      t == [tx[n] EXCEPT !.tid = a.tid, !.init = n, !.target = a.target]
  IN /\ a.pc = "phase2"
     /\ net' = Send(net, n, a.to, TwopcMsg("commit", t, Nodes \ (a.to \cup {n}), a.incapable))
     /\ thr' = [thr EXCEPT ![n][w] = Idle]
     /\ UNCHANGED <<st, tx, fl, rcv, env, link, ctl, shake, tids, budget, hist>>

-----------------------------------------------------------------------------
\* The participants: process_twopc.

check_concurrent_transactions(n, m) ==
  LET t == tx[n]
  IN CASE ~t.on -> "CLEAR"
       [] t.on /\ m.init < t.init -> IF t.init = n THEN "ABORT_LOCAL" ELSE "REJECT"
       [] t.on /\ m.init > t.init -> "REJECT"
       [] OTHER -> IF m.tid = t.tid THEN "MATCH" ELSE "TID_MISS"

any_neighbor_quorate(n) == st[n].quorate # {}

\* the reply and state_change of this node after packet m: a later packet
\* overwrites what the replies to the prepare have collected
NewTx(n, m, t0) ==
  LET o == st[n]
      prepare == m.cmd = "prepare"
      t1 == IF prepare THEN [t0 EXCEPT !.op = m.op] ELSE [t0 EXCEPT !.prims = m.prims, !.sreach = m.sreach]
      t2 == [t1 EXCEPT !.init = m.init, !.target = m.target, !.tid = m.tid]
      near == directly_connected_nodes(o) \cup {n}
      reach == CASE t2.op.kind = "connect" -> near \cup {m.init}
                 [] t2.op.kind = "disconnect" -> near \ {m.init}
                 [] OTHER -> near
      primary == prepare /\ o.role = "Primary"
  IN [t2 EXCEPT !.reach = reach, !.treach = {}, !.failed = FALSE,
                !.is_connect = t2.op.kind = "connect" /\ affected_connection(n, o, t2),
                !.is_disconnect = t2.op.kind = "disconnect",
                !.prim = IF primary THEN {n} ELSE {},
                !.weak = IF primary /\ drbd_data_accessible(n, o) THEN All \ reach ELSE {}]

\* the reply of a node that has all answers, to all its parents
EndNested(n, t, cmd, q) == Send(q, n, t.parents, ReplyMsg(cmd, t))

\* the state the packet asks for, and whether it is allowed
Asked(n, o, t, m, phase) ==
  IF affected_connection(n, o, t)
  THEN change_connection_state(n, o, t.init, t, phase, connect_state(n, t.init))
  ELSE far_away_change(n, o, t, m.incapable)
Allowed(n, o, t, m) ==
  IF /\ ~affected_connection(n, o, t) /\ t.op.kind = "role" /\ t.op.role = "Primary"
     /\ o.role = "Primary"
  THEN "SS_TWO_PRIMARIES"
  ELSE EndStateChange(n, o, Asked(n, o, t, m, "prepare"), {}, {}).rv

\* P_TWOPC_PREPARE is accepted: check the change, ask the nodes further away
PrepareAs(n, p, m, q0, o, t0, rv) ==
  LET transient == rv = "SS_IN_TRANSIENT_STATE"
      kids == directly_connected_nodes(o) \cap m.to
      t1 == [t0 EXCEPT !.failed = ~Success(rv) /\ ~transient,
                       !.cmd = IF transient THEN "retry" ELSE "none"]
      f == IF transient THEN fl[n] ELSE WithFlags(fl[n], kids)
      sh == IF t1.is_connect THEN [shake EXCEPT ![<<n, m.init>>] = NoShake] ELSE shake
      e == [env[n] EXCEPT !.timer = "armed", !.abort_local = FALSE]
      now == ~transient /\ kids = {} /\ cluster_wide_reply_ready(n, t1, f, e, sh)
      answer == get_cluster_wide_reply(n, t1, f, e)
      t2 == IF now THEN [t1 EXCEPT !.cmd = answer] ELSE t1
      q1 == IF t1.is_connect THEN Send(q0, n, {m.init}, StateMsg("hs", o)) ELSE q0
  IN /\ tx' = [tx EXCEPT ![n] = t2]
     /\ fl' = [fl EXCEPT ![n] = f]
     /\ env' = [env EXCEPT ![n] = IF now THEN [e EXCEPT !.pending = FALSE] ELSE e]
     /\ shake' = sh
     /\ st' = IF t1.is_connect THEN [st EXCEPT ![n].holding = @ \cup {m.init},
                                               ![n].quorate = @ \ {m.init}] ELSE st
     /\ net' = IF transient THEN q1
               ELSE Send(q1, n, kids, TwopcMsg("prepare", [t1 EXCEPT !.prims = {}, !.sreach = {}],
                                               m.to \ (kids \cup {n}), m.incapable))
     /\ ctl' = CASE transient -> Send(ctl, n, {p}, ReplyMsg("retry", t1))
                 [] now -> EndNested(n, t1, answer, ctl)
                 [] OTHER -> ctl
     /\ hist' = IF Success(rv) THEN hist ELSE [hist EXCEPT !.denied = @ \cup {m.tid}]

PrepareTx(n, p, m, q0, o, t) == PrepareAs(n, p, m, q0, o, t, Allowed(n, o, t, m))
Prepare(n, p, m, q0) ==
  PrepareTx(n, p, m, q0, st[n],
            NewTx(n, m, [tx[n] EXCEPT !.on = TRUE, !.cmd = "none", !.parents = {p},
                                      !.executed = FALSE]))

\* P_TWOPC_COMMIT and P_TWOPC_ABORT of the prepared change
ExecuteAs(n, m, q0, t, o, r, s) ==
  LET commit == m.cmd = "commit"
      kids == directly_connected_nodes(s) \cap m.to
      e == [env[n] EXCEPT !.timer = "off"]
  IN /\ st' = [st EXCEPT ![n] = s]
     /\ fl' = [fl EXCEPT ![n] = WithFlags(AfterFlags(n, o, s, fl[n], t), kids)]
     /\ env' = [env EXCEPT ![n] = AfterEnv(n, o, s, fl[n], t, e, {})]
     /\ tx' = [tx EXCEPT ![n] = clear_remote_state_change(t)]
     /\ net' = Send(IF commit THEN AfterSends(q0, n, o, s) ELSE q0, n, kids,
                    TwopcMsg(m.cmd, t, m.to \ (kids \cup {n}), m.incapable))
     /\ hist' = IF commit /\ ~Ok(r) THEN [hist EXCEPT !.fatal = @ \cup {m.tid}] ELSE hist
     /\ UNCHANGED <<ctl, shake>>
Executed(n, m, q0, t, o, r) ==
  LET commit == m.cmd = "commit"
      s == IF commit THEN AfterState(n, o, r.s) ELSE o
  IN ExecuteAs(n, m, q0, t, o, r,
       IF t.is_connect /\ (~commit \/ t.cmd = "none") THEN NoHandshake(s, t.init) ELSE s)
ExecuteTx(n, m, q0, t, o, quorum) ==
  Executed(n, m, q0, t, o,
    EndStateChange(n, o, Asked(n, o, t, m, "commit"),
                   IF quorum /\ ~o.have_quorum THEN {"recalc"} ELSE {}, {}))
Execute(n, m, q0) ==
  LET t == NewTx(n, m, [tx[n] EXCEPT !.executed = TRUE])
      quorum == st[n].have_quorum \/ any_neighbor_quorate(n)
      members == (IF quorum THEN m.sreach ELSE st[n].members)
                   \cup (IF t.op.kind = "connect" THEN {t.init, t.target} ELSE {})
  IN ExecuteTx(n, m, q0, t, IF m.cmd = "commit" THEN [st[n] EXCEPT !.members = members]
                            ELSE st[n], quorum)

\* we have prepared this already, the request came on another way
Duplicate(n, p) ==
  LET t == [tx[n] EXCEPT !.parents = @ \cup {p}]
      f == IF t.cmd = "none" THEN [fl[n] EXCEPT ![p] = @ \cup {"Y"}] ELSE fl[n]
      e == [env[n] EXCEPT !.abort_local = FALSE]
  IN /\ tx' = [tx EXCEPT ![n] = t]
     /\ fl' = [fl EXCEPT ![n] = f]
     /\ env' = [env EXCEPT ![n] = IF t.cmd = "none"
                                  THEN drbd_maybe_cluster_wide_reply(n, t, f, e, shake) ELSE e]
     /\ ctl' = IF t.cmd # "none" THEN Send(ctl, n, {p}, ReplyMsg(t.cmd, t)) ELSE ctl
     /\ UNCHANGED <<st, shake, hist>>

\* CSC_CLEAR and CSC_MATCH
Answer(n, p, m, q) ==
  \/ ~tx[n].on /\ Prepare(n, p, m, q)
  \/ tx[n].on /\ tx[n].tid = m.tid /\ Duplicate(n, p) /\ net' = q

Reject(n, p, m) ==
  /\ ctl' = Send(ctl, n, {p}, [cmd |-> "retry", tid |-> m.tid, init |-> m.init,
                               reach |-> {}, prim |-> {}, weak |-> {}])
  /\ hist' = IF m.cmd = "prepare" THEN [hist EXCEPT !.denied = @ \cup {m.tid}] ELSE hist

Listening(n, p) == rcv[n][p] = NoMsg /\ <<n, p>> \in link /\ st[n].cstate[p] >= C_CONNECTING
Next2pc(n, p) == Head(net[<<p, n>>])
Taken(n, p) == [net EXCEPT ![<<p, n>>] = Tail(@)]

\* the receiver of the connection to p takes a two-phase commit packet
receive_twopc(n, p) ==
  LET m == Next2pc(n, p)
      q == Taken(n, p)
      csc == check_concurrent_transactions(n, m)
      prepare == m.cmd = "prepare"
      kids == directly_connected_nodes(st[n]) \cap m.to
      \* the decision on the other one may still come on another connection
      wait == csc = "TID_MISS" /\ prepare /\ p \notin tx[n].parents
  IN /\ Listening(n, p) /\ net[<<p, n>>] # <<>>
     /\ m.cmd \in {"prepare", "commit", "abort"}
     /\ \/ prepare /\ csc \in {"CLEAR", "MATCH"} /\ Answer(n, p, m, q)
           /\ UNCHANGED <<rcv, budget>>
        \/ /\ ~prepare /\ csc = "MATCH" /\ ~tx[n].executed
           /\ Execute(n, m, q)
           /\ UNCHANGED <<rcv, budget>>
        \/ /\ prepare /\ csc = "ABORT_LOCAL"
           /\ rcv' = [rcv EXCEPT ![n][p] = m]
           /\ env' = [env EXCEPT ![n].abort_local = TRUE]
           /\ net' = q
           /\ UNCHANGED <<st, tx, fl, ctl, shake, budget, hist>>
        \/ /\ \/ csc = "REJECT" /\ m.cmd # "abort"
              \/ csc = "TID_MISS" /\ prepare /\ ~wait
           /\ Reject(n, p, m)
           /\ net' = q /\ UNCHANGED <<st, tx, fl, env, shake, rcv, budget>>
        \/ /\ wait /\ budget.timeouts > 0
           /\ Reject(n, p, m)
           /\ budget' = [budget EXCEPT !.timeouts = @ - 1]
           /\ net' = q /\ UNCHANGED <<st, tx, fl, env, shake, rcv>>
        \* nested_twopc_abort: pass an abort on even if it is not for us
        \/ /\ m.cmd = "abort" /\ csc # "MATCH"
           /\ net' = Send(q, n, kids, [m EXCEPT !.to = @ \ (kids \cup {n})])
           /\ UNCHANGED <<st, tx, fl, env, ctl, shake, rcv, hist, budget>>
        \/ /\ \/ m.cmd = "commit" /\ csc \in {"CLEAR", "TID_MISS", "ABORT_LOCAL"}
              \/ ~prepare /\ csc = "MATCH" /\ tx[n].executed
           /\ net' = q
           /\ UNCHANGED <<st, tx, fl, env, ctl, shake, rcv, hist, budget>>
     /\ UNCHANGED <<thr, link, tids>>

\* abort_local_transaction: the own transaction has made way, the same one has
\* come on another connection, or the time is up
abort_local_transaction(n, p) ==
  LET m == rcv[n][p]
  IN /\ m # NoMsg /\ m.cmd = "prepare"
     /\ \/ Answer(n, p, m, net) /\ UNCHANGED budget
        \/ /\ tx[n].on /\ tx[n].tid # m.tid /\ budget.timeouts > 0
           /\ Reject(n, p, m)
           /\ env' = [env EXCEPT ![n].abort_local = FALSE]
           /\ budget' = [budget EXCEPT !.timeouts = @ - 1]
           /\ UNCHANGED <<st, tx, fl, net, shake>>
     /\ rcv' = [rcv EXCEPT ![n][p] = NoMsg]
     /\ UNCHANGED <<thr, link, tids>>

-----------------------------------------------------------------------------
\* The replies.

got_twopc_reply(n, p) ==
  LET m == Head(ctl[<<p, n>>])
      t == tx[n]
      mine == t.init = m.init /\ t.tid = m.tid
      to_target == t.init = n /\ t.target = p
      t1 == IF m.cmd # "yes" THEN t
            ELSE [t EXCEPT !.treach = IF to_target THEN @ \cup m.reach ELSE @,
                           !.reach = IF to_target THEN @ ELSE @ \cup m.reach,
                           !.prim = @ \cup m.prim, !.weak = @ \cup m.weak]
      flag == CASE m.cmd = "yes" -> "Y" [] m.cmd = "no" -> "N" [] m.cmd = "retry" -> "R"
      f == [fl[n] EXCEPT ![p] = @ \cup {flag}]
  IN /\ ctl[<<p, n>>] # <<>> /\ <<n, p>> \in link
     /\ ctl' = [ctl EXCEPT ![<<p, n>>] = Tail(@)]
     /\ tx' = IF mine THEN [tx EXCEPT ![n] = t1] ELSE tx
     /\ fl' = IF mine THEN [fl EXCEPT ![n] = f] ELSE fl
     /\ env' = IF mine THEN [env EXCEPT ![n] = drbd_maybe_cluster_wide_reply(n, t1, f, @, shake)]
               ELSE env
     /\ UNCHANGED <<st, thr, rcv, link, net, shake, tids, budget, hist>>

\* twopc_work: answer the parents, once
nested_twopc_work(n) ==
  LET t == tx[n]
      answer == get_cluster_wide_reply(n, t, fl[n], env[n])
      reply == t.tid # 0 /\ t.cmd = "none"
  IN /\ env[n].pending
     /\ env' = [env EXCEPT ![n].pending = FALSE]
     /\ tx' = IF reply THEN [tx EXCEPT ![n].cmd = answer] ELSE tx
     /\ ctl' = IF reply THEN EndNested(n, t, answer, ctl) ELSE ctl
     /\ UNCHANGED <<st, fl, thr, rcv, link, net, shake, tids, budget, hist>>

\* the initiator is gone or has given up: nothing about this transaction is to
\* come (the timeout is longer than any delay)
Overdue(n) ==
  /\ \A i \in Nodes, w \in Threads :
       ~(thr[i][w].tid = tx[n].tid /\ thr[i][w].pc \in {"collect", "commit", "phase2"})
  /\ \A e \in Ends : \A k \in 1..Len(net[e]) :
       ~(net[e][k].cmd \in {"commit", "abort"} /\ net[e][k].tid = tx[n].tid)

\* the decision does not come: drbd_abort_twopc, which gives up a semaphore
twopc_timer_fn(n) ==
  LET t == tx[n]
      due == env[n].timer = "due"
  IN /\ env[n].timer # "off" /\ ~env[n].pending
     /\ due \/ (Late /\ t.on /\ (Overdue(n) \/ (budget.late /\ ~Quiet)))
     /\ budget' = IF due THEN budget ELSE Waited
     /\ tx' = [tx EXCEPT ![n].on = IF t.init = None THEN @ ELSE FALSE,
                         ![n].init = None,
                         ![n].parents = IF t.init = None THEN @ ELSE {}]
     /\ st' = IF t.init # None /\ t.is_connect /\ t.target = n
              THEN [st EXCEPT ![n] = NoHandshake(@, t.init)] ELSE st
     /\ env' = [env EXCEPT ![n].timer = "off",
                           ![n].sem = IF t.init = None THEN @ ELSE @ + 1]
     /\ UNCHANGED <<fl, thr, rcv, link, net, ctl, shake, tids, hist>>

-----------------------------------------------------------------------------
\* The other packets and the life of a connection.

\* receive_state, and receive_disconnect of a peer that refuses to connect
ReceivedAs(n, p, m, o, s, sh, ready) ==
  /\ Became(n, o, s, {}, tx[n], fl[n],
            IF ready THEN drbd_maybe_cluster_wide_reply(n, tx[n], fl[n], env[n], sh)
            ELSE env[n])
  /\ shake' = sh
  /\ net' = AfterSends(Taken(n, p), n, o, s)
  /\ UNCHANGED <<tx, thr, rcv, link, ctl, tids, budget, hist>>
\* a state of the peer that can not be is the end of the connection
OrDisconnect(n, p, o, r) ==
  IF Ok(r) THEN r.s ELSE HardChange(n, o, change_cstate(o, p, C_DISCONNECTING))
PeerState(n, p, o, c, f) ==
  IF c = o THEN o ELSE OrDisconnect(n, p, o, EndStateChange(n, o, c, f, {}))
ReceivedState(n, p, m, o) ==
  LET connected == o.cstate[p] = C_CONNECTED
      ready == m.cmd = "hs" /\ o.cstate[p] = C_CONNECTING
                 /\ tx[n].on /\ drbd_twopc_between_peer_and_me(n, tx[n], p)
      c == CASE m.cmd = "state" /\ connected ->
                  [o EXCEPT !.peer_role[p] = m.role, !.pdsk[p] = m.disk]
             [] m.cmd = "role" /\ connected -> [o EXCEPT !.peer_role[p] = "Secondary"]
             [] m.cmd = "disconnect" -> change_cstate(o, p, C_DISCONNECTING)
             [] OTHER -> o
  IN ReceivedAs(n, p, m, o, PeerState(n, p, o, c, IF m.cmd = "state" THEN {} ELSE {"hard"}),
                IF ready /\ ~shake[<<n, p>>].ready
                THEN [shake EXCEPT ![<<n, p>>] = [ready |-> TRUE, pdsk |-> m.disk]] ELSE shake,
                ready)
receive_state(n, p) ==
  LET m == Next2pc(n, p)
  IN /\ Listening(n, p) /\ net[<<p, n>>] # <<>>
     /\ m.cmd \in {"hs", "state", "role", "disconnect"}
     /\ ReceivedState(n, p, m,
          IF m.cmd \in {"hs", "state"}
          THEN [st[n] EXCEPT !.quorate = IF m.quorum THEN @ \cup {p} ELSE @ \ {p}]
          ELSE st[n])

\* n notices that the connection to p is gone
FailedAs(n, p, o, s) ==
  /\ Became(n, o, s, {}, tx[n], fl[n], env[n])
  /\ net' = AfterSends([net EXCEPT ![<<p, n>>] = <<>>], n, o, s)
NetworkFailure(n, p) ==
  /\ <<n, p>> \in link /\ st[n].cstate[p] >= C_CONNECTING
  /\ <<p, n>> \in link => budget.losses > 0
  /\ budget' = IF <<p, n>> \in link THEN [budget EXCEPT !.losses = @ - 1] ELSE budget
  /\ link' = link \ {<<n, p>>}
  /\ FailedAs(n, p, st[n], HardChange(n, st[n], change_cstate(st[n], p, C_NETWORK_FAILURE)))
  /\ ctl' = [ctl EXCEPT ![<<p, n>>] = <<>>]
  /\ UNCHANGED <<tx, thr, rcv, shake, tids, hist>>

initiator_can_commit_or_abort(t, f, p) ==
  /\ t.parents \ {p} # {}
  /\ "P" \in f[p] => f[p] \cap {"Y", "N", "R"} # {}

\* the receiver thread starts over
Reconnecting(n, p, s) ==
  IF s.cstate[p] = C_UNCONNECTED
  THEN EndStateChange(n, s, change_cstate(s, p, C_CONNECTING), {}, {}).s ELSE s
DisconnectAs(n, p, o, s, t, e, q) ==
  /\ Became(n, o, s, {}, t, fl[n], e)
  /\ net' = AfterSends([q EXCEPT ![<<p, n>>] = <<>>], n, o, s)

\* drbd_thread_stop ends a connect_work that is under way with a signal and
\* waits for it (mutant: it does not wait)
SenderStopped_no(n, p) == TRUE
SenderStopped(n, p) == thr[n]["con"].target = p => thr[n]["con"].pc = "armed"

\* conn_disconnect with cleanup_remote_state_change: a transaction that
\* lost its way to the initiator is aborted here and further away; an own one
\* does not wait for p any more (twopc_connection_down).
conn_disconnect(n, p) ==
  LET o == st[n]
      t == tx[n]
      remote == t.on /\ t.init # n
      stuck == remote /\ ~initiator_can_commit_or_abort(t, fl[n], p)
      to == directly_connected_nodes(o)
      t1 == CASE stuck -> clear_remote_state_change(t)
              [] remote /\ ~stuck -> [t EXCEPT !.parents = @ \ {p}]
              [] OTHER -> t
      abort == [TwopcMsg("abort", t, Nodes \ (to \cup {n}), FALSE) EXCEPT !.prims = {}]
      e == IF stuck THEN [env[n] EXCEPT !.timer = "off"] ELSE env[n]
      q == IF stuck THEN Send(net, n, to, abort) ELSE net
  IN /\ o.cstate[p] \in Down
     /\ rcv[n][p] = NoMsg
     /\ SenderStopped(n, p)
     /\ tx' = [tx EXCEPT ![n] = t1]
     /\ link' = link \ {<<n, p>>}
     /\ DisconnectAs(n, p, o, Reconnecting(n, p, HardChange(n, o,
          change_cstate([o EXCEPT !.holding = @ \ {p}], p,
                        IF o.cstate[p] = C_DISCONNECTING THEN C_STANDALONE
                        ELSE C_UNCONNECTED))), t1, e, q)
     /\ ctl' = [ctl EXCEPT ![<<p, n>>] = <<>>]
     /\ thr' = [thr EXCEPT ![n]["con"] = IF @.target = p /\ @.pc = "armed" THEN Idle
                                         ELSE @]
     /\ UNCHANGED <<rcv, shake, tids, budget, hist>>

\* conn_connect: the transport is there, the node with the lower id starts the
\* two-phase commit (arm_connect_timer, connect_work)
conn_connect(n, p) ==
  LET quiet(a, b) == st[a].cstate[b] = C_CONNECTING /\ <<a, b>> \notin link
                       /\ net[<<a, b>>] = <<>> /\ ctl[<<a, b>>] = <<>>
  IN /\ n < p /\ quiet(n, p) /\ quiet(p, n)
     /\ thr[n]["con"] = Idle /\ budget.connects > 0
     /\ budget' = [budget EXCEPT !.connects = @ - 1]
     /\ link' = link \cup {<<n, p>>, <<p, n>>}
     /\ thr' = [thr EXCEPT ![n]["con"] = [Idle EXCEPT !.pc = "armed", !.target = p]]
     /\ UNCHANGED <<st, tx, fl, rcv, env, net, ctl, shake, tids, hist>>

-----------------------------------------------------------------------------
Connected(up, n) == {p \in Peers(n) : {n, p} \in up}
RECURSIVE Reach(_, _)
Reach(up, S) ==
  LET T == S \cup UNION {Connected(up, n) : n \in S}
  IN IF T = S THEN S ELSE Reach(up, T)

InitQuorum(n, sc) ==
  QuorumSetting = QOU_OFF \/ 2 * Cardinality(Reach(sc.up, {n}) \ Diskless) > Cardinality(Nodes \ Diskless)

\* all disks are up to date, the nodes of the connections in up are connected,
\* those in down are trying to, the others are not; every partition that has
\* the quorum knows its members
InitState(n, sc) ==
  LET up(p) == {n, p} \in sc.up
      disk(p) == IF p \in Diskless THEN D_DISKLESS ELSE D_UP_TO_DATE
  IN [role |-> IF n = sc.primary THEN "Primary" ELSE "Secondary",
      disk |-> disk(n), have_quorum |-> InitQuorum(n, sc),
      members |-> Reach(sc.up, {n}),
      susp_nod |-> FALSE, susp_quorum |-> FALSE, new_cur_uuid |-> FALSE,
      crashed |-> FALSE, restore |-> FALSE,
      md |-> [consistent |-> TRUE, up_to_date |-> TRUE, crashed |-> n = sc.primary,
              quorum |-> InitQuorum(n, sc), members |-> Reach(sc.up, {n}), primary_ind |-> sc.primary # None],
      open |-> "no", mdout |-> {},
      quorate |-> {p \in Connected(sc.up, n) : InitQuorum(p, sc)},
      holding |-> {}, inflight |-> {},
      cstate |-> [p \in Peers(n) |-> IF up(p) THEN C_CONNECTED
                                     ELSE IF {n, p} \in sc.down THEN C_CONNECTING
                                     ELSE C_STANDALONE],
      peer_role |-> [p \in Peers(n) |-> IF ~up(p) THEN "Unknown"
                                        ELSE IF p = sc.primary THEN "Primary" ELSE "Secondary"],
      repl |-> [p \in Peers(n) |-> IF up(p) THEN L_ESTABLISHED ELSE L_OFF],
      pdsk |-> [p \in Peers(n) |-> IF up(p) THEN disk(p) ELSE D_UNKNOWN],
      stable |-> [p \in Peers(n) |-> TRUE], got_stable |-> [p \in Peers(n) |-> FALSE],
      match |-> [p \in Peers(n) |-> TRUE], active |-> [p \in Peers(n) |-> FALSE],
      susp_other |-> [p \in Peers(n) |-> FALSE], susp_user |-> [p \in Peers(n) |-> FALSE],
      susp_peer |-> [p \in Peers(n) |-> FALSE], susp_fen |-> [p \in Peers(n) |-> FALSE],
      nr |-> [p \in Peers(n) |-> L_OFF]]

Init ==
  /\ budget \in Scenarios
  /\ st = [n \in Nodes |-> InitState(n, budget)]
  /\ tx = [n \in Nodes |-> [NoTx EXCEPT !.reach = Reach(budget.up, {n})]]
  /\ fl = [n \in Nodes |-> [p \in Peers(n) |-> {}]]
  /\ thr = [n \in Nodes |-> [w \in Threads |-> Idle]]
  /\ rcv = [n \in Nodes |-> [p \in Peers(n) |-> NoMsg]]
  /\ env = [n \in Nodes |-> [sem |-> 1, pending |-> FALSE, abort_local |-> FALSE,
                             empty |-> FALSE, timer |-> "off"]]
  /\ link = {e \in Ends : {e[1], e[2]} \in budget.up}
  /\ net = [e \in Ends |-> <<>>] /\ ctl = [e \in Ends |-> <<>>]
  /\ shake = [e \in Ends |-> NoShake]
  /\ tids = 0
  /\ hist = [denied |-> {}, committed |-> {}, fatal |-> {}]

\* an administrator's command
Command(n) ==
  \E c \in budget.ops :
    /\ c.node = n /\ thr[n]["adm"] = Idle
    /\ Start(n, "adm", c.op, c.peer)
    /\ budget' = [budget EXCEPT !.ops = @ \ {c}]

TryConnect(n) ==
  LET a == thr[n]["con"]
  IN /\ a.pc = "armed" /\ st[n].cstate[a.target] = C_CONNECTING
     /\ Start(n, "con", Op("connect", "none", "none"), a.target)
     /\ UNCHANGED budget

NoMoreConnect(n) ==
  LET a == thr[n]["con"]
  IN /\ a.pc = "armed" /\ st[n].cstate[a.target] # C_CONNECTING
     /\ thr' = [thr EXCEPT ![n]["con"] = Idle]
     /\ UNCHANGED <<st, tx, fl, rcv, env, link, net, ctl, shake, tids, budget, hist>>

drbd_empty_twopc_work_fn(n) ==
  /\ env[n].empty /\ thr[n]["emp"] = Idle
  /\ Start(n, "emp", Op("empty", "none", "none"), None)
  /\ UNCHANGED budget

\* outside the scenarios with late steps a node's decision and its own commit
\* are one step, and scheduled work runs at once
Free == \/ budget.late
        \/ \A n \in Nodes : /\ ~env[n].pending
                            /\ \A w \in Threads : thr[n][w].pc # "commit"

\* what the threads, the receivers and the timers of a node do
Step(n) ==
  \/ \E w \in Threads : Commit(n, w) \/ Phase2(n, w)
  \/ nested_twopc_work(n)
  \/ /\ Free
     /\ \/ TryConnect(n) \/ NoMoreConnect(n)
        \/ drbd_empty_twopc_work_fn(n)
        \/ \E w \in Threads : Begin(n, w) \/ Decide(n, w, "ready") \/ Decide(n, w, "signal")
        \/ twopc_timer_fn(n)
        \/ \E p \in Peers(n) :
             \/ receive_twopc(n, p) \/ abort_local_transaction(n, p)
             \/ got_twopc_reply(n, p) \/ receive_state(n, p)
             \/ conn_disconnect(n, p)
             \/ <<p, n>> \notin link /\ NetworkFailure(n, p)

\* what the environment does
Environment(n) ==
  Free /\ \/ Command(n)
          \/ \E w \in Threads : Decide(n, w, "timeout")
          \/ \E p \in Peers(n) :
               \/ <<p, n>> \in link /\ NetworkFailure(n, p)
               \/ conn_connect(n, p)

\* The end: no transaction is open anywhere and no thread waits, except for a
\* transaction beyond the bound.  Any other state without a next step is a
\* deadlock, a transaction that nobody ends.
Settled ==
  /\ \A n \in Nodes : /\ ~tx[n].on /\ ~env[n].abort_local
                      /\ \A w \in Threads :
                           \/ thr[n][w].pc \in {"idle", "armed"}
                           \/ thr[n][w].pc = "wait" /\ tids = budget.tids
  /\ UNCHANGED vars

Next == (\E n \in Nodes : Step(n) \/ Environment(n)) \/ Settled

Spec == Init /\ [][Next]_vars

-----------------------------------------------------------------------------
\* Type correctness: the fields of the protocol state stay in their ranges.
TypeOK ==
  \A n \in Nodes :
    /\ tx[n].tid \in 0..budget.tids /\ tx[n].init \in Nodes \cup {None}
    /\ tx[n].reach \subseteq Nodes /\ tx[n].weak \subseteq All
    /\ \A p \in Peers(n) : fl[n][p] \subseteq {"P", "Y", "N", "R"}
    /\ env[n].sem \in 0..2 /\ env[n].timer \in {"off", "armed", "due"}
    /\ st[n].disk \in D_DISKLESS..D_UP_TO_DATE
    /\ st[n].members \subseteq Nodes

BothConnected(n, p) == st[n].cstate[p] = C_CONNECTED /\ st[p].cstate[n] = C_CONNECTED

AtRest ==
  /\ \A e \in Ends : net[e] = <<>> /\ ctl[e] = <<>>
  /\ \A n \in Nodes :
       /\ ~tx[n].on /\ ~env[n].pending /\ ~env[n].empty /\ env[n].timer # "due"
       /\ \A w \in Threads : thr[n][w] = Idle
       /\ \A p \in Peers(n) :
            /\ rcv[n][p] = NoMsg
            /\ st[n].cstate[p] \in {C_STANDALONE, C_CONNECTING, C_CONNECTED}
            /\ <<n, p>> \in link <=> <<p, n>> \in link

\* Two nodes that are connected to each other are never both Primary, however
\* promotions, connects and lost connections interleave (two-primaries is off).
OnePrimary ==
  \A n \in Nodes : \A p \in Peers(n) :
    BothConnected(n, p) => ~(st[n].role = "Primary" /\ st[p].role = "Primary")

\* A transaction that some node has refused, or asked to retry, is never
\* committed: change_cluster_wide_state counts the replies of all nodes.  And a
\* change that all nodes have agreed to can be made by each of them: no node
\* reports "FATAL: Local commit of prepared ... failed".
CommitUnanimous == hist.committed \cap hist.denied = {} /\ hist.fatal = {}

\* update_members: "we guarantee that it never has a zero for an online node".
MembersCoverOnline ==
  \A n \in Nodes : directly_connected_nodes(st[n]) \subseteq st[n].members

\* When nothing is under way, a connection is up on both sides or on neither,
\* and two connected nodes know each other's role and disk: neither a commit nor
\* a state packet was lost or applied out of order.
PeersAgree ==
  AtRest => \A n \in Nodes : \A p \in Peers(n) :
    st[n].cstate[p] = C_CONNECTED => /\ st[p].cstate[n] = C_CONNECTED
                                     /\ st[n].peer_role[p] = st[p].role
                                     /\ st[n].pdsk[p] = st[p].disk

\* When nothing is under way, all nodes that believe to have the quorum belong
\* to one partition.
OneQuoratePartition ==
  LET up == {{e[1], e[2]} : e \in {x \in Ends : BothConnected(x[1], x[2])}}
  IN AtRest => \A n, p \in Nodes :
       st[n].have_quorum /\ st[p].have_quorum => p \in Reach(up, {n})

\* When nothing is under way, state_sem is free, once: nobody kept it and
\* nobody gave it up twice.
SemaphoreBalanced == AtRest => \A n \in Nodes : env[n].sem = 1

=============================================================================

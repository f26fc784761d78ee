----------------------------- MODULE DrbdConnect -----------------------------
(***************************************************************************)
(* How two nodes find a connection: dtt_connect() of the TCP transport and *)
(* conn_connect() of the receiver.  Each node both connects and listens,   *)
(* and needs two sockets, one for the data stream and one for the control  *)
(* stream.  The first packet on a socket says what its connector means it  *)
(* for.  Attempts cross, sockets close under the feet of the other side,   *)
(* and a node may believe in a pair of sockets its peer never took.        *)
(*                                                                         *)
(* A TCP connection is an entry of sk, with two ends.  The end of its      *)
(* acceptor waits in the backlog of a listener until dtt_wait_for_connect()*)
(* accepts it, and may then wait on the list of its path.  The close of    *)
(* one end is seen at the other end some time later.                       *)
(*                                                                         *)
(* After dtt_connect() the nodes exchange features, authenticate, and send *)
(* P_PROTOCOL; the node with the smaller id then starts the two-phase      *)
(* commit (DrbdTwopc) that makes both C_CONNECTED.  Of that commit this    *)
(* module has three packets: prepare and commit on the data stream, the    *)
(* answer on the control stream.                                           *)
(***************************************************************************)
EXTENDS Integers, Sequences, Functions

CONSTANTS
    NPaths,       \* bound: paths of the connection, tried in order
    MaxSockets,   \* bound: TCP connections that exist at the same time
    MaxPending,   \* bound: incoming connections a listener has counted
    Scenarios     \* what may happen in a behaviour, see below

ASSUME SizesAssumption ==
    /\ NPaths \in Nat \ {0} /\ MaxSockets \in Nat \ {0} /\ MaxPending \in Nat \ {0}

Nodes == {1, 2}
Peer(n) == 3 - n
Paths == 1 .. NPaths
Ids == 1 .. MaxSockets
NoPath == 0
NoSock == 0

(***************************************************************************)
(* A behaviour belongs to one scenario: how many paths there are, which    *)
(* node has the greater address on a path, which of a node's paths share a *)
(* listener (they have the same local address), what the nodes are         *)
(* configured with; sockets and pending are the bounds on the connections  *)
(* that exist and that a listener has counted; the rest says how often a   *)
(* connection is lost, a handshake packet comes too late, a connection     *)
(* attempt gets no answer or the local address is missing, and how often   *)
(* the operator disconnects.                                               *)
(***************************************************************************)
Conf == [min : Nat, max : Nat, features : SUBSET {"TRIM", "RESYNC_DAGTAG"},
         secret : {"none", "one", "other"}, settings : {"A", "C"}]

Scenario ==
    [paths : Paths, greater : [Paths -> Nodes], listener : [Nodes -> [Paths -> Paths]],
     conf : [Nodes -> Conf], sockets : Ids, pending : 1 .. MaxPending,
     loss : Nat, timeouts : Nat, unreachable : Nat, no_addr : Nat, disconnects : Nat]

ASSUME ScenariosAssumption ==
    Scenarios \subseteq Scenario

\* The first packet of a socket, then the packets of the handshake.
FirstPackets == {"INITIAL_DATA", "INITIAL_META"}
Packets == FirstPackets \cup
    {"FEATURES", "CHALLENGE", "RESPONSE", "PROTOCOL", "PREPARE", "OLD_PREPARE", "YES", "COMMIT"}

VARIABLES
    sk,           \* [Ids -> TCP connection]
    listen,       \* [Nodes -> [Paths -> [on, pending_accepts, backlog]]], by listener
    accepted,     \* [Nodes -> [Paths -> path->sockets]]
    pc,           \* where the receiver thread of a node is
    dsocket, csocket, newsock,      \* the variables of dtt_connect()
    first_path, connect_to_path,
    resolve,      \* RESOLVE_CONFLICTS
    established,  \* the path with TR_ESTABLISHED
    cstate,
    agreed,       \* agreed_pro_version and agreed_features
    twopc,        \* connect_timer_work: "idle", "armed", "sent"
    budget        \* the scenario, with what is left of it

netVars == <<sk, listen, accepted>>
loopVars == <<dsocket, csocket, newsock, first_path, connect_to_path, resolve>>
connVars == <<established, cstate, agreed, twopc>>
vars == <<netVars, pc, loopVars, connVars, budget>>

NoConnection == [from |-> 1, path |-> NoPath, open |-> {}, fin |-> {}, q |-> [n \in Nodes |-> <<>>]]
NoListener == [on |-> FALSE, pending |-> 0, backlog |-> <<>>]
NotAgreed == [version |-> 0, features |-> {}]

Handshake == {"features", "get_features", "auth", "get_challenge", "get_response", "protocol"}
PcValues == {"start", "connect", "check_first", "wait", "first_packet", "test", "check_again",
             "established", "up", "down"} \cup Handshake

Connection == [from : Nodes, path : 0 .. NPaths, open : SUBSET Nodes, fin : SUBSET Nodes,
               q : [Nodes -> Seq(Packets)]]
Listener == [on : BOOLEAN, pending : 0 .. MaxPending, backlog : Seq(Ids)]

TypeOK ==
    /\ sk \in [Ids -> Connection]
    /\ listen \in [Nodes -> [Paths -> Listener]]
    /\ accepted \in [Nodes -> [Paths -> Seq(Ids)]]
    /\ pc \in [Nodes -> PcValues]
    /\ dsocket \in [Nodes -> 0 .. MaxSockets]
    /\ csocket \in [Nodes -> 0 .. MaxSockets]
    /\ newsock \in [Nodes -> 0 .. MaxSockets]
    /\ first_path \in [Nodes -> 0 .. NPaths]
    /\ connect_to_path \in [Nodes -> 1 .. budget.paths]
    /\ resolve \in [Nodes -> BOOLEAN]
    /\ established \in [Nodes -> 0 .. NPaths]
    /\ cstate \in [Nodes -> {"unconnected", "connecting", "connected", "disconnecting", "standalone"}]
    /\ agreed \in [Nodes -> [version : Nat, features : SUBSET {"TRIM", "RESYNC_DAGTAG"}]]
    /\ twopc \in [Nodes -> {"idle", "armed", "sent"}]
    /\ budget \in Scenario

-----------------------------------------------------------------------------
(***************************************************************************)
(* Sockets and listeners.                                                  *)
(***************************************************************************)
\* sk_state == TCP_ESTABLISHED, at the end of node n.
Established(k, n) == n \in sk[k].open /\ n \notin sk[k].fin

\* Node n closes its ends of the connections in S (dtt_socket_free(), or the
\* kernel when a listener goes away).  What it has not read is lost.
Close(f, n, S) ==
    [k \in Ids |->
        IF k \notin S THEN f[k]
        ELSE IF f[k].open \subseteq {n} THEN NoConnection
        ELSE [f[k] EXCEPT !.open = @ \ {n}, !.q[n] = <<>>]]

\* Node n sends a packet on connection k.
Send(f, k, n, packet) ==
    [f EXCEPT ![k].q[Peer(n)] =
        IF Peer(n) \in f[k].open /\ n \notin f[k].fin THEN Append(@, packet) ELSE @]

\* The listener of a path, and the path the waiting thread is woken for: the
\* first one with something to accept.
listener_of(n, p) == budget.listener[n][p]
Waiting(n, p) == listen[n][listener_of(n, p)].pending > 0 \/ accepted[n][p] # <<>>
Configured == 1 .. budget.paths
dtt_wait_connect_cond(n, p) ==
    /\ Waiting(n, p)
    /\ \A p2 \in Configured : p2 < p => ~Waiting(n, p2)

dtt_next_path(p) == IF p = budget.paths THEN 1 ELSE p + 1

dtt_path_cmp_addr(n, p) == budget.greater[p] = n

\* Node n gives up what waits to be accepted: drbd_put_listener() and
\* dtt_cleanup_accepted_sockets().
Unaccepted(n) == UNION {Range(listen[n][p].backlog) \cup Range(accepted[n][p]) : p \in Paths}
NoListeners == [p \in Paths |-> NoListener]
dtt_finish_connect(n, more) ==
    /\ listen' = [listen EXCEPT ![n] = NoListeners]
    /\ accepted' = [accepted EXCEPT ![n] = [p \in Paths |-> <<>>]]
    /\ sk' = Close(sk, n, Unaccepted(n) \cup (more \ {NoSock}))

Goto(n, where) == pc' = [pc EXCEPT ![n] = where]

-----------------------------------------------------------------------------
(***************************************************************************)
(* The start of conn_connect() and dtt_prepare_connect().                  *)
(***************************************************************************)
\* One listener for all paths with its address.
drbd_get_listener(n, l) == [NoListener EXCEPT !.on = \E p \in Configured : listener_of(n, p) = l]
dtt_prepare_connect(n) ==
    listen' = [listen EXCEPT ![n] = [l \in Paths |-> drbd_get_listener(n, l)]]

conn_connect(n) ==
    /\ pc[n] = "start"
    /\ cstate[n] # "disconnecting"
    /\ cstate' = [cstate EXCEPT ![n] = "connecting"]
    /\ agreed' = [agreed EXCEPT ![n] = NotAgreed]
    /\ dtt_prepare_connect(n)
    /\ connect_to_path' = [connect_to_path EXCEPT ![n] = 1]
    /\ Goto(n, "connect")
    /\ UNCHANGED <<sk, accepted, dsocket, csocket, newsock, first_path, resolve,
                   established, twopc, budget>>

\* change_cstate(C_CONNECTING) fails, the receiver thread ends.
conn_connect_refused(n) ==
    /\ pc[n] = "start"
    /\ cstate[n] = "disconnecting"
    /\ cstate' = [cstate EXCEPT ![n] = "standalone"]
    /\ Goto(n, "down")
    /\ UNCHANGED <<netVars, loopVars, established, agreed, twopc, budget>>

-----------------------------------------------------------------------------
(***************************************************************************)
(* The first half of the loop of dtt_connect(): connect to the peer.       *)
(***************************************************************************)
\* Fault: no fail over, a data socket of one path and a control socket of another.
FailOver_never(n, p) == FALSE

\* "initial paths crossed - fail over": the sockets belong to another path.
FailOver(n, p) == first_path[n] \notin {NoPath, p}
Dropped(n, p) == IF FailOver(n, p) THEN {dsocket[n], csocket[n]} \ {NoSock} ELSE {}
Kept(n, p, socket) == IF FailOver(n, p) THEN NoSock ELSE socket

use_for_data(n, p, d, c) == IF d = NoSock /\ c = NoSock THEN dtt_path_cmp_addr(n, p) ELSE d = NoSock

FirstFree(k) == k <= budget.sockets /\ sk[k].open = {} /\ \A j \in Ids : j < k => sk[j].open # {}

\* dtt_incoming_connection() at the peer, called in the peer's kernel.
Incoming(c, k) == [c EXCEPT !.pending = @ + 1, !.backlog = Append(@, k)]
dtt_incoming_connection(m, l, k) == listen' = [listen EXCEPT ![m][l] = Incoming(@, k)]

\* Fault: connecting the control socket leaves RESOLVE_CONFLICTS alone.
ResolveOfConnector_kept(n, data) == resolve[n]

\* RESOLVE_CONFLICTS is for the node that accepts the control socket.
ResolveOfConnector(n, data) == resolve[n] /\ data

\* The connection is there; sending the first packet may fail.
Connected(n, p, k, d, c, data, sent) ==
    /\ dtt_incoming_connection(Peer(n), listener_of(Peer(n), p), k)
    /\ sk' = [Close(sk, n, Dropped(n, p)) EXCEPT
                ![k] = [from |-> n, path |-> p, open |-> IF sent THEN Nodes ELSE {Peer(n)},
                        fin |-> {},
                        q |-> [m \in Nodes |->
                                 IF m = Peer(n) /\ sent
                                 THEN <<IF data THEN "INITIAL_DATA" ELSE "INITIAL_META">>
                                 ELSE <<>>]]]
    /\ first_path' = [first_path EXCEPT ![n] = p]
    /\ resolve' = [resolve EXCEPT ![n] = ResolveOfConnector(n, data)]
    /\ dsocket' = [dsocket EXCEPT ![n] = IF data /\ sent THEN k ELSE d]
    /\ csocket' = [csocket EXCEPT ![n] = IF ~data /\ sent THEN k ELSE c]
    /\ Goto(n, IF sent /\ (IF data THEN c ELSE d) # NoSock THEN "check_first" ELSE "wait")

CanConnect(n, p) ==
    /\ listen[Peer(n)][listener_of(Peer(n), p)].on
    /\ listen[Peer(n)][listener_of(Peer(n), p)].pending < budget.pending

dtt_try_connect(n) ==
    /\ pc[n] = "connect"
    /\ CanConnect(n, connect_to_path[n])
    /\ \E k \in Ids, sent \in BOOLEAN :
        /\ FirstFree(k)
        /\ sent \/ budget.loss > 0
        /\ Connected(n, connect_to_path[n], k,
                     Kept(n, connect_to_path[n], dsocket[n]), Kept(n, connect_to_path[n], csocket[n]),
                     use_for_data(n, connect_to_path[n], Kept(n, connect_to_path[n], dsocket[n]),
                                  Kept(n, connect_to_path[n], csocket[n])),
                     sent)
        /\ budget' = IF sent THEN budget ELSE [budget EXCEPT !.loss = @ - 1]
    /\ UNCHANGED <<accepted, newsock, connect_to_path, connVars>>

\* -EAGAIN: nobody listens, or no answer.  An attempt beyond the bounds gets none.
dtt_try_connect_fails(n) ==
    /\ pc[n] = "connect"
    /\ \/ /\ ~CanConnect(n, connect_to_path[n]) \/ \A k \in Ids : ~FirstFree(k)
          /\ UNCHANGED budget
       \/ /\ budget.unreachable > 0
          /\ budget' = [budget EXCEPT !.unreachable = @ - 1]
    /\ connect_to_path' = [connect_to_path EXCEPT ![n] =
                              IF first_path[n] = NoPath THEN dtt_next_path(@) ELSE @]
    /\ Goto(n, "wait")
    /\ UNCHANGED <<netVars, dsocket, csocket, newsock, first_path, resolve, connVars>>

\* Leave dtt_connect() without a connection.
Release(n) ==
    /\ dtt_finish_connect(n, {dsocket[n], csocket[n]})
    /\ dsocket' = [dsocket EXCEPT ![n] = NoSock]
    /\ csocket' = [csocket EXCEPT ![n] = NoSock]
    /\ first_path' = [first_path EXCEPT ![n] = NoPath]
    /\ Goto(n, "start")
    /\ UNCHANGED <<newsock, connect_to_path, resolve>>

\* -EADDRNOTAVAIL: conn_connect() sleeps and starts again.
dtt_try_connect_no_addr(n) ==
    /\ pc[n] = "connect"
    /\ budget.no_addr > 0
    /\ budget' = [budget EXCEPT !.no_addr = @ - 1]
    /\ Release(n)
    /\ UNCHANGED connVars

-----------------------------------------------------------------------------
(***************************************************************************)
(* dtt_connection_established() when both sockets are there: sleep a while *)
(* and see whether they still are.  With a socket missing it returns false.*)
(***************************************************************************)
\* dtt_socket_ok_or_free()
Bad(n, socket) == socket # NoSock /\ ~Established(socket, n)
OkOrFree(n, socket) == IF Bad(n, socket) THEN NoSock ELSE socket
BadSockets(n) == {k \in {dsocket[n], csocket[n]} : Bad(n, k)}

dtt_connection_established(n, otherwise) ==
    /\ dsocket' = [dsocket EXCEPT ![n] = OkOrFree(n, @)]
    /\ csocket' = [csocket EXCEPT ![n] = OkOrFree(n, @)]
    /\ sk' = Close(sk, n, BadSockets(n))
    /\ first_path' = [first_path EXCEPT ![n] =
                         IF BadSockets(n) = {dsocket[n], csocket[n]} THEN NoPath ELSE @]
    /\ Goto(n, IF BadSockets(n) = {} THEN "established" ELSE otherwise)
    /\ UNCHANGED <<listen, accepted, newsock, connect_to_path, resolve, connVars, budget>>

CheckFirst(n) == pc[n] = "check_first" /\ dtt_connection_established(n, "wait")
CheckAgain(n) == pc[n] = "check_again" /\ dtt_connection_established(n, "connect")

-----------------------------------------------------------------------------
(***************************************************************************)
(* The second half of the loop: dtt_wait_for_connect(), which waits for    *)
(* any path but accepts from the listener of connect_to_path only.         *)
(***************************************************************************)
AtListener(n) == listen[n][listener_of(n, connect_to_path[n])]

\* The wait times out, or the operator wants the connection down.
WaitEnds(n) ==
    /\ pc[n] = "wait"
    /\ cstate[n] = "disconnecting" \/ \A p \in Configured : ~Waiting(n, p)
    /\ Goto(n, "test")
    /\ UNCHANGED <<netVars, loopVars, connVars, budget>>

\* A connection another wait has accepted for this path.
TakeAccepted(n) ==
    /\ pc[n] = "wait"
    /\ \E p \in Configured :
        /\ dtt_wait_connect_cond(n, p)
        /\ accepted[n][p] # <<>>
        /\ newsock' = [newsock EXCEPT ![n] = Head(accepted[n][p])]
        /\ accepted' = [accepted EXCEPT ![n][p] = Tail(@)]
        /\ connect_to_path' = [connect_to_path EXCEPT ![n] = p]
    /\ Goto(n, "first_packet")
    /\ UNCHANGED <<sk, listen, dsocket, csocket, first_path, resolve, connVars, budget>>

\* Nothing at the listener of connect_to_path: dtt_wait_for_connect() returns
\* without a socket, and connect_to_path is the path that has something.
SwitchPath(n) ==
    /\ pc[n] = "wait"
    /\ AtListener(n).pending = 0
    /\ \E p \in Configured :
        /\ dtt_wait_connect_cond(n, p)
        /\ accepted[n][p] = <<>>
        /\ connect_to_path' = [connect_to_path EXCEPT ![n] = p]
    /\ Goto(n, "test")
    /\ UNCHANGED <<netVars, dsocket, csocket, newsock, first_path, resolve, connVars, budget>>

\* kernel_accept() finds nothing: pending_accepts was counted twice, see
\* FinArrives().
AcceptNothing(n) ==
    /\ pc[n] = "wait"
    /\ AtListener(n).pending > 0
    /\ AtListener(n).backlog = <<>>
    /\ \E p \in Configured : dtt_wait_connect_cond(n, p) /\ accepted[n][p] = <<>>
    /\ listen' = [listen EXCEPT ![n][listener_of(n, connect_to_path[n])].pending = @ - 1]
    /\ Goto(n, "test")
    /\ UNCHANGED <<sk, accepted, loopVars, connVars, budget>>

Taken(c) == [c EXCEPT !.pending = @ - 1, !.backlog = Tail(@)]

\* kernel_accept() gets connection k.  One of another path is put on the list
\* of that path, one that is closed already is dropped; both wait on.
Accept(n) ==
    /\ pc[n] = "wait"
    /\ AtListener(n).pending > 0
    /\ AtListener(n).backlog # <<>>
    /\ listen' = [listen EXCEPT ![n][listener_of(n, connect_to_path[n])] = Taken(@)]
    /\ \E p \in Configured, k \in Ids :
        /\ dtt_wait_connect_cond(n, p)
        /\ accepted[n][p] = <<>>
        /\ k = Head(AtListener(n).backlog)
        /\ \/ /\ sk[k].path # p
              /\ accepted' = [accepted EXCEPT ![n][sk[k].path] = Append(@, k)]
              /\ UNCHANGED <<sk, pc, newsock, connect_to_path>>
           \/ /\ sk[k].path = p
              /\ ~Established(k, n)
              /\ sk' = Close(sk, n, {k})
              /\ UNCHANGED <<accepted, pc, newsock, connect_to_path>>
           \/ /\ sk[k].path = p
              /\ Established(k, n)
              /\ newsock' = [newsock EXCEPT ![n] = k]
              /\ connect_to_path' = [connect_to_path EXCEPT ![n] = p]
              /\ Goto(n, "first_packet")
              /\ UNCHANGED <<sk, accepted>>
    /\ UNCHANGED <<dsocket, csocket, first_path, resolve, connVars, budget>>

(***************************************************************************)
(* The first packet of the new socket.  fp is "none" when the peer closed  *)
(* it before it sent one.  When the packet asks for a socket that is there *)
(* already, both have connected: the new one is taken, and chance decides  *)
(* whether to connect or to wait next.                                     *)
(***************************************************************************)
FirstPacket(n, fp) ==
    \/ /\ sk[newsock[n]].q[n] # <<>>
       /\ fp = Head(sk[newsock[n]].q[n])
    \/ /\ sk[newsock[n]].q[n] = <<>>
       /\ n \in sk[newsock[n]].fin
       /\ fp = "none"

\* What is left of a socket of n after the fail over and dtt_socket_ok_or_free().
Still(n, socket) == OkOrFree(n, Kept(n, connect_to_path[n], socket))

Replaced(n, fp) == IF fp = "INITIAL_DATA" THEN dsocket[n] ELSE IF fp = "INITIAL_META" THEN csocket[n] ELSE newsock[n]

dtt_receive_first_packet(n) ==
    /\ pc[n] = "first_packet"
    /\ \E fp \in FirstPackets \cup {"none"}, again \in BOOLEAN :
        /\ FirstPacket(n, fp)
        /\ again => fp = "none" \/ Still(n, Replaced(n, fp)) # NoSock
        /\ sk' = [Close(sk, n, Dropped(n, connect_to_path[n]) \cup BadSockets(n)
                                 \cup ({Replaced(n, fp)} \ {NoSock})) EXCEPT
                    ![newsock[n]].q[n] = IF fp = "none" THEN @ ELSE Tail(@)]
        /\ dsocket' = [dsocket EXCEPT ![n] = IF fp = "INITIAL_DATA" THEN newsock[n] ELSE Still(n, @)]
        /\ csocket' = [csocket EXCEPT ![n] = IF fp = "INITIAL_META" THEN newsock[n] ELSE Still(n, @)]
        /\ resolve' = [resolve EXCEPT ![n] = @ \/ fp = "INITIAL_META"]
        /\ Goto(n, IF again THEN "wait" ELSE "test")
    /\ first_path' = [first_path EXCEPT ![n] = connect_to_path[n]]
    /\ newsock' = [newsock EXCEPT ![n] = NoSock]
    /\ UNCHANGED <<listen, accepted, connect_to_path, connVars, budget>>

\* drbd_should_abort_listening()
ShouldAbort(n) ==
    /\ pc[n] = "test"
    /\ cstate[n] # "disconnecting"
    /\ Goto(n, IF dsocket[n] # NoSock /\ csocket[n] # NoSock THEN "check_again" ELSE "connect")
    /\ UNCHANGED <<netVars, loopVars, connVars, budget>>

Abort(n) ==
    /\ pc[n] = "test"
    /\ cstate[n] = "disconnecting"
    /\ Release(n)
    /\ UNCHANGED <<connVars, budget>>

-----------------------------------------------------------------------------
(***************************************************************************)
(* The end of dtt_connect(), and the handshake on the data stream.         *)
(***************************************************************************)
EndConnect(n) ==
    /\ pc[n] = "established"
    /\ established' = [established EXCEPT ![n] = connect_to_path[n]]
    /\ dtt_finish_connect(n, {})
    /\ Goto(n, "features")
    /\ UNCHANGED <<loopVars, cstate, agreed, twopc, budget>>

SendData(n, packet) == sk' = Send(sk, dsocket[n], n, packet)

\* The packet at the head of a stream of n, and the stream without it.
AtHead(n, socket) == IF sk[socket].q[n] = <<>> THEN "none" ELSE Head(sk[socket].q[n])
Consume(n, socket) == [sk EXCEPT ![socket].q[n] = Tail(@)]

\* Node n gives up its transaction.  The answer to a prepare packet that is still
\* under way has a tid that got_twopc_reply() ignores: it is not sent.
Outdated(s) == [i \in DOMAIN s |-> IF s[i] = "PREPARE" THEN "OLD_PREPARE" ELSE s[i]]
GiveUp(f, n) == [k \in Ids |-> [f[k] EXCEPT !.q[Peer(n)] = Outdated(@)]]

\* The streams are closed.
dtt_free(f, n) == Close(f, n, {dsocket[n], csocket[n]} \ {NoSock})

conn_disconnect(n, where) ==
    /\ sk' = GiveUp(dtt_free(sk, n), n)
    /\ dsocket' = [dsocket EXCEPT ![n] = NoSock]
    /\ csocket' = [csocket EXCEPT ![n] = NoSock]
    /\ first_path' = [first_path EXCEPT ![n] = NoPath]
    /\ established' = [established EXCEPT ![n] = NoPath]
    /\ twopc' = [twopc EXCEPT ![n] = "idle"]
    /\ Goto(n, where)
    /\ UNCHANGED <<listen, accepted, newsock, connect_to_path, resolve, agreed>>

\* The ends of conn_connect(): "retry" and "abort".
RetryConnect(n, timeouts) ==
    /\ conn_disconnect(n, "start")
    /\ budget' = [budget EXCEPT !.timeouts = @ - timeouts]
    /\ cstate' = [cstate EXCEPT ![n] = IF @ = "disconnecting" THEN @ ELSE "unconnected"]
AbortConnect(n) ==
    /\ conn_disconnect(n, "down")
    /\ cstate' = [cstate EXCEPT ![n] = "standalone"]
    /\ UNCHANGED budget

\* Go on in the handshake; only agreed may change besides.
Proceed(n, where) == Goto(n, where) /\ UNCHANGED <<listen, accepted, loopVars, established, cstate, twopc, budget>>

drbd_send_features(n) ==
    /\ pc[n] = "features"
    /\ SendData(n, "FEATURES")
    /\ Proceed(n, "get_features")
    /\ UNCHANGED agreed

PRO_VERSION_MIN == 118
PRO_VERSION_8_MAX == 101

Agree(me, peer) == [version |-> IF me.max < peer.max THEN me.max ELSE peer.max, features |-> me.features \cap peer.features]
Incompatible(me, peer) ==
    \/ me.max < peer.min
    \/ me.min > peer.max
    \/ PRO_VERSION_8_MAX < peer.max /\ peer.max < PRO_VERSION_MIN
    \/ Agree(me, peer).version = 121 /\ "RESYNC_DAGTAG" \in Agree(me, peer).features

drbd_do_features(n) ==
    /\ pc[n] = "get_features"
    /\ AtHead(n, dsocket[n]) # "none"
    /\ IF AtHead(n, dsocket[n]) # "FEATURES" \/ Incompatible(budget.conf[n], budget.conf[Peer(n)])
       THEN AbortConnect(n)
       ELSE /\ sk' = Consume(n, dsocket[n])
            /\ agreed' = [agreed EXCEPT ![n] = Agree(budget.conf[n], budget.conf[Peer(n)])]
            /\ Proceed(n, IF budget.conf[n].secret = "none" THEN "protocol" ELSE "auth")

\* drbd_do_auth(): each challenges the other and answers with a digest of the
\* challenge, its own id and the shared secret.  A peer that has sent its challenge
\* sends its response next, or nothing.
drbd_do_auth(n) ==
    \/ /\ pc[n] = "auth"
       /\ SendData(n, "CHALLENGE")
       /\ Proceed(n, "get_challenge")
       /\ UNCHANGED agreed
    \/ /\ pc[n] = "get_challenge"
       /\ AtHead(n, dsocket[n]) # "none"
       /\ IF AtHead(n, dsocket[n]) # "CHALLENGE"
          THEN AbortConnect(n)
          ELSE /\ sk' = Send(Consume(n, dsocket[n]), dsocket[n], n, "RESPONSE")
               /\ Proceed(n, "get_response")
               /\ UNCHANGED agreed
    \/ /\ pc[n] = "get_response"
       /\ AtHead(n, dsocket[n]) = "RESPONSE"
       /\ IF budget.conf[n].secret # budget.conf[Peer(n)].secret
          THEN AbortConnect(n)
          ELSE sk' = Consume(n, dsocket[n]) /\ Proceed(n, "protocol") /\ UNCHANGED agreed

\* The receive of a handshake packet ends without one: the peer does not have
\* the other end of the socket, or is too slow, or the operator disconnects.
HandshakeFails(n) ==
    /\ pc[n] \in {"get_features", "get_challenge", "get_response"}
    /\ \/ /\ AtHead(n, dsocket[n]) = "none"
          /\ dsocket[Peer(n)] # dsocket[n] \/ n \in sk[dsocket[n]].fin
          /\ RetryConnect(n, 0)
       \/ /\ AtHead(n, dsocket[n]) = "none"
          /\ budget.timeouts > 0
          /\ RetryConnect(n, 1)
       \/ /\ cstate[n] = "disconnecting"
          /\ RetryConnect(n, 0)

drbd_send_protocol(n) == SendData(n, "PROTOCOL")

\* The rest of conn_connect(); the node with the smaller id arms connect_timer.
SendProtocol(n) ==
    /\ pc[n] = "protocol"
    /\ drbd_send_protocol(n)
    /\ twopc' = [twopc EXCEPT ![n] = IF n < Peer(n) THEN "armed" ELSE "idle"]
    /\ Goto(n, "up")
    /\ UNCHANGED <<listen, accepted, loopVars, established, cstate, agreed, budget>>

-----------------------------------------------------------------------------
(***************************************************************************)
(* drbdd(), the sender's connect_work(), and the loss of the connection.   *)
(***************************************************************************)
\* conn_disconnect() after drbdd(): unconnected, or standalone.
LinkDown(n) ==
    /\ conn_disconnect(n, IF cstate[n] = "disconnecting" THEN "down" ELSE "start")
    /\ cstate' = [cstate EXCEPT ![n] = IF @ = "disconnecting" THEN "standalone" ELSE "unconnected"]
    /\ UNCHANGED budget

StayUp == UNCHANGED <<listen, accepted, pc, loopVars, established, agreed, budget>>

receive_protocol(n) ==
    /\ pc[n] = "up"
    /\ AtHead(n, dsocket[n]) = "PROTOCOL"
    /\ IF budget.conf[n].settings # budget.conf[Peer(n)].settings
       THEN AbortConnect(n)
       ELSE sk' = Consume(n, dsocket[n]) /\ UNCHANGED <<cstate, twopc>> /\ StayUp

connect_work(n) ==
    /\ pc[n] = "up"
    /\ twopc[n] = "armed"
    /\ cstate[n] = "connecting"
    /\ SendData(n, "PREPARE")
    /\ twopc' = [twopc EXCEPT ![n] = "sent"]
    /\ UNCHANGED cstate
    /\ StayUp

receive_twopc(n) ==
    /\ pc[n] = "up"
    /\ UNCHANGED twopc
    /\ \/ /\ AtHead(n, dsocket[n]) \in {"PREPARE", "OLD_PREPARE"}
          /\ sk' = IF AtHead(n, dsocket[n]) = "PREPARE"
                   THEN Send(Consume(n, dsocket[n]), csocket[n], n, "YES")
                   ELSE Consume(n, dsocket[n])
          /\ UNCHANGED cstate
       \/ /\ AtHead(n, dsocket[n]) = "COMMIT"
          /\ sk' = Consume(n, dsocket[n])
          /\ cstate' = [cstate EXCEPT ![n] = IF @ = "connecting" THEN "connected" ELSE @]
    /\ StayUp

got_twopc_reply(n) ==
    /\ pc[n] = "up"
    /\ AtHead(n, csocket[n]) = "YES"
    /\ IF cstate[n] = "connecting"
       THEN /\ sk' = Send(Consume(n, csocket[n]), dsocket[n], n, "COMMIT")
            /\ cstate' = [cstate EXCEPT ![n] = "connected"]
       ELSE sk' = Consume(n, csocket[n]) /\ UNCHANGED cstate
    /\ twopc' = [twopc EXCEPT ![n] = "idle"]
    /\ StayUp

\* drbdd() gets a packet it has no handler for; or a stream is closed by the
\* peer; or the peer does not answer pings, because it has no such stream; or
\* the operator has disconnected.
LinkFails(n) ==
    /\ pc[n] = "up"
    /\ \/ AtHead(n, dsocket[n]) \in {"CHALLENGE", "RESPONSE", "FEATURES"}
       \/ \E k \in {dsocket[n], csocket[n]} : n \in sk[k].fin
       \/ csocket[Peer(n)] # csocket[n]
       \/ cstate[n] = "disconnecting"
    /\ LinkDown(n)

-----------------------------------------------------------------------------
(***************************************************************************)
(* The network and the operator.                                           *)
(***************************************************************************)
\* The close of the other end is seen.  The end in a backlog has inherited the
\* state change callback of the listener, dtt_incoming_connection().
FinArrives(k) ==
    \E n \in Nodes :
        /\ sk[k].open = {n}
        /\ n \notin sk[k].fin
        /\ sk' = [sk EXCEPT ![k].fin = @ \cup {n}]
        /\ listen' = [listen EXCEPT ![n] = [l \in Paths |->
               IF k \in Range(listen[n][l].backlog) /\ listen[n][l].pending < budget.pending
               THEN [listen[n][l] EXCEPT !.pending = @ + 1] ELSE listen[n][l]]]
        /\ UNCHANGED <<accepted, pc, loopVars, connVars, budget>>

\* A connection breaks: both ends are told, what was under way is lost.
Lost(k) ==
    /\ sk[k].open = Nodes
    /\ sk[k].fin = {}
    /\ budget.loss > 0
    /\ budget' = [budget EXCEPT !.loss = @ - 1]
    /\ sk' = [sk EXCEPT ![k].fin = Nodes, ![k].q = [n \in Nodes |-> <<>>]]
    /\ UNCHANGED <<listen, accepted, pc, loopVars, connVars>>

Disconnect(n) ==
    /\ budget.disconnects > 0
    /\ cstate[n] \in {"unconnected", "connecting", "connected"}
    /\ budget' = [budget EXCEPT !.disconnects = @ - 1]
    /\ cstate' = [cstate EXCEPT ![n] = "disconnecting"]
    /\ UNCHANGED <<netVars, pc, loopVars, established, agreed, twopc>>

\* The operator connects again.
Reconnect(n) ==
    /\ pc[n] = "down"
    /\ budget.disconnects > 0
    /\ budget' = [budget EXCEPT !.disconnects = @ - 1]
    /\ cstate' = [cstate EXCEPT ![n] = "unconnected"]
    /\ Goto(n, "start")
    /\ UNCHANGED <<netVars, loopVars, established, agreed, twopc>>

-----------------------------------------------------------------------------
Init ==
    /\ budget \in Scenarios
    /\ sk = [k \in Ids |-> NoConnection]
    /\ listen = [n \in Nodes |-> NoListeners]
    /\ accepted = [n \in Nodes |-> [p \in Paths |-> <<>>]]
    /\ pc = [n \in Nodes |-> "start"]
    /\ dsocket = [n \in Nodes |-> NoSock]
    /\ csocket = [n \in Nodes |-> NoSock]
    /\ newsock = [n \in Nodes |-> NoSock]
    /\ first_path = [n \in Nodes |-> NoPath]
    /\ connect_to_path = [n \in Nodes |-> 1]
    /\ resolve = [n \in Nodes |-> FALSE]
    /\ established = [n \in Nodes |-> NoPath]
    /\ cstate = [n \in Nodes |-> "unconnected"]
    /\ agreed = [n \in Nodes |-> NotAgreed]
    /\ twopc = [n \in Nodes |-> "idle"]

Loop(n) ==
    \/ conn_connect(n) \/ conn_connect_refused(n)
    \/ dtt_try_connect(n) \/ dtt_try_connect_fails(n) \/ dtt_try_connect_no_addr(n)
    \/ CheckFirst(n) \/ CheckAgain(n)
    \/ WaitEnds(n) \/ TakeAccepted(n) \/ SwitchPath(n) \/ AcceptNothing(n) \/ Accept(n)
    \/ dtt_receive_first_packet(n) \/ ShouldAbort(n) \/ Abort(n) \/ EndConnect(n)

Exchange(n) ==
    \/ drbd_send_features(n) \/ drbd_do_features(n) \/ drbd_do_auth(n) \/ HandshakeFails(n)
    \/ SendProtocol(n) \/ receive_protocol(n) \/ connect_work(n) \/ receive_twopc(n)
    \/ got_twopc_reply(n) \/ LinkFails(n)

\* Nothing is left to do when the nodes are connected, or both standalone.
Settled ==
    /\ \/ \A n \in Nodes : cstate[n] = "connected"
       \/ \A n \in Nodes : cstate[n] = "standalone"
    /\ UNCHANGED vars

Next ==
    \/ Settled
    \/ \E n \in Nodes : Loop(n) \/ Exchange(n) \/ Disconnect(n) \/ Reconnect(n)
    \/ \E k \in Ids : FinArrives(k) \/ Lost(k)

Spec == Init /\ [][Next]_vars

-----------------------------------------------------------------------------
(***************************************************************************)
(* Properties.                                                             *)
(***************************************************************************)
\* When both nodes are C_CONNECTED, their data sockets are the two ends of one
\* TCP connection and their control sockets those of another, both on the path
\* they have marked TR_ESTABLISHED (TR_ASSERT(transport, first_path ==
\* connect_to_path)); they have agreed on the same protocol version and features,
\* and their secrets and settings match.  dtt_connect() alone does not ensure it:
\* crossed attempts leave a node with sockets its peer has dropped.
StreamsPaired ==
    (\A n \in Nodes : cstate[n] = "connected") =>
        /\ dsocket[1] = dsocket[2] /\ csocket[1] = csocket[2] /\ dsocket[1] # csocket[1]
        /\ \A n \in Nodes : established[n] = sk[dsocket[n]].path /\ established[n] = sk[csocket[n]].path
        /\ agreed[1] = agreed[2]
        /\ budget.conf[1].secret = budget.conf[2].secret
        /\ budget.conf[1].settings = budget.conf[2].settings

\* When the control sockets of the nodes are the two ends of one TCP connection,
\* exactly one of the nodes has RESOLVE_CONFLICTS: the ties that this bit breaks
\* (concurrent writes, split brain, resync direction) are broken the same way on
\* both sides.  Stale bits of attempts that failed do not survive.
OneResolver ==
    csocket[1] = csocket[2] /\ csocket[1] # NoSock => resolve[1] # resolve[2]

-----------------------------------------------------------------------------
(***************************************************************************)
(* The invariant behind these properties.                                  *)
(***************************************************************************)
\* The ends that node n has: the variables of dtt_connect() and what waits.
Held(n) == ({dsocket[n], csocket[n], newsock[n]} \ {NoSock}) \cup Unaccepted(n)

\* The receiver is past EndConnect(), has sent features, has the peer's features.
Sent == {"get_features", "auth", "get_challenge", "get_response", "protocol", "up"}
Got == Sent \ {"get_features"}
After == Sent \cup {"features"}

\* A connection waits in one place.
WaitsOnce(n) ==
    /\ \A p \in Paths : IsInjective(listen[n][p].backlog) /\ IsInjective(accepted[n][p])
    /\ \A p, p2 \in Paths :
        /\ p # p2 => /\ Range(listen[n][p].backlog) \cap Range(listen[n][p2].backlog) = {}
                     /\ Range(accepted[n][p]) \cap Range(accepted[n][p2]) = {}
        /\ Range(listen[n][p].backlog) \cap Range(accepted[n][p2]) = {}

\* Where node n has its ends: no end leaks, none is in two places.
EndsInv(n) ==
    /\ \A k \in Ids : n \in sk[k].open <=> k \in Held(n)
    /\ dsocket[n] # NoSock => dsocket[n] # csocket[n]
    /\ newsock[n] \notin {dsocket[n], csocket[n]} \ {NoSock}
    /\ Unaccepted(n) \cap {dsocket[n], csocket[n], newsock[n]} = {}
    /\ newsock[n] # NoSock => sk[newsock[n]].from = Peer(n)
    /\ \A k \in Unaccepted(n) : sk[k].from = Peer(n) /\ sk[k].path \in Paths
    /\ WaitsOnce(n)

\* What the receiver has at a place of the loop.
PlaceInv(n) ==
    /\ pc[n] \in {"start", "down"} => dsocket[n] = NoSock /\ csocket[n] = NoSock
    /\ pc[n] \in {"connect", "wait", "first_packet"} => dsocket[n] = NoSock \/ csocket[n] = NoSock
    /\ pc[n] \in {"check_first", "check_again", "established"} \cup After =>
         dsocket[n] # NoSock /\ csocket[n] # NoSock
    /\ pc[n] = "first_packet" <=> newsock[n] # NoSock
    /\ pc[n] \in {"start", "down"} \cup After =>
         Unaccepted(n) = {} /\ \A p \in Paths : ~listen[n][p].on

\* RESOLVE_CONFLICTS is for the node that has accepted the control socket.
ResolveInv(n) == csocket[n] # NoSock => (resolve[n] <=> sk[csocket[n]].from = Peer(n))

\* The sockets of a node belong to one path.
PathInv(n) ==
    /\ first_path[n] = NoPath => dsocket[n] = NoSock /\ csocket[n] = NoSock
    /\ \A k \in {dsocket[n], csocket[n]} \ {NoSock} : sk[k].path = first_path[n]
    /\ newsock[n] # NoSock => sk[newsock[n]].path = connect_to_path[n]
    /\ \A p \in Paths : \A k \in Range(accepted[n][p]) : sk[k].path = p
    /\ dsocket[n] # NoSock /\ csocket[n] # NoSock => first_path[n] = connect_to_path[n]
    /\ pc[n] \in After => established[n] = first_path[n]

\* A socket is for data or for control, at both ends.
DataPackets == Packets \ (FirstPackets \cup {"YES"})
Queue(k, n) == Range(sk[k].q[n])
DataOn(k, n) == Queue(k, n) \cap DataPackets # {}
RoleInv(n) ==
    /\ dsocket[n] # NoSock => dsocket[n] # csocket[Peer(n)]
    /\ \A k \in Ids :
        /\ Queue(k, n) # {} => n \in sk[k].open
        /\ Queue(k, n) \cap FirstPackets # {} => sk[k].from = Peer(n)
        /\ "INITIAL_DATA" \in Queue(k, n) => csocket[Peer(n)] # k
        /\ "INITIAL_META" \in Queue(k, n) => dsocket[Peer(n)] # k /\ ~DataOn(k, n)
        /\ DataOn(k, n) => csocket[n] # k

\* Packets on a socket come from a peer that uses it for data, or has left it.  A
\* node with packets of a peer that has left it is not the partner of anybody.
HandInv(n) ==
    /\ \A k \in Ids : DataOn(k, n) =>
         Peer(n) \notin sk[k].open \/ (dsocket[Peer(n)] = k /\ pc[Peer(n)] \in Sent)
    /\ pc[n] \in Got =>
         \/ Peer(n) \notin sk[dsocket[n]].open
         \/ dsocket[Peer(n)] = dsocket[n] /\ pc[Peer(n)] \in Sent
    /\ \A k \in Ids :
         /\ n \in sk[k].open /\ Peer(n) \notin sk[k].open
         /\ DataOn(k, n) \/ (pc[n] \in Got /\ dsocket[n] = k)
         => pc[Peer(n)] \notin Got /\ \A j \in Ids : ~DataOn(j, Peer(n))

\* The streams of the nodes are the same, or the peer has left both of n's.
Pair(n) ==
    \/ /\ pc[Peer(n)] = "up"
       /\ dsocket[Peer(n)] = dsocket[n] /\ csocket[Peer(n)] = csocket[n]
    \/ Peer(n) \notin sk[dsocket[n]].open /\ Peer(n) \notin sk[csocket[n]].open

\* The packets of the two-phase commit of node 1.
TwopcInv(n) ==
    /\ twopc[n] # "idle" => n = 1
    /\ \A k \in Ids :
        /\ "PREPARE" \in Queue(k, n) => n = 2 /\ dsocket[Peer(n)] = k /\ pc[Peer(n)] = "up"
        /\ "COMMIT" \in Queue(k, n) => n = 2
        /\ "YES" \in Queue(k, n) => n = 1 /\ pc[n] = "up" /\ csocket[n] = k /\ Pair(n)
    /\ cstate[n] = "connected" => pc[n] = "up" /\ (n = 1 => Pair(n))

\* What the nodes have agreed on.
AgreeInv(n) ==
    /\ pc[n] \in Got => agreed[n] = Agree(budget.conf[n], budget.conf[Peer(n)])
    /\ pc[n] \in {"protocol", "up"} => budget.conf[n].secret \in {"none", budget.conf[Peer(n)].secret}

\* With different settings, a commit comes after the P_PROTOCOL that ends the connection.
Announced(s) == \A i \in DOMAIN s : s[i] = "COMMIT" => \E j \in DOMAIN s : j < i /\ s[j] = "PROTOCOL"
SettingsInv(n) ==
    budget.conf[1].settings # budget.conf[2].settings =>
        /\ \A k \in Ids : Announced(sk[k].q[n])
        /\ pc[n] = "up" /\ Peer(n) \in sk[dsocket[n]].open /\ n \notin sk[dsocket[n]].fin =>
             "PROTOCOL" \in Queue(dsocket[n], Peer(n))
        /\ cstate[n] = "connected" => n = 1

ConnInv ==
    /\ TypeOK
    /\ \A n \in Nodes : /\ EndsInv(n) /\ PlaceInv(n) /\ ResolveInv(n) /\ PathInv(n) /\ RoleInv(n)
                        /\ HandInv(n) /\ TwopcInv(n) /\ AgreeInv(n) /\ SettingsInv(n)
=============================================================================

----------------------------- MODULE DrbdResync -----------------------------
(***************************************************************************)
(* The data path of a resync and of an online verify between two nodes,    *)
(* while the application writes: how the SyncTarget asks for blocks        *)
(* (make_resync_request), how the SyncSource reads and answers them, what  *)
(* waits for what in the interval trees of the nodes and for the dagtag of *)
(* the Primary, how zeroed blocks are merged into discards, and how all of *)
(* it is taken down when the connection is lost (drain_resync_activity).   *)
(* Source and Target are the nodes of the resync; in a verify Source is    *)
(* L_VERIFY_S.  The Primary is one of them, or Third, which is connected   *)
(* with both.                                                              *)
(*                                                                         *)
(* A block holds the number of the write that it was last written by, in   *)
(* the order in which they are submitted, 1 and 0 being what it held       *)
(* before.  What a digest sees is Val of it, 0 being zeroes.  A request    *)
(* is a record of DrbdInterval with the further fields                     *)
(*    id       block_id; the number of the write of an application         *)
(*    rn       requested_size                                              *)
(*    at       "wait" for a conflict, a reply or the end of a discard      *)
(*             range, "dagtag" on dagtag_wait_ee, "disk", "work" in        *)
(*             sender_work, "done" on done_ee, "kept" until acknowledged   *)
(*             or until P_PEERS_IN_SYNC is queued                          *)
(*    ver      the data, dig the digest, dep the dagtag it depends on      *)
(*    tag, unsent, pend, ok, sis   of a local write: its dagtag, the peers *)
(*             it is still to be sent to, the ones that did not answer,    *)
(*             that wrote it, and that set the block in sync               *)
(* Left out: the activity log, errors of writes, a disk that is detached   *)
(* in between, throttling, congestion (Ahead/Behind), peers before         *)
(* DRBD_FF_RESYNC_DAGTAG, protocols A and B, and the peers in sync (see    *)
(* DrbdGeneration).                                                        *)
(***************************************************************************)
EXTENDS DrbdInterval, Sequences, SequencesExt, TLC

CONSTANTS Source, Target, Third,
          NBlocks,        \* drbd_bm_bits
          Align,          \* DRBD_MAX_RS_DISCARD_SIZE, in blocks
          Scenarios       \* what may happen: see MCDrbdResync

VARIABLES budget, writes, link,
          disk, oos, reqs,          \* of each node: blocks, bitmaps, requests
          data, ctrl,               \* the streams from a node to a peer
          dagtag,                   \* last_dagtag_sector, own: dagtag_sector
          repl,                     \* of Source and Target: repl_state
          pending, unacked, backing,\* rs_pending_cnt, unacked_cnt, backing_ee_cnt
          sending,                  \* rs_in_flight of the connection, on Source
          rs,                       \* the peer device that makes the requests
          ov,                       \* ov_left of Source and Target
          drain                     \* the step of drain_resync_activity

vars == <<budget, writes, link, disk, oos, reqs, data, ctrl, dagtag, repl, pending, unacked, backing,
          sending, rs, ov, drain>>

Nodes == {Source, Target, Third}
Pair == {Source, Target}
Blocks == 0 .. NBlocks - 1
Other(n) == IF n = Source THEN Target ELSE Source
Peers(n) == {p \in Nodes : {n, p} \in link /\ p # n}
Connected == Pair \in link
Requester == IF budget.verify THEN Source ELSE Target     \* the node with rs
Val(v) == budget.val[v + 1]
NoData == [x \in Blocks |-> 0]
Read(n, r) == [x \in Blocks |-> IF x \in BlocksOf(r) THEN disk[n][x] ELSE 0]
Written(n, r) == [x \in Blocks |-> IF x \in BlocksOf(r) THEN r.ver[x] ELSE disk[n][x]]
Digest(ver, r) == [x \in BlocksOf(r) |-> Val(ver[x])]

NewReq(type, id, peer, b, n) ==
  [type |-> type, id |-> id, peer |-> peer, b |-> b, n |-> n, rn |-> n, flags |-> {}, at |-> "wait",
   ver |-> NoData, dig |-> <<>>, dep |-> <<0, 0>>, tag |-> 0, unsent |-> {}, pend |-> {}, ok |-> {},
   sis |-> {}]
NoLoop == [on |-> FALSE, number |-> 0, i |-> 0, size |-> 0, prev |-> 0]
\* mutant: the size of a request is that of the discard it was merged into
Packet_merged(t, r) ==
  [t |-> t, id |-> r.id, b |-> r.b, n |-> r.n, ver |-> NoData, dig |-> <<>>, dep |-> <<0, 0>>,
   tag |-> 0, set |-> {}]
Packet(t, r) ==
  [t |-> t, id |-> r.id, b |-> r.b, n |-> r.rn, ver |-> NoData, dig |-> <<>>, dep |-> <<0, 0>>,
   tag |-> 0, set |-> {}]
Note(t) == Packet(t, NewReq(RESYNC_WRITE, 0, Target, 0, 1))
\* a packet that is sent on a lost connection is dropped
Send(s, n, p, m) == IF {n, p} \in link THEN [s EXCEPT ![n][p] = Append(@, m)] ELSE s

------------------------------------------------------------------------------
(* Writes of the application                                               *)

\* repl_state of n towards p is in L_SYNC_SOURCE .. L_PAUSED_SYNC_T.  The resync
\* of Target with Third is paused while the one with Source runs.
MaySetInSync(n, p) ==
  IF {n, p} = Pair THEN repl[n] \in {"SyncSource", "SyncTarget"}
  ELSE Target \in {n, p} /\ repl[Target] = "SyncTarget"

\* What a write s that enters the tree, or tries again, finds there: it becomes sub or waits
Enters(rest, s, sub) ==
  IF find_conflict(rest, s, FALSE) = {} THEN {mark_verify(rest, s) \cup {sub}}
  ELSE {rq \cup {s} : rq \in mark_verify_before(rest, s)}

\* drbd_conflict_submit_write and, without a conflict, drbd_send_and_submit
drbd_conflict_submit_write(n, r) ==
  LET rest == reqs[n] \ {r}
      s == Clear(Set(r, {"TREE"}), {"QUEUED"})
      sub == [Set(s, {"SUBMITTED"}) EXCEPT !.at = "disk", !.tag = dagtag[n][n] + 1,
                                           !.ver = [@ EXCEPT ![r.b] = dagtag[n][n] + 2],
                                           !.unsent = Peers(n), !.pend = Peers(n)]
  IN  \E rq \in Enters(rest, s, sub) :
        /\ reqs' = [reqs EXCEPT ![n] = rq]
        /\ dagtag' = IF sub \in rq THEN [dagtag EXCEPT ![n][n] = @ + 1] ELSE dagtag

AppWrite ==
  LET n == budget.primary
  IN  /\ writes < Len(budget.writes)
      /\ repl[n] # "WFBitMapS"
      /\ writes' = writes + 1
      /\ drbd_conflict_submit_write(n, NewReq(LOCAL_WRITE, writes + 1, n, budget.writes[writes + 1], 1))
      /\ UNCHANGED <<budget, link, disk, oos, data, ctrl, repl, pending, unacked, backing, sending, rs,
                     ov, drain>>

\* The sender takes the writes in the order of the transfer log
SendWrite(n, p) ==
  \E r \in reqs[n] :
    /\ r.type = LOCAL_WRITE /\ p \in r.unsent
    /\ \A s \in reqs[n] : s.type = LOCAL_WRITE /\ p \in s.unsent => r.tag <= s.tag
    /\ data' = Send(data, n, p, [Packet("Data", r) EXCEPT !.ver = r.ver, !.tag = r.tag,
                                   !.set = IF MaySetInSync(n, p) THEN {"MAY_SET_IN_SYNC"} ELSE {}])
    /\ reqs' = [reqs EXCEPT ![n] = (@ \ {r}) \cup {[r EXCEPT !.unsent = @ \ {p}]}]
    /\ UNCHANGED <<budget, writes, link, disk, oos, ctrl, dagtag, repl, pending, unacked, backing,
                   sending, rs, ov, drain>>

\* The write is completed: the peers that did not write it are marked
Complete(n, rq, r) ==
  /\ reqs' = [reqs EXCEPT ![n] = release_conflicts(rq \ {r}, r)]
  /\ oos' = [oos EXCEPT ![n] = [p \in Nodes |->
               IF p \in r.sis THEN @[p] \ BlocksOf(r)
               ELSE IF p = n \/ p \in r.ok \/ p \notin budget.nodes THEN @[p]
               ELSE @[p] \cup BlocksOf(r)]]

Completed(r) == r.pend = {} /\ Has(r, "BACKING_COMPLETED")
CompleteIfDone(n, rq, r) ==
  IF Completed(r) THEN Complete(n, rq, r)
  ELSE reqs' = [reqs EXCEPT ![n] = rq] /\ UNCHANGED oos

\* got_BlockAck
GotBlockAck(n, p) ==
  /\ ctrl[p][n] # <<>> /\ Head(ctrl[p][n]).t = "Ack"
  /\ LET m == Head(ctrl[p][n])
     IN  \E r \in reqs[n] :
           /\ r.type = LOCAL_WRITE /\ r.id = m.id
           /\ LET s == [r EXCEPT !.pend = @ \ {p}, !.ok = @ \cup {p},
                                 !.sis = @ \cup (IF "IN_SYNC" \in m.set THEN {p} ELSE {})]
              IN  CompleteIfDone(n, (reqs[n] \ {r}) \cup {s}, s)
  /\ ctrl' = [ctrl EXCEPT ![p][n] = Tail(@)]
  /\ UNCHANGED <<budget, writes, link, disk, data, dagtag, repl, pending, unacked, backing, sending, rs,
                 ov, drain>>

------------------------------------------------------------------------------
(* Reads for the peer, and the dagtag they wait for                        *)

\* drbd_conflict_submit_peer_read, the request as it is afterwards.  A verify
\* request never waits; on the verify source it is in the tree already.
Submitted(rest, r) ==
  LET conflict == find_conflict(rest, r, FALSE) # {}
      new == IF conflict /\ ~Has(r, "TREE") THEN {"CONFLICT"} ELSE {}
      s == Clear(Set(r, {"TREE"} \cup new), {"QUEUED"})
  IN  CASE r.type = OV_READ_SOURCE -> [r EXCEPT !.at = "disk"]
        [] r.type # OV_READ_SOURCE /\ (~conflict \/ is_verify(r)) ->
             [Set(s, {"SUBMITTED"}) EXCEPT !.at = "disk"]
        [] OTHER -> [s EXCEPT !.at = "wait"]

\* mutant: the peer may answer with what it has
NoDependency(n) == <<0, 0>>

\* find_current_dagtag: no dependency is <<0, 0>>
find_current_dagtag(n) ==
  LET p == budget.primary
  IN  CASE p = n /\ dagtag[n][n] > 0 -> <<n, dagtag[n][n]>>
        [] p # n /\ {n, p} \in link /\ dagtag[n][p] > 0 -> <<p, dagtag[n][p]>>
        [] OTHER -> <<0, 0>>

need_to_wait_for_dagtag(n, r) ==
  /\ r.dep[2] # 0 /\ r.dep[1] # n
  /\ {n, r.dep[1]} \in link /\ dagtag[n][r.dep[1]] < r.dep[2]

\* drbd_peer_resync_read: the request as it is afterwards
PeerResyncRead(n, rest, r) ==
  IF need_to_wait_for_dagtag(n, r) THEN [r EXCEPT !.at = "dagtag"] ELSE Submitted(rest, r)
IsWaiting(r) == r.at = "dagtag"

\* release_dagtag_wait: what has waited for dagtag tag of p
Released(n, rq, p, tag) ==
  {w \in rq : w.at = "dagtag" /\ {n, w.peer} \in link /\ w.dep[1] = p /\ w.dep[2] <= tag}

\* receive_Data and set_connection_dagtag
ReceiveData(n, p) ==
  /\ data[p][n] # <<>> /\ Head(data[p][n]).t = "Data"
  /\ LET m == Head(data[p][n])
         r == [NewReq(PEER_WRITE, m.id, p, m.b, m.n) EXCEPT !.ver = m.ver, !.flags = m.set \cup {"TREE"}]
     IN  \E rq \in Enters(reqs[n], r, [Set(r, {"SUBMITTED"}) EXCEPT !.at = "disk"]) :
           LET w == Released(n, rq, p, m.tag)
           IN  /\ reqs' = [reqs EXCEPT ![n] = (rq \ w) \cup {Submitted(rq \ w, v) : v \in w}]
               /\ dagtag' = [dagtag EXCEPT ![n][p] = m.tag]
               /\ backing' = IF n \in Pair THEN [backing EXCEPT ![n] = @ + Cardinality(w)] ELSE backing
  /\ data' = [data EXCEPT ![p][n] = Tail(@)]
  /\ UNCHANGED <<budget, writes, link, disk, oos, ctrl, repl, pending, unacked, sending, rs, ov, drain>>

\* e_end_block
EndBlock(n, r) ==
  LET inSync == Has(r, "MAY_SET_IN_SYNC") /\ {n, r.peer} \in link /\ MaySetInSync(n, r.peer)
  IN  /\ r.type = PEER_WRITE /\ r.at = "done"
      /\ oos' = IF inSync THEN [oos EXCEPT ![n][r.peer] = @ \ BlocksOf(r)] ELSE oos
      /\ ctrl' = Send(ctrl, n, r.peer, [Packet("Ack", r) EXCEPT !.set = IF inSync THEN {"IN_SYNC"} ELSE {}])
      /\ reqs' = [reqs EXCEPT ![n] = remove_and_free(@, r)]
      /\ UNCHANGED <<budget, writes, link, disk, data, dagtag, repl, pending, unacked, backing, sending,
                     rs, ov, drain>>

------------------------------------------------------------------------------
(* The resync requests of the SyncTarget.  What a handler changes on the   *)
(* node is st: its requests, the peer device, the counters, and what it    *)
(* sends on the data stream.                                               *)

Here(n) == [rq |-> reqs[n], rs |-> rs, backing |-> backing[n], unacked |-> unacked[n],
            pending |-> pending[n], out |-> <<>>]
\* d: the data streams without what the handler has received
Becomes(n, st, d) ==
  /\ reqs' = [reqs EXCEPT ![n] = st.rq]
  /\ rs' = st.rs
  /\ backing' = [backing EXCEPT ![n] = st.backing]
  /\ unacked' = [unacked EXCEPT ![n] = st.unacked]
  /\ pending' = [pending EXCEPT ![n] = st.pending]
  /\ data' = IF Connected THEN [d EXCEPT ![n][Other(n)] = @ \o st.out] ELSE d

ReqOf(rq, id) == CHOOSE r \in rq : r.type = RESYNC_WRITE /\ r.id = id
\* the position of a request in resync_requests, 0 is the head of the list
Pos(s, id) == IF id = 0 THEN 0 ELSE CHOOSE k \in 1 .. Len(s.list) : s.list[k] = id
IdAt(s, k) == IF k = 0 THEN 0 ELSE s.list[k]

\* drbd_list_del_resync_request
list_del_resync_request(s, id) ==
  [s EXCEPT !.list = SelectSeq(@, LAMBDA k : k # id), !.received = IF @ = id THEN 0 ELSE @,
            !.discard = IF @ = id THEN 0 ELSE @]

\* drbd_remove_peer_req_interval, if it is in the tree, and drbd_free_peer_req
FreeReq(st, r) ==
  [st EXCEPT !.rq = IF Has(r, "TREE") THEN remove_and_free(@, r) ELSE @ \ {r},
             !.rs = IF r.type = RESYNC_WRITE THEN list_del_resync_request(@, r.id) ELSE @]

\* drbd_conflict_send_resync_request and send_resync_request
ConflictSend(st, r) ==
  LET rest == st.rq \ {r}
      s == Clear(Set(r, {"TREE"}), {"QUEUED"})
  IN  IF find_conflict(rest, s, TRUE) = {}
      THEN [st EXCEPT !.rq = mark_verify(rest, s) \cup
                             {[Clear(Set(s, {"READY_TO_SEND"}), {"HAS_DIGEST"}) EXCEPT !.dig = <<>>]},
                      !.pending = @ + 1, !.backing = @ - 1,
                      !.out = Append(@, [Packet("Request", r) EXCEPT
                                           !.dig = r.dig, !.dep = find_current_dagtag(Target),
                                           !.set = r.flags \cap {"THIN", "HAS_DIGEST"}])]
      ELSE IF Has(r, "CANCELED")
      THEN [FreeReq([st EXCEPT !.rq = rest \cup {s}], s) EXCEPT !.backing = @ - 1]
      ELSE [st EXCEPT !.rq = rest \cup {s}]

\* drbd_conflict_submit_resync_request
ConflictSubmit(st, r) ==
  LET rest == st.rq \ {r}
      s == Clear(Set(r, {"RECEIVED"}), {"QUEUED"})
  IN  IF find_conflict(rest, s, FALSE) = {}
      THEN [st EXCEPT !.rq = mark_verify(rest, s) \cup {[Set(s, {"SUBMITTED"}) EXCEPT !.at = "disk"]}]
      ELSE IF Has(r, "CANCELED")
      THEN [FreeReq([st EXCEPT !.rq = rest \cup {s}], s) EXCEPT !.unacked = @ - 1, !.backing = @ - 1]
      ELSE [st EXCEPT !.rq = rest \cup {s}]

\* R: the requests in the order of the list.  How far received_last gets: to the
\* next discard, or to a reply that is missing
ReceivedUpTo(s, R, all) ==
  Max({k \in Pos(s, s.received) .. Len(s.list) :
         \A j \in Pos(s, s.received) + 1 .. k : (Has(R[j], "RECEIVED") \/ all) /\ ~Has(R[j], "TRIM")})
AlignedEnd(r) == (r.b + r.n) % Align = 0
Adjacent(r, s) == r.b + r.n = s.b
\* How far discard_last gets from position d, 0 if there is no discard
DiscardUpTo(s, R, d, rl) ==
  LET from == IF d # 0 THEN d ELSE rl
      joins(j) == Has(R[j], "TRIM") /\ ((d = 0 /\ j = rl + 1) \/ Adjacent(R[j - 1], R[j]))
      new == {k \in from + 1 .. Len(s.list) :
                \A j \in from + 1 .. k : joins(j) /\ (j < k => ~AlignedEnd(R[j]))}
  IN  IF new = {} THEN d ELSE Max(new)
\* Nothing can be added to the range that ends with dl
RangeEnd(s, R, dl, all) ==
  \/ AlignedEnd(R[dl]) \/ Has(R[dl], "LAST")
  \/ dl < Len(s.list) /\ (~Adjacent(R[dl], R[dl + 1]) \/
                          (~Has(R[dl + 1], "TRIM") /\ (Has(R[dl + 1], "RECEIVED") \/ all)))

\* drbd_advance_to_next_rs_discard: x.mains are the discards to submit
AdvanceTo(x, R, rl, dl, all) ==
  LET s == x.st.rs
      main == R[rl + 1]
      merged == {R[k] : k \in rl + 2 .. dl}
  IN  IF dl = 0 \/ ~RangeEnd(s, R, dl, all)
      THEN [x EXCEPT !.on = FALSE, !.st.rs.received = IdAt(s, rl), !.st.rs.discard = IdAt(s, dl)]
      ELSE [x EXCEPT !.mains = Append(@, main.id),
                     !.st.rq = (@ \ ({main} \cup merged)) \cup {Clear(m, {"TREE"}) : m \in merged} \cup
                               {[main EXCEPT !.n = R[dl].b + R[dl].n - main.b]},
                     !.st.rs.received = IdAt(s, dl), !.st.rs.discard = 0]
Advance(x, all) ==
  LET R == [k \in DOMAIN x.st.rs.list |-> ReqOf(x.st.rq, x.st.rs.list[k])]
      rl == ReceivedUpTo(x.st.rs, R, all)
  IN  AdvanceTo(x, R, rl, DiscardUpTo(x.st.rs, R, Pos(x.st.rs, x.st.rs.discard), rl), all)

\* drbd_process_rs_discards
process_rs_discards(st, all) ==
  LET x == FoldLeft(LAMBDA y, id : IF y.on THEN Advance(y, all) ELSE y,
                    [st |-> st, mains |-> <<>>, on |-> st.rs.list # <<>>], Append(st.rs.list, 0))
  IN  FoldLeft(LAMBDA y, id : ConflictSubmit([y EXCEPT !.backing = @ + 1], ReqOf(y.rq, id)),
               x.st, x.mains)

\* drbd_last_resync_request
last_resync_request(st, all) ==
  IF st.rs.list = <<>> THEN st
  ELSE LET r == ReqOf(st.rq, Last(st.rs.list))
       IN  process_rs_discards([st EXCEPT !.rq = (@ \ {r}) \cup {Set(r, {"LAST"})}], all)

\* drbd_check_peers_in_sync_progress
RECURSIVE CheckProgress(_)
CheckProgress(st) ==
  IF st.rs.list # <<>> /\ Has(ReqOf(st.rq, Head(st.rs.list)), "COMPLETED")
  THEN CheckProgress(FreeReq(st, ReqOf(st.rq, Head(st.rs.list)))) ELSE st

\* drbd_resync_request_complete, of a request whose interval is out of the tree
ResyncComplete(st, r) ==
  CheckProgress([st EXCEPT !.rq = (@ \ {r}) \cup {[Set(r, {"COMPLETED"}) EXCEPT !.at = "kept", !.ver = NoData]}])

------------------------------------------------------------------------------
(* make_resync_request, one step per request                               *)

Unsynced == oos[Target][Source]
Gran == budget.gran

\* drbd_resync_check_finished
PassFinished == (\A b \in Unsynced : b < rs.next) /\ rs.list = <<>>
resync_check_finished == PassFinished /\ (rs.failed # 0 \/ Unsynced = {})

\* drbd_resync_finished on the SyncTarget: the state is sent on the data stream
ResyncFinished ==
  /\ repl[Target] = "SyncTarget" /\ ~rs.loop.on /\ resync_check_finished
  /\ repl' = [repl EXCEPT ![Target] = "Established"]
  /\ data' = Send(data, Target, Source, Note("State"))
  /\ UNCHANGED <<budget, writes, link, disk, oos, reqs, ctrl, dagtag, pending, unacked, backing, sending,
                 rs, ov, drain>>

\* make_resync_request up to the loop.  A call that changes nothing is left out.
ResyncTimer ==
  LET flying == rs.inflight - rs.sectin
      number == Max({budget.number, Gran})
      s == [rs EXCEPT !.next = IF PassFinished THEN 0 ELSE @, !.inflight = flying, !.sectin = 0]
  IN  /\ repl[Target] = "SyncTarget" /\ ~rs.loop.on /\ ~resync_check_finished
      /\ Connected
      /\ rs.next < NBlocks \/ PassFinished
      /\ IF rs.unsucc /\ flying > 0
         THEN Becomes(Target, process_rs_discards([Here(Target) EXCEPT !.rs = s], FALSE), data)
         ELSE Becomes(Target, [Here(Target) EXCEPT !.rs = [s EXCEPT
                        !.inflight = flying + number, !.unsucc = FALSE,
                        !.loop = [on |-> TRUE, number |-> number, i |-> 0, size |-> 0, prev |-> 0]]], data)
      /\ <<rs, reqs>>' # <<rs, reqs>>
      /\ UNCHANGED <<budget, writes, link, disk, oos, ctrl, dagtag, repl, sending, ov, drain>>

\* optimal_bits_for_alignment, MaxBits being a power of two
MaxBits == 4
optimal_bits_for_alignment(bit) ==
  LET b == bit % MaxBits
  IN  IF b = 0 THEN MaxBits ELSE Max({k \in {1, 2, 4} : b % k = 0})
round_to_powerof_2(v) ==
  LET smaller == Max({k \in {1, 2, 4, 8} : k <= v})
  IN  IF v = 0 THEN 0 ELSE IF v - smaller < 2 * smaller - v THEN smaller ELSE 2 * smaller

\* The request that starts at bit is longer than one block by so many
Extra(bit, number) ==
  LET optimal == IF optimal_bits_for_alignment(bit) < round_to_powerof_2(number)
                 THEN optimal_bits_for_alignment(bit) ELSE round_to_powerof_2(number)
  IN  Max({e \in 0 .. optimal - 1 : bit + 1 .. bit + e \subseteq Unsynced /\ (Gran = 0 \/ e < Gran)})

\* read_for_csum, make_one_resync_request
MakeRequest(st, b, n) ==
  LET new == NewReq(RESYNC_WRITE, st.rs.nr, Source, b, n)
      r == IF budget.csum THEN [Set(new, {"CSUM"}) EXCEPT !.at = "disk"]
           ELSE IF n = Gran THEN Set(new, {"THIN"}) ELSE new
      s == [st EXCEPT !.rq = @ \cup {r}, !.rs.list = Append(@, r.id), !.backing = @ + 1]
  IN  IF budget.csum THEN s ELSE ConflictSend(s, r)

\* A turn of the loop that makes no further request, up to the end of the function
LoopEnds(left, from) ==
  \/ left <= 0 \/ left < Gran
  \/ rs.loop.i > 0 /\ rs.unsucc
  \/ from = {}
  \/ from # {} /\ left < rs.loop.size /\ rs.loop.prev + rs.loop.size = Min(from)
\* mutant: rs_in_flight is not corrected by what was not requested
RequestDone_uncorrected ==
  LET left == rs.loop.number - rs.loop.i
      from == {b \in Unsynced : b >= rs.next}
      s == [rs EXCEPT !.loop = NoLoop, !.next = IF from = {} THEN NBlocks ELSE @]
      st == [Here(Target) EXCEPT !.rs = s]
  IN  /\ rs.loop.on /\ LoopEnds(left, from)
      /\ Becomes(Target, IF s.next >= NBlocks THEN last_resync_request(st, FALSE) ELSE st, data)
      /\ UNCHANGED <<budget, writes, link, disk, oos, ctrl, dagtag, repl, sending, ov, drain>>

RequestDone ==
  LET left == rs.loop.number - rs.loop.i
      from == {b \in Unsynced : b >= rs.next}
      atEnd == from = {} /\ left > 0 /\ left >= Gran /\ ~(rs.loop.i > 0 /\ rs.unsucc)
      s == [rs EXCEPT !.inflight = @ - left, !.loop = NoLoop, !.next = IF atEnd THEN NBlocks ELSE @]
      st == [Here(Target) EXCEPT !.rs = s]
  IN  /\ rs.loop.on /\ LoopEnds(left, from)
      /\ Becomes(Target, IF s.next >= NBlocks THEN last_resync_request(st, FALSE) ELSE st, data)
      /\ UNCHANGED <<budget, writes, link, disk, oos, ctrl, dagtag, repl, sending, ov, drain>>

RequestNext ==
  LET left == rs.loop.number - rs.loop.i
      from == {b \in Unsynced : b >= rs.next}
  IN  /\ rs.loop.on /\ ~LoopEnds(left, from)
      /\ LET bit == Min(from)
             n == Extra(bit, left) + 1
         IN  Becomes(Target, MakeRequest([Here(Target) EXCEPT !.rs = [rs EXCEPT
                               !.nr = @ + 1, !.next = bit + n, !.loop.i = @ + n, !.loop.size = n,
                               !.loop.prev = bit]], bit, n), data)
      /\ UNCHANGED <<budget, writes, link, disk, oos, ctrl, dagtag, repl, sending, ov, drain>>

\* -EAGAIN of read_for_csum, make_one_resync_request: no memory, to the end of the function
RequestFails ==
  LET left == rs.loop.number - rs.loop.i
      from == {b \in Unsynced : b >= rs.next}
  IN  /\ rs.loop.on /\ ~LoopEnds(left, from)
      /\ budget.nomem > 0
      /\ budget' = [budget EXCEPT !.nomem = @ - 1]
      /\ rs' = [rs EXCEPT !.unsucc = TRUE, !.next = Min(from), !.inflight = @ - left, !.loop = NoLoop]
      /\ UNCHANGED <<writes, link, disk, oos, reqs, data, ctrl, dagtag, repl, pending, unacked, backing,
                     sending, ov, drain>>

------------------------------------------------------------------------------
(* The answers                                                             *)

HasHead(n, s, t) == n \in Pair /\ s[Other(n)][n] # <<>> /\ Head(s[Other(n)][n]).t \in t
Rest(n, s) == [s EXCEPT ![Other(n)][n] = Tail(@)]

\* find_resync_request
find_resync_request(n, types, m) ==
  {r \in Tree(reqs[n]) :
     /\ Has(r, "READY_TO_SEND") /\ r.type \in types
     /\ r.b = m.b /\ r.n = m.n /\ r.peer = Other(n) /\ r.id = m.id}

\* drbd_set_all_out_of_sync, except for the node itself
AllOutOfSync(n, bs) == [oos EXCEPT ![n] = [p \in Nodes |->
                          IF p = n \/ p \notin budget.nodes THEN @[p] ELSE @[p] \cup bs]]

\* receive_RSDataReply, recv_resync_read
ReceiveRSDataReply ==
  /\ HasHead(Target, data, {"Reply"})
  /\ LET m == Head(data[Source][Target])
     IN  \E r \in find_resync_request(Target, {RESYNC_WRITE}, m) :
           LET s == [r EXCEPT !.ver = m.ver]
               st == ConflictSubmit([Here(Target) EXCEPT !.rq = (@ \ {r}) \cup {s}, !.pending = @ - 1,
                                       !.unacked = @ + 1, !.backing = @ + 1], s)
           IN  /\ Becomes(Target, process_rs_discards([st EXCEPT !.rs.sectin = @ + m.n], FALSE),
                          Rest(Target, data))
               /\ oos' = AllOutOfSync(Target, BlocksOf(r))
  /\ UNCHANGED <<budget, writes, link, disk, ctrl, dagtag, repl, sending, ov, drain>>

\* receive_rs_deallocated
ReceiveDeallocated ==
  /\ HasHead(Target, data, {"Deallocated"})
  /\ LET m == Head(data[Source][Target])
     IN  \E r \in find_resync_request(Target, {RESYNC_WRITE}, m) :
           LET st == [Here(Target) EXCEPT !.rq = (@ \ {r}) \cup {[Set(r, {"TRIM"}) EXCEPT !.ver = m.ver]},
                        !.pending = @ - 1, !.unacked = @ + 1, !.rs.sectin = @ + m.n]
           IN  /\ Becomes(Target, process_rs_discards(st, FALSE), Rest(Target, data))
               /\ oos' = AllOutOfSync(Target, BlocksOf(r))
  /\ UNCHANGED <<budget, writes, link, disk, ctrl, dagtag, repl, sending, ov, drain>>

\* got_IsInSync
GotIsInSync ==
  /\ HasHead(Target, ctrl, {"IsInSync"})
  /\ LET m == Head(ctrl[Source][Target])
     IN  \E r \in find_resync_request(Target, {RESYNC_WRITE}, m) :
           LET s == Set(r, {"RECEIVED"})
               st == [Here(Target) EXCEPT !.rq = remove_interval(@, r, s), !.pending = @ - 1,
                                          !.rs.sectin = @ + m.n]
           IN  /\ Becomes(Target, ResyncComplete(st, Clear(s, {"TREE"})), data)
               /\ oos' = [oos EXCEPT ![Target][Source] = @ \ BlocksOf(r)]
  /\ ctrl' = Rest(Target, ctrl)
  /\ UNCHANGED <<budget, writes, link, disk, dagtag, repl, sending, ov, drain>>

\* got_NegRSDReply, drbd_unsuccessful_resync_request.  drbd_rs_failed_io counts the bits.
GotNegRSDReply(n) ==
  /\ HasHead(n, ctrl, {"Cancel", "NegReply"})
  /\ LET m == Head(ctrl[Other(n)][n])
         failed == m.t = "NegReply"
     IN  \E r \in find_resync_request(n, {RESYNC_WRITE, OV_READ_SOURCE}, m) :
           LET st == FreeReq([Here(n) EXCEPT !.pending = @ - 1], r)
           IN  /\ Becomes(n, [st EXCEPT !.rs.sectin = @ + m.n,
                                !.rs.unsucc = @ \/ (~failed /\ ~is_verify(r)),
                                !.rs.failed = IF failed THEN @ + Cardinality(BlocksOf(r) \cap oos[n][Other(n)])
                                              ELSE @], data)
               /\ ov' = IF ~failed /\ is_verify(r) THEN [ov EXCEPT ![n] = @ - 1] ELSE ov
  /\ ctrl' = Rest(n, ctrl)
  /\ UNCHANGED <<budget, writes, link, disk, oos, dagtag, repl, sending, drain>>

\* receive_common_data_request for a resync request.  A source that has not started
\* yet sends P_RS_CANCEL, to at most budget.late requests.
ReceiveRequest ==
  /\ HasHead(Source, data, {"Request"})
  /\ data' = Rest(Source, data)
  /\ LET m == Head(data[Target][Source])
         r == [NewReq(RESYNC_READ, m.id, Target, m.b, m.n) EXCEPT !.dig = m.dig, !.dep = m.dep,
                 !.flags = m.set]
         s == PeerResyncRead(Source, reqs[Source], r)
     IN  IF repl[Source] = "WFBitMapS"
         THEN /\ m.id <= budget.late
              /\ ctrl' = Send(ctrl, Source, Target, Packet("Cancel", r))
              /\ UNCHANGED <<reqs, unacked, backing>>
         ELSE /\ reqs' = [reqs EXCEPT ![Source] = @ \cup {s}]
              /\ unacked' = [unacked EXCEPT ![Source] = @ + 1]
              /\ backing' = [backing EXCEPT ![Source] = IF IsWaiting(s) THEN @ ELSE @ + 1]
              /\ UNCHANGED ctrl
  /\ UNCHANGED <<budget, writes, link, disk, oos, dagtag, repl, pending, sending, rs, ov, drain>>

\* got_RSWriteAck: the request is freed unless the sender is not done with it
GotRSWriteAck ==
  /\ HasHead(Source, ctrl, {"RSWriteAck"})
  /\ LET m == Head(ctrl[Target][Source])
     IN  \E r \in find_resync_request(Source, {RESYNC_READ}, m) :
           /\ oos' = [oos EXCEPT ![Source][Target] = @ \ BlocksOf(r)]
           /\ sending' = sending - m.n
           /\ pending' = [pending EXCEPT ![Source] = @ - 1]
           /\ reqs' = [reqs EXCEPT ![Source] =
                         IF Has(r, "SENT") THEN remove_and_free(@, r)
                         ELSE remove_interval(@, r, Set(r, {"RECEIVED"}))]
  /\ ctrl' = Rest(Source, ctrl)
  /\ UNCHANGED <<budget, writes, link, disk, data, dagtag, repl, unacked, backing, rs, ov, drain>>

\* the end of drbd_rs_reply: drbd_resync_read_req_mod(INTERVAL_SENT)
MarkSent(r) ==
  /\ r.type = RESYNC_READ /\ r.at = "sending"
  /\ reqs' = [reqs EXCEPT ![Source] =
                IF Has(r, "RECEIVED") THEN @ \ {r} ELSE (@ \ {r}) \cup {[Set(r, {"SENT"}) EXCEPT !.at = "kept"]}]
  /\ UNCHANGED <<budget, writes, link, disk, oos, data, ctrl, dagtag, repl, pending, unacked, backing,
                 sending, rs, ov, drain>>

\* The state of the peer: Source has drbd_resync_finished; the sync source that was
\* rescheduled (drbd_start_resync) begins
ReceiveState ==
  /\ HasHead(Source, data, {"State"})
  /\ data' = Rest(Source, data)
  /\ repl' = [repl EXCEPT ![Source] = "Established"]
  /\ UNCHANGED <<budget, writes, link, disk, oos, reqs, ctrl, dagtag, pending, unacked, backing, sending,
                 rs, ov, drain>>
StartSource ==
  /\ repl[Source] = "WFBitMapS"
  /\ repl' = [repl EXCEPT ![Source] = "SyncSource"]
  /\ UNCHANGED <<budget, writes, link, disk, oos, reqs, data, ctrl, dagtag, pending, unacked, backing,
                 sending, rs, ov, drain>>

------------------------------------------------------------------------------
(* The online verify                                                       *)

\* make_ov_request, drbd_conflict_send_ov_request: ov_position is rs.next
OvRequest ==
  LET r == NewReq(OV_READ_SOURCE, rs.nr + 1, Target, rs.next, 1)
      new == IF find_conflict(reqs[Source], r, FALSE) = {} THEN {} ELSE {"CONFLICT"}
  IN  /\ repl[Source] = "VerifyS" /\ rs.next < NBlocks
      /\ Becomes(Source, [Here(Source) EXCEPT
                   !.rq = @ \cup {Set(r, new \cup {"TREE", "READY_TO_SEND", "SUBMITTED"})},
                   !.pending = @ + 1,
                   !.rs = [rs EXCEPT !.nr = @ + 1, !.next = @ + 1,
                                     !.inflight = @ - rs.sectin + 1, !.sectin = 0],
                   !.out = <<[Packet("OvRequest", r) EXCEPT !.dep = find_current_dagtag(Source)]>>], data)
      /\ UNCHANGED <<budget, writes, link, disk, oos, ctrl, dagtag, repl, sending, ov, drain>>

\* receive_common_data_request for P_OV_DAGTAG_REQ
ReceiveOvRequest ==
  /\ HasHead(Target, data, {"OvRequest"})
  /\ LET m == Head(data[Source][Target])
         s == PeerResyncRead(Target, reqs[Target],
                             [NewReq(OV_READ_TARGET, m.id, Source, m.b, m.n) EXCEPT !.dep = m.dep])
     IN  /\ reqs' = [reqs EXCEPT ![Target] = @ \cup {s}]
         /\ unacked' = [unacked EXCEPT ![Target] = @ + 1]
         /\ backing' = [backing EXCEPT ![Target] = IF IsWaiting(s) THEN @ ELSE @ + 1]
  /\ data' = Rest(Target, data)
  /\ UNCHANGED <<budget, writes, link, disk, oos, ctrl, dagtag, repl, pending, sending, rs, ov, drain>>

\* receive_common_ov_reply
ReceiveOvReply ==
  /\ HasHead(Source, data, {"OvReply"})
  /\ LET m == Head(data[Target][Source])
     IN  \E r \in find_resync_request(Source, {OV_READ_SOURCE}, m) :
           LET s == PeerResyncRead(Source, reqs[Source] \ {r},
                                   [Set(r, {"RECEIVED"}) EXCEPT !.dig = m.dig, !.dep = m.dep])
           IN  Becomes(Source, [Here(Source) EXCEPT
                         !.rq = (@ \ {r}) \cup {s}, !.pending = @ - 1, !.unacked = @ + 1,
                         !.backing = IF IsWaiting(s) THEN @ ELSE @ + 1, !.rs.sectin = @ + m.n],
                       Rest(Source, data))
  /\ UNCHANGED <<budget, writes, link, disk, oos, ctrl, dagtag, repl, sending, ov, drain>>

\* got_OVResult
GotOVResult ==
  /\ HasHead(Target, ctrl, {"OvResult"})
  /\ LET m == Head(ctrl[Source][Target])
     IN  \E r \in find_resync_request(Target, {OV_READ_TARGET}, m) :
           /\ reqs' = [reqs EXCEPT ![Target] = remove_and_free(@, r)]
           /\ oos' = IF "OUT_OF_SYNC" \in m.set THEN [oos EXCEPT ![Target][Source] = @ \cup BlocksOf(r)]
                     ELSE oos
  /\ pending' = [pending EXCEPT ![Target] = @ - 1]
  /\ ov' = [ov EXCEPT ![Target] = @ - 1]
  /\ ctrl' = Rest(Target, ctrl)
  /\ UNCHANGED <<budget, writes, link, disk, data, dagtag, repl, unacked, backing, sending, rs, drain>>

\* RS_DONE, posted by verify_progress, and drbd_resync_finished
VerifyFinished(n) ==
  /\ repl[n] \in {"VerifyS", "VerifyT"} /\ ov[n] = 0
  /\ repl' = [repl EXCEPT ![n] = "Established"]
  /\ UNCHANGED <<budget, writes, link, disk, oos, reqs, data, ctrl, dagtag, pending, unacked, backing,
                 sending, rs, ov, drain>>

------------------------------------------------------------------------------
(* The backing disk, the sender and the ack sender                         *)

\* drbd_endio_read_sec_final: a read of the peer, or of the target for its digest.  A
\* disk whose read failed stays (on-io-error pass_on).
EndRead(n, r) ==
  /\ r.at = "disk" /\ (~is_write(r) \/ Has(r, "CSUM"))
  /\ \E err \in BOOLEAN :
       /\ err => n \in budget.readerr
       /\ reqs' = [reqs EXCEPT ![n] = (@ \ {r}) \cup
                     {[Set(r, IF err THEN {"WAS_ERROR"} ELSE {}) EXCEPT !.at = "work", !.ver = Read(n, r)]}]
       /\ budget' = IF err THEN [budget EXCEPT !.readerr = @ \ {n}] ELSE budget
  /\ backing' = [backing EXCEPT ![n] = @ - 1]
  /\ UNCHANGED <<writes, link, disk, oos, data, ctrl, dagtag, repl, pending, unacked, sending,
                 rs, ov, drain>>

\* drbd_unmerge_discard: the requests that were merged into r
Merged(rq, r) ==
  LET k == Pos(rs, r.id)
      R(j) == ReqOf(rq, rs.list[j])
      in(j) == Has(R(j), "TRIM") /\ R(j).b >= r.b /\ R(j).b + R(j).n <= r.b + r.n
  IN  {R(j) : j \in {i \in k + 1 .. Len(rs.list) : \A h \in k + 1 .. i : in(h)}}

\* drbd_endio_write_sec_final
EndWrite(n, r) ==
  LET done == {r} \cup (IF Has(r, "TRIM") THEN Merged(reqs[n], r) ELSE {})
  IN  /\ r.at = "disk" /\ r.type \in {PEER_WRITE, RESYNC_WRITE} /\ ~Has(r, "CSUM")
      /\ disk' = [disk EXCEPT ![n] = [b \in Blocks |->
                    IF b \in BlocksOf(r) THEN Max({x.ver[b] : x \in done}) ELSE @[b]]]
      /\ reqs' = [reqs EXCEPT ![n] = (@ \ done) \cup {[x EXCEPT !.at = "done"] : x \in done}]
      /\ backing' = IF r.type = RESYNC_WRITE THEN [backing EXCEPT ![n] = @ - 1] ELSE backing
      /\ UNCHANGED <<budget, writes, link, oos, data, ctrl, dagtag, repl, pending, unacked, sending, rs,
                     ov, drain>>

\* drbd_request_endio
EndLocal(n, r) ==
  LET s == [Set(r, {"BACKING_COMPLETED"}) EXCEPT !.at = "kept"]
  IN  /\ r.at = "disk" /\ r.type = LOCAL_WRITE
      /\ disk' = [disk EXCEPT ![n] = Written(n, r)]
      /\ CompleteIfDone(n, release_conflicts((reqs[n] \ {r}) \cup {s}, s), s)
      /\ UNCHANGED <<budget, writes, link, data, ctrl, dagtag, repl, pending, unacked, backing, sending,
                     rs, ov, drain>>

\* w_e_end_rsdata_req and drbd_rs_reply
EndRsdataReq(r) ==
  LET cancel == ~Connected
      equal == Has(r, "HAS_DIGEST") /\ r.dig = Digest(r.ver, r)
      failed == Has(r, "WAS_ERROR")
      zero == Has(r, "THIN") /\ \A b \in BlocksOf(r) : Val(r.ver[b]) = 0
      reply == ~cancel /\ ~failed /\ ~equal
      s == [Set(r, {"READY_TO_SEND"}) EXCEPT !.at = "sending", !.ver = NoData, !.dig = <<>>]
  IN  /\ r.type = RESYNC_READ /\ r.at = "work"
      /\ unacked' = [unacked EXCEPT ![Source] = @ - 1]
      /\ reqs' = [reqs EXCEPT ![Source] = IF reply THEN (@ \ {r}) \cup {s} ELSE remove_and_free(@, r)]
      /\ data' = IF reply THEN Send(data, Source, Target,
                                    [Packet(IF zero THEN "Deallocated" ELSE "Reply", r) EXCEPT !.ver = r.ver])
                 ELSE data
      /\ pending' = [pending EXCEPT ![Source] = IF reply THEN @ + 1 ELSE @]
      /\ sending' = IF reply THEN sending + r.n ELSE sending
      /\ ctrl' = IF cancel \/ reply THEN ctrl
                 ELSE Send(ctrl, Source, Target, Packet(IF failed THEN "NegReply" ELSE "IsInSync", r))
      /\ oos' = IF ~cancel /\ ~failed /\ equal THEN [oos EXCEPT ![Source][Target] = @ \ BlocksOf(r)] ELSE oos
      /\ UNCHANGED <<budget, writes, link, disk, dagtag, repl, backing, rs, ov, drain>>

\* w_e_send_csum.  If its allocation fails the connection is lost as well: LoseLink
SendCsum(r) ==
  LET s == Clear([Set(r, {"HAS_DIGEST"}) EXCEPT !.at = "wait", !.dig = Digest(r.ver, r), !.ver = NoData],
                 {"CSUM"})
      st == [Here(Target) EXCEPT !.rq = (@ \ {r}) \cup {s}, !.backing = @ + 1]
  IN  /\ r.type = RESYNC_WRITE /\ r.at = "work"
      /\ Becomes(Target, IF ~Connected \/ repl[Target] # "SyncTarget" \/ Has(r, "WAS_ERROR")
                         THEN FreeReq(Here(Target), r) ELSE ConflictSend(st, s), data)
      /\ UNCHANGED <<budget, writes, link, disk, oos, ctrl, dagtag, repl, sending, ov, drain>>

\* w_e_end_ov_req
EndOvReq(r) ==
  LET cancel == ~Connected
      skip == Has(r, "CONFLICT")
      reply == ~cancel /\ ~skip
  IN  /\ r.type = OV_READ_TARGET /\ r.at = "work"
      /\ unacked' = [unacked EXCEPT ![Target] = @ - 1]
      /\ reqs' = [reqs EXCEPT ![Target] =
                    IF reply THEN (@ \ {r}) \cup {[Set(r, {"READY_TO_SEND"}) EXCEPT !.at = "kept", !.ver = NoData]}
                    ELSE remove_and_free(@, r)]
      /\ ov' = IF ~cancel /\ skip THEN [ov EXCEPT ![Target] = @ - 1] ELSE ov
      /\ ctrl' = IF ~cancel /\ skip THEN Send(ctrl, Target, Source, Packet("Cancel", r)) ELSE ctrl
      /\ pending' = [pending EXCEPT ![Target] = IF reply THEN @ + 1 ELSE @]
      /\ data' = IF reply THEN Send(data, Target, Source, [Packet("OvReply", r) EXCEPT
                                      !.dig = IF Has(r, "WAS_ERROR") THEN <<>> ELSE Digest(r.ver, r),
                                      !.dep = find_current_dagtag(Target)])
                 ELSE data
      /\ UNCHANGED <<budget, writes, link, disk, oos, dagtag, repl, backing, sending, rs, drain>>

\* w_e_end_ov_reply
EndOvReply(r) ==
  LET cancel == ~Connected
      skip == Has(r, "CONFLICT")
      differ == ~skip /\ (Has(r, "WAS_ERROR") \/ r.dig # Digest(r.ver, r))
  IN  /\ r.type = OV_READ_SOURCE /\ r.at = "work"
      /\ unacked' = [unacked EXCEPT ![Source] = @ - 1]
      /\ reqs' = [reqs EXCEPT ![Source] = remove_and_free(@, r)]
      /\ oos' = IF ~cancel /\ differ THEN [oos EXCEPT ![Source][Target] = @ \cup BlocksOf(r)] ELSE oos
      /\ ov' = IF cancel THEN ov ELSE [ov EXCEPT ![Source] = @ - 1]
      /\ ctrl' = IF cancel THEN ctrl
                 ELSE Send(ctrl, Source, Target, [Packet("OvResult", r) EXCEPT
                             !.set = IF differ THEN {"OUT_OF_SYNC"} ELSE {}])
      /\ UNCHANGED <<budget, writes, link, disk, data, dagtag, repl, pending, backing, sending, rs, drain>>

\* e_end_resync_block
EndResyncBlock(r) ==
  LET bs == r.b .. r.b + r.rn - 1
      st == [Here(Target) EXCEPT !.unacked = @ - 1,
               !.rq = IF Has(r, "SUBMITTED") THEN remove_interval(@, r, r) ELSE @]
  IN  /\ r.type = RESYNC_WRITE /\ r.at = "done"
      /\ oos' = [oos EXCEPT ![Target][Source] = @ \ bs]
      /\ ctrl' = Send(ctrl, Target, Source, Packet("RSWriteAck", r))
      /\ Becomes(Target, ResyncComplete(st, Clear(r, {"TREE"})), data)
      /\ UNCHANGED <<budget, writes, link, disk, dagtag, repl, sending, ov, drain>>

------------------------------------------------------------------------------
(* drbd_do_submit_conflict, in any order                                   *)

SubmitPeerRead(n, r) ==
  LET rest == reqs[n] \ {r}
      s == Submitted(rest, r)
      free == Has(r, "CANCELED") /\ s.at = "wait"       \* drbd_cleanup_peer_read
  IN  /\ reqs' = [reqs EXCEPT ![n] = IF free THEN remove_and_free(@, r) ELSE rest \cup {s}]
      /\ unacked' = [unacked EXCEPT ![n] = IF free THEN @ - 1 ELSE @]
      /\ backing' = [backing EXCEPT ![n] = IF free THEN @ - 1 ELSE @]
      /\ UNCHANGED <<budget, writes, link, disk, oos, data, ctrl, dagtag, repl, pending, sending, rs, ov,
                     drain>>

\* drbd_conflict_submit_peer_write
SubmitPeerWrite(n, r) ==
  LET rest == reqs[n] \ {r}
      s == Clear(r, {"QUEUED"})
  IN  /\ \E rq \in Enters(rest, s, [Set(s, {"SUBMITTED"}) EXCEPT !.at = "disk"]) :
           reqs' = [reqs EXCEPT ![n] = rq]
      /\ UNCHANGED <<budget, writes, link, disk, oos, data, ctrl, dagtag, repl, pending, unacked, backing,
                     sending, rs, ov, drain>>

SubmitConflict(n, r) ==
  /\ Has(r, "QUEUED")
  /\ \/ /\ r.type = RESYNC_WRITE
        /\ Becomes(n, IF Has(r, "READY_TO_SEND") THEN ConflictSubmit(Here(n), r) ELSE ConflictSend(Here(n), r),
                   data)
        /\ UNCHANGED <<budget, writes, link, disk, oos, ctrl, dagtag, repl, sending, ov, drain>>
     \/ r.type = RESYNC_READ /\ SubmitPeerRead(n, r)
     \/ r.type = PEER_WRITE /\ SubmitPeerWrite(n, r)
     \/ /\ r.type = LOCAL_WRITE
        /\ drbd_conflict_submit_write(n, r)
        /\ UNCHANGED <<budget, writes, link, disk, oos, data, ctrl, repl, pending, unacked, backing,
                       sending, rs, ov, drain>>

------------------------------------------------------------------------------
(* A connection is lost                                                    *)

\* A Primary n no longer waits for p; what it has not heard of is not in sync
TlClear(n, p) ==
  LET gone == {[r EXCEPT !.unsent = @ \ {p}, !.pend = @ \ {p}] : r \in {x \in reqs[n] : x.type = LOCAL_WRITE}}
      left == {r \in gone : ~Completed(r)}
      complete == gone \ left
      others == {x \in reqs[n] : x.type # LOCAL_WRITE}
  IN  [rq |-> FoldSet(LAMBDA r, q : release_conflicts(q, r), others \cup left, complete),
       marked |-> [q \in Nodes |->
                     UNION {BlocksOf(r) : r \in {x \in complete : q \notin x.ok \cup {n} /\ q \in budget.nodes}}],
       synced |-> [q \in Nodes |-> UNION {BlocksOf(r) : r \in {x \in complete : q \in x.sis}}]]

LoseLink(n, p) ==
  LET t == budget.primary
      c == TlClear(t, IF t = n THEN p ELSE n)
  IN  /\ {n, p} \in budget.lose \cap link
      /\ link' = link \ {{n, p}}
      /\ data' = LET d == [data EXCEPT ![n][p] = <<>>, ![p][n] = <<>>]
                 IN  IF {n, p} = {Source, Third} /\ t = Third /\ {t, Target} \in link
                     THEN [d EXCEPT ![t][Target] = Append(@, Note("Weak"))] ELSE d
      /\ ctrl' = [ctrl EXCEPT ![n][p] = <<>>, ![p][n] = <<>>]
      /\ reqs' = IF t \in {n, p} THEN [reqs EXCEPT ![t] = c.rq] ELSE reqs
      /\ oos' = IF t \in {n, p} THEN [oos EXCEPT ![t] = [q \in Nodes |-> (@[q] \cup c.marked[q]) \ c.synced[q]]]
                ELSE oos
      /\ repl' = IF {n, p} = Pair THEN [repl EXCEPT ![n] = "Off", ![p] = "Off"] ELSE repl
      /\ drain' = IF {n, p} = Pair THEN [drain EXCEPT ![n] = "dagtag", ![p] = "dagtag"]
                  ELSE [drain EXCEPT ![Third] = "lost"]
      /\ UNCHANGED <<budget, writes, disk, dagtag, pending, unacked, backing, sending, rs, ov>>

\* free_dagtag_wait_requests
DrainDagtag(n) ==
  LET waiting == {r \in reqs[n] : r.at = "dagtag"}
  IN  /\ drain[n] = "dagtag"
      /\ reqs' = [reqs EXCEPT ![n] = @ \ waiting]
      /\ unacked' = [unacked EXCEPT ![n] = @ - Cardinality(waiting)]
      /\ drain' = [drain EXCEPT ![n] = "cancel"]
      /\ UNCHANGED <<budget, writes, link, disk, oos, data, ctrl, dagtag, repl, pending, backing, sending,
                     rs, ov>>

\* what the sender of n still has to do for the connection
SenderIdle(n) ==
  /\ \A r \in reqs[n] : r.at \notin {"work", "sending"}
  /\ n = Target => ~rs.loop.on

\* mutant: requests that wait for their reply are canceled as well
cancel_waiting(rq) ==
  {IF is_resync(r) /\ Has(r, "TREE") /\ ~Has(r, "SUBMITTED")
   THEN Set(r, {"CANCELED", "QUEUED"}) ELSE r : r \in rq}

\* drbd_cancel_conflicting_resync_requests
cancel_conflicting(rq) ==
  {IF /\ is_resync(r) /\ Has(r, "TREE") /\ ~Has(r, "SUBMITTED")
      /\ ~(Has(r, "READY_TO_SEND") /\ ~Has(r, "RECEIVED"))
   THEN Set(r, {"CANCELED", "QUEUED"}) ELSE r : r \in rq}

\* drbd_flush_workqueue, drbd_last_resync_request, drbd_cancel_conflicting_resync_requests
DrainCancel(n) ==
  /\ drain[n] = "cancel" /\ SenderIdle(n)
  /\ LET st == IF n = Target THEN last_resync_request(Here(n), TRUE) ELSE Here(n)
     IN  Becomes(n, [st EXCEPT !.rq = cancel_conflicting(@)], data)
  /\ drain' = [drain EXCEPT ![n] = "wait"]
  /\ UNCHANGED <<budget, writes, link, disk, oos, ctrl, dagtag, repl, sending, ov>>

\* what free_waiting_resync_requests takes off the lists of n
OnLists(n) == {r \in reqs[n] : is_resync(r) \/ is_verify(r)}
\* and what it expects of them
WaitsForReply(r) == Has(r, "READY_TO_SEND") /\ ~Has(r, "RECEIVED") /\ ~Has(r, "TRIM")

\* the rest of drain_resync_activity, once backing_ee_cnt is 0.  drbd_finish_peer_reqs
\* runs the callbacks of EndBlock and EndResyncBlock.
DrainFree(n) ==
  LET waiting == {r \in OnLists(n) : ~Has(r, "COMPLETED")}
  IN  /\ drain[n] = "wait" /\ SenderIdle(n)
      /\ backing[n] = 0
      /\ \A r \in OnLists(n) : r.at # "done"
      /\ reqs' = [reqs EXCEPT ![n] = FoldSet(LAMBDA r, q : IF is_verify(r) THEN q ELSE release_conflicts(q, r),
                                             @ \ OnLists(n), {r \in waiting : Has(r, "TREE")})]
      /\ pending' = [pending EXCEPT ![n] = @ - Cardinality(waiting)]
      /\ sending' = IF n = Source
                    THEN sending - FoldSet(LAMBDA r, k : k + r.n, 0, {r \in waiting : r.type = RESYNC_READ})
                    ELSE sending
      /\ rs' = IF n = Requester THEN [rs EXCEPT !.list = <<>>, !.received = 0, !.discard = 0, !.failed = 0]
               ELSE rs
      /\ drain' = [drain EXCEPT ![n] = "down"]
      /\ UNCHANGED <<budget, writes, link, disk, oos, data, ctrl, dagtag, repl, unacked, backing, ov>>

\* cancel_dagtag_dependent_requests on Source for the lost connection with Third: the
\* first of dagtag_wait_ee
CancelDependents ==
  LET waiting == {r \in reqs[Source] : r.at = "dagtag" /\ r.dep[1] = Third}
      first == {r \in waiting : \A s \in waiting : r.id <= s.id}
  IN  /\ drain[Third] = "lost"
      /\ reqs' = [reqs EXCEPT ![Source] = @ \ first]
      /\ ctrl' = IF first = {} THEN ctrl
                 ELSE Send(ctrl, Source, Target, Packet("Cancel", CHOOSE r \in first : TRUE))
      /\ drain' = [drain EXCEPT ![Third] = "down"]
      /\ UNCHANGED <<budget, writes, link, disk, oos, data, dagtag, repl, pending, unacked, backing,
                     sending, rs, ov>>

\* The Primary tells Target that Source is weak: check_resync_source, which waits for
\* the sender and then for nothing, as repl_state is L_ESTABLISHED already
ReceiveWeak ==
  /\ data[Third][Target] # <<>> /\ Head(data[Third][Target]).t = "Weak"
  /\ SenderIdle(Target)
  /\ LET d == [data EXCEPT ![Third][Target] = Tail(@)]
     IN  IF repl[Target] = "SyncTarget"
         THEN /\ repl' = [repl EXCEPT ![Target] = "Established"]
              /\ reqs' = [reqs EXCEPT ![Target] = cancel_conflicting(@)]
              /\ data' = Send(d, Target, Source, Note("State"))
         ELSE data' = d /\ UNCHANGED <<repl, reqs>>
  /\ UNCHANGED <<budget, writes, link, disk, oos, ctrl, dagtag, pending, unacked, backing, sending, rs,
                 ov, drain>>

------------------------------------------------------------------------------
Streams == [n \in Nodes |-> [p \in Nodes |-> <<>>]]
Init ==
  /\ budget \in Scenarios
  /\ writes = 0
  /\ link = {{n, p} : n, p \in budget.nodes} \ {{n} : n \in Nodes}
  /\ disk = [n \in Nodes |-> [b \in Blocks |-> IF n = Target /\ b \in budget.stale THEN 0 ELSE 1]]
  /\ oos = [n \in Nodes |-> [p \in Nodes |->
              IF Target \in {n, p} /\ n # p /\ {n, p} \subseteq budget.nodes THEN budget.marked ELSE {}]]
  /\ reqs = [n \in Nodes |-> {}]
  /\ data = Streams /\ ctrl = Streams
  /\ dagtag = [n \in Nodes |-> [p \in Nodes |-> 0]]
  /\ repl = (Source :> (IF budget.verify THEN "VerifyS" ELSE IF budget.late > 0 THEN "WFBitMapS" ELSE "SyncSource"))
            @@ (Target :> (IF budget.verify THEN "VerifyT" ELSE "SyncTarget")) @@ (Third :> "Off")
  /\ pending = [n \in Pair |-> 0] /\ unacked = [n \in Pair |-> 0] /\ backing = [n \in Pair |-> 0]
  /\ sending = 0
  /\ rs = [nr |-> 0, list |-> <<>>, received |-> 0, discard |-> 0, next |-> 0, unsucc |-> FALSE,
           inflight |-> 0, sectin |-> 0, failed |-> 0, loop |-> NoLoop]
  /\ ov = [n \in Pair |-> NBlocks]
  /\ drain = [n \in Nodes |-> "up"]

Idle ==
  /\ writes = Len(budget.writes) /\ \A n \in Nodes : reqs[n] = {}
  /\ \A n \in Pair : repl[n] = "Established" \/ drain[n] = "down"
  /\ \A n, p \in Nodes : data[n][p] = <<>> /\ ctrl[n][p] = <<>>
Finished == Idle /\ UNCHANGED vars

Next ==
  \/ AppWrite
  \/ \E n, p \in Nodes : SendWrite(n, p) \/ ReceiveData(n, p) \/ GotBlockAck(n, p)
  \/ \E n, p \in Nodes : n < p /\ LoseLink(n, p)
  \/ \E n \in Nodes : \E r \in reqs[n] :
       EndBlock(n, r) \/ EndWrite(n, r) \/ EndLocal(n, r) \/ SubmitConflict(n, r)
  \/ \E n \in Pair : \E r \in reqs[n] : EndRead(n, r)
  \/ \E n \in Pair :
       GotNegRSDReply(n) \/ VerifyFinished(n) \/ DrainDagtag(n) \/ DrainCancel(n) \/ DrainFree(n)
  \/ \E r \in reqs[Source] : EndRsdataReq(r) \/ MarkSent(r) \/ EndOvReply(r)
  \/ \E r \in reqs[Target] : SendCsum(r) \/ EndOvReq(r) \/ EndResyncBlock(r)
  \/ ResyncFinished \/ ResyncTimer \/ RequestDone \/ RequestNext \/ RequestFails
  \/ ReceiveRSDataReply \/ ReceiveDeallocated \/ GotIsInSync \/ ReceiveRequest \/ GotRSWriteAck
  \/ ReceiveState \/ StartSource
  \/ OvRequest \/ ReceiveOvRequest \/ ReceiveOvReply \/ GotOVResult
  \/ CancelDependents \/ ReceiveWeak \/ Finished

Spec == Init /\ [][Next]_vars

------------------------------------------------------------------------------
(* Properties                                                              *)

Versions == 0 .. 1 + Len(budget.writes)
\* The state has its type: nothing is in flight on a lost connection, the requests of
\* the SyncTarget are the ones on resync_requests
TypeOK ==
  /\ writes \in 0 .. Len(budget.writes)
  /\ disk \in [Nodes -> [Blocks -> Versions]]
  /\ oos \in [Nodes -> [Nodes -> SUBSET Blocks]]
  /\ \A n, p \in Nodes : {n, p} \notin link => data[n][p] = <<>> /\ ctrl[n][p] = <<>>
  /\ \A n \in Nodes : \A r \in reqs[n] :
       r.type \in IntervalTypes /\ r.at \in {"wait", "dagtag", "disk", "work", "sending", "done", "kept"}
  /\ {r.id : r \in {x \in reqs[Target] : x.type = RESYNC_WRITE}} = ToSet(rs.list)
  /\ \A n \in Pair : pending[n] \in Nat /\ unacked[n] \in Nat /\ backing[n] \in Nat
  /\ sending \in Nat

\* Source is a weak node: the Primary lost it.  Its resync is aborted, and what it has
\* sent until then is not trusted
Weak == Third \in budget.nodes /\ budget.primary = Third /\ {Source, Third} \notin link

\* A resync never replaces data by older data: whatever the order in which the reply of
\* the source, the writes of the application and their replicas reach a disk
\* (drbd_should_defer_to_resync, find_current_dagtag, drbd_peer_resync_read)
NewestWins == [][Weak \/ \A n \in Nodes, b \in Blocks : disk'[n][b] >= disk[n][b]]_vars

\* The backing disk never sees two requests for the same block at once of which one is a
\* write, but for the reads of a verify and of a checksum, which may be torn
\* (drbd_find_conflict)
DiskExclusive ==
  \A n \in Nodes : \A r, s \in {x \in reqs[n] : x.at = "disk" /\ ~is_verify(x) /\ ~Has(x, "CSUM")} :
    r # s /\ Overlap(r, s) => ~is_write(r) /\ ~is_write(s)

\* A write of block b is under way
Writing(b) ==
  \/ \E n \in Nodes : \E r \in reqs[n] : r.type \in {LOCAL_WRITE, PEER_WRITE} /\ b \in BlocksOf(r)
  \/ \E n, p \in Nodes : \E k \in 1 .. Len(data[n][p]) : data[n][p][k].t = "Data" /\ data[n][p][k].b = b
Differ(n, p, b) == Val(disk[n][b]) # Val(disk[p][b])

\* A bit that is clear vouches for the block: while two nodes are connected on either
\* of them, and when the connection is lost, if neither has it set, so that the bitmap
\* exchange of the next handshake finds every difference (drbd_set_in_sync in
\* e_end_resync_block, got_RSWriteAck, got_IsInSync, drbd_rs_reply, e_end_block)
ClearMeansEqual ==
  \A n, p \in budget.nodes : \A b \in Blocks :
    n # p /\ ~budget.verify /\ ~Weak /\ ~Writing(b) /\ Differ(n, p, b) =>
      /\ b \in oos[n][p] \cup oos[p][n]
      /\ {n, p} \in link => b \in oos[n][p] \cap oos[p][n]

\* Every answer finds the request that it is for; otherwise find_resync_request says
\* "Unexpected resync reply" and the connection is dropped.  And rs_in_flight, less what
\* has come in (rs_sect_in), is the size of the requests that are not answered: otherwise
\* make_resync_request never jumps back after P_RS_CANCEL, or does so with requests in flight
AnswerExpected ==
  /\ \A n \in Pair : \A m \in {Head(s) : s \in {data[Other(n)][n]} \ {<<>>}} :
       /\ m.t \in {"Reply", "Deallocated"} => find_resync_request(n, {RESYNC_WRITE}, m) # {}
       /\ m.t = "OvReply" => find_resync_request(n, {OV_READ_SOURCE}, m) # {}
  /\ \A n \in Pair : \A m \in {Head(s) : s \in {ctrl[Other(n)][n]} \ {<<>>}} :
       /\ m.t = "IsInSync" => find_resync_request(n, {RESYNC_WRITE}, m) # {}
       /\ m.t \in {"Cancel", "NegReply"} => find_resync_request(n, {RESYNC_WRITE, OV_READ_SOURCE}, m) # {}
       /\ m.t = "RSWriteAck" => find_resync_request(n, {RESYNC_READ}, m) # {}
       /\ m.t = "OvResult" => find_resync_request(n, {OV_READ_TARGET}, m) # {}
  /\ Connected /\ ~rs.loop.on /\ repl[Target] = "SyncTarget" =>
       rs.inflight - rs.sectin =
         FoldSet(LAMBDA r, k : k + r.rn, 0,
                 {r \in reqs[Target] : r.type = RESYNC_WRITE /\ r.flags \cap {"RECEIVED", "TRIM", "COMPLETED"} = {}})

\* drain_resync_activity frees only requests that wait for a reply, as
\* free_waiting_resync_requests asserts, and when it is through the counters of the
\* connection are zero and no request for the peer is left: the assertion of
\* cleanup_resync_leftovers, and what do_start_resync waits for the next time
DrainedClean ==
  /\ \A n \in Pair : drain[n] = "wait" /\ SenderIdle(n) /\ backing[n] = 0 =>
       \A r \in OnLists(n) : r.at # "done" /\ ~Has(r, "COMPLETED") => WaitsForReply(r)
  /\ \A n \in Pair : drain[n] = "down" =>
       /\ pending[n] = 0 /\ unacked[n] = 0 /\ backing[n] = 0
       /\ n = Source => sending = 0
       /\ OnLists(n) = {}

\* A verify marks no block that was in sync, whatever is written meanwhile, and marks on
\* both nodes every block that differed and was not written
VerifyTruth ==
  budget.verify =>
    /\ \A n \in Pair : oos[n][Other(n)] \subseteq budget.stale \/ ~Connected
    /\ Idle /\ Connected =>
         \A n \in Pair, b \in Blocks \ ToSet(budget.writes) : Differ(Source, Target, b) => b \in oos[n][Other(n)]

\* A completed request is kept on resync_requests only behind one that is not, "until
\* the corresponding peers-in-sync has been scheduled" (drbd_resync_request_complete)
CompletedScheduled ==
  rs.list # <<>> => ~Has(ReqOf(reqs[Target], Head(rs.list)), "COMPLETED")

\* Requests that wait for a dagtag on a lost connection are cancelled
NoHopelessWait ==
  drain[Third] = "down" => \A r \in reqs[Source] : ~(r.at = "dagtag" /\ r.dep[1] = Third)
=============================================================================

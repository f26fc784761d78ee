---------------------------- MODULE DrbdInterval ----------------------------
(***************************************************************************)
(* The conflicts between the requests of one device, as decided with the   *)
(* interval tree: drbd_interval.h, the inline functions of drbd_int.h and  *)
(* drbd_release_conflicts.  A request is a record; of its fields this      *)
(* module reads                                                            *)
(*    type    the INTERVAL_ type, see below                                *)
(*    peer    the peer device it belongs to (for a local write: the node)  *)
(*    b, n    the first block and the number of blocks                     *)
(*    flags   the INTERVAL_ flags that are set, "TREE" while the interval  *)
(*            is in the tree, and the EE_ flags                            *)
(* The tree of a device is the set of its requests that have "TREE".       *)
(***************************************************************************)
EXTENDS Integers, FiniteSets, FiniteSetsExt

LOCAL_WRITE == "LocalWrite"
PEER_WRITE == "PeerWrite"
RESYNC_WRITE == "ResyncWrite"         \* on the L_SYNC_TARGET
RESYNC_READ == "ResyncRead"           \* on the L_SYNC_SOURCE
OV_READ_SOURCE == "VerifySource"
OV_READ_TARGET == "VerifyTarget"
IntervalTypes == {LOCAL_WRITE, PEER_WRITE, RESYNC_WRITE, RESYNC_READ, OV_READ_SOURCE, OV_READ_TARGET}

is_write(i) == i.type \in {LOCAL_WRITE, PEER_WRITE, RESYNC_WRITE}
is_resync(i) == i.type \in {RESYNC_WRITE, RESYNC_READ}
is_verify(i) == i.type \in {OV_READ_SOURCE, OV_READ_TARGET}

Has(i, f) == f \in i.flags
Set(i, fs) == [i EXCEPT !.flags = @ \cup fs]
Clear(i, fs) == [i EXCEPT !.flags = @ \ fs]
BlocksOf(i) == i.b .. i.b + i.n - 1
Overlap(i, j) == BlocksOf(i) \cap BlocksOf(j) # {}
Tree(reqs) == {i \in reqs : Has(i, "TREE")}

same_peer(interval, i) == interval.type # LOCAL_WRITE /\ interval.peer = i.peer

\* the reply has arrived, or comes from another peer than the write
should_defer_to_resync(interval, i) ==
  is_resync(i) /\ (Has(i, "RECEIVED") \/ ~same_peer(interval, i))

\* mutant: a write of the application does not wait for a resync request that is
\* not submitted yet
ShouldDeferToSubmitted(interval, i, deferToResync) ==
  \/ Has(i, "SUBMITTED")
  \/ interval.type = RESYNC_WRITE /\ i.type = RESYNC_WRITE /\ Has(i, "READY_TO_SEND")

should_defer_to_interval(interval, i, deferToResync) ==
  \/ Has(i, "SUBMITTED")
  \/ deferToResync /\ should_defer_to_resync(interval, i)
  \/ interval.type = RESYNC_WRITE /\ i.type = RESYNC_WRITE /\ Has(i, "READY_TO_SEND")

\* the intervals that interval has to look at.  A write of the application is
\* exclusive until completed, anything else until the backing disk is done.
Considered(reqs, interval) ==
  {i \in Tree(reqs) :
     /\ <<i.type, i.id, i.peer>> # <<interval.type, interval.id, interval.peer>>
     /\ Overlap(i, interval)
     /\ ~Has(i, IF interval.type = LOCAL_WRITE THEN "COMPLETED" ELSE "BACKING_COMPLETED")
     /\ should_defer_to_interval(interval, i, interval.type \in {LOCAL_WRITE, PEER_WRITE})}

\* mutant: nothing waits for the writes of the same peer
find_conflict_other(reqs, interval, ignoreSamePeer) ==
  {i \in Considered(reqs, interval) :
     /\ ~is_verify(i)
     /\ is_write(interval) \/ i.type # RESYNC_READ
     /\ ~(i.type = PEER_WRITE /\ same_peer(interval, i))}

\* drbd_find_conflict: what interval has to wait for.  ignoreSamePeer is
\* CONFLICT_FLAG_IGNORE_SAME_PEER.
find_conflict(reqs, interval, ignoreSamePeer) ==
  {i \in Considered(reqs, interval) :
     /\ ~is_verify(i)
     /\ is_write(interval) \/ i.type # RESYNC_READ
     /\ ~(ignoreSamePeer /\ i.type = PEER_WRITE /\ same_peer(interval, i))}

Marked(reqs, met) == (reqs \ met) \cup {Set(i, {"CONFLICT"}) : i \in met}

\* mutant: a verify does not notice the write
mark_verify_not(reqs, interval) == reqs

\* A write that is submitted has marked the verify requests it meets
mark_verify(reqs, interval) ==
  IF is_write(interval) THEN Marked(reqs, {i \in Considered(reqs, interval) : is_verify(i)}) ELSE reqs

\* One that has to wait has marked those that it met before the first conflict.  The
\* tree is in the order of the first block, then of the address: any
mark_verify_before(reqs, interval) ==
  LET met == {i \in Considered(reqs, interval) : is_verify(i)}
      first == Min({i.b : i \in find_conflict(reqs, interval, FALSE)})
  IN  {Marked(reqs, {i \in met : i.b < first} \cup some) : some \in SUBSET {i \in met : i.b = first}}

\* drbd_release_conflicts: queue what may have waited for interval r
release_conflicts(reqs, r) ==
  LET waiting == {i \in Tree(reqs) :
                    /\ Overlap(i, r)
                    /\ ~Has(i, "SUBMITTED")
                    /\ ~(Has(i, "READY_TO_SEND") /\ ~Has(i, "RECEIVED"))
                    /\ ~Has(i, "QUEUED") /\ ~is_verify(i)}
  IN  (reqs \ waiting) \cup {Set(i, {"QUEUED"}) : i \in waiting}

\* drbd_remove_peer_req_interval, for a request that becomes s
remove_interval(reqs, r, s) ==
  LET left == (reqs \ {r}) \cup {Clear(s, {"TREE"})}
  IN  IF is_verify(r) THEN left ELSE release_conflicts(left, r)

\* the same, and drbd_free_peer_req
remove_and_free(reqs, r) ==
  IF is_verify(r) THEN reqs \ {r} ELSE release_conflicts(reqs \ {r}, r)
=============================================================================

---------------------------- MODULE MCDrbdResync ----------------------------
(***************************************************************************)
(* Two blocks on nodes 1, the source, and 2, the target; node 3 may be     *)
(* connected with both.  What may happen in a behaviour is a scenario.     *)
(* Its fields are                                                          *)
(*    nodes, primary  the nodes that run, and the one that writes          *)
(*    writes          the block of each of its writes                      *)
(*    val             what is in a block of version 0, 1, 2, ...           *)
(*    stale, marked   the blocks that are old on the target, and the ones  *)
(*                    with a bit                                           *)
(*    number          drbd_rs_number_requests                              *)
(*    gran            discard granularity, 0: none (rs-discard-granularity)*)
(*    csum, verify    checksum based resync, an online verify              *)
(*    readerr         the nodes of which a read fails, once                *)
(*    nomem           resync requests that cannot be allocated             *)
(*    late            requests that come before it is L_SYNC_SOURCE        *)
(*    lose            connections that may be lost                         *)
(***************************************************************************)
EXTENDS DrbdResync

Calm == [nodes |-> {1, 2}, primary |-> 1, writes |-> <<>>, val |-> <<9, 1, 2, 3>>, stale |-> {0},
         marked |-> {0}, number |-> 1, gran |-> 0, csum |-> FALSE, readerr |-> {}, nomem |-> 0, verify |-> FALSE,
         late |-> 0, lose |-> {}]
With3 == [Calm EXCEPT !.nodes = 1..3, !.primary = 3, !.writes = <<0>>]
\* the application writes the block that is resynced, on each of the nodes
Written1 == {[Calm EXCEPT !.writes = <<0, 0>>], [Calm EXCEPT !.writes = <<0>>, !.primary = 2], With3}
\* and a connection is lost
Lost == {[Calm EXCEPT !.writes = <<0>>, !.lose = {{1, 2}}], [With3 EXCEPT !.lose = {{1, 2}}],
         [With3 EXCEPT !.lose = {{1, 3}}]}
\* one request for two blocks, of which one is written
Long == {[Calm EXCEPT !.writes = <<1>>, !.stale = {0, 1}, !.marked = {0, 1}, !.number = 2, !.primary = p] :
           p \in 1..2}
\* with digests: the write brings back the old content
Checksums == {[Calm EXCEPT !.csum = TRUE, !.writes = <<0>>, !.val = <<5, 1, 5>>, !.primary = p,
                           !.nodes = {1, 2, p}] : p \in 1..3}
ChecksumsLost == [Calm EXCEPT !.csum = TRUE, !.lose = {{1, 2}}, !.marked = {0, 1}, !.number = 2]
\* zeroed blocks, merged into one discard
Zeroes == [Calm EXCEPT !.gran = 1, !.stale = {0, 1}, !.marked = {0, 1}, !.number = 2, !.val = <<7, 0, 2, 3>>]
Discards == {[Zeroes EXCEPT !.writes = <<1>>, !.primary = p] : p \in 1..2}
              \cup {[Zeroes EXCEPT !.lose = {{1, 2}}, !.writes = <<1>>, !.primary = 2]}
\* the source starts later, or cannot read the block; the target has no memory
Unsuccessful == {[Calm EXCEPT !.late = 2, !.writes = <<0>>], [Calm EXCEPT !.readerr = {1}],
                 [Zeroes EXCEPT !.nomem = 1]}
\* online verify of a block that is written and one that differs; a read that fails is
\* a difference
Verify == [Calm EXCEPT !.verify = TRUE, !.stale = {1}, !.marked = {}, !.writes = <<0>>]
Verifies == {Verify, [Verify EXCEPT !.primary = 2], [Verify EXCEPT !.nodes = 1..3, !.primary = 3],
             [Verify EXCEPT !.primary = 2, !.lose = {{1, 2}}],
             [Verify EXCEPT !.stale = {0, 1}, !.writes = <<>>, !.readerr = {1, 2}]}

All == Written1 \cup Lost \cup Long \cup Checksums \cup {ChecksumsLost} \cup Discards \cup Unsuccessful
         \cup Verifies

\* Two requests at once, and the first is not answered with data
TwoAtOnce == {[Calm EXCEPT !.readerr = {1}, !.stale = {0, 1}, !.marked = {0, 1}]}
\* The target cannot read a block for its checksum
TargetReadError == {[Calm EXCEPT !.csum = TRUE, !.readerr = {2}]}
\* and the source starts later
TargetReadErrorLate == {[Calm EXCEPT !.csum = TRUE, !.readerr = {2}, !.late = 2, !.stale = {0, 1},
                                     !.marked = {0, 1}, !.number = 2]}
\* Two requests wait for a write of node 3 when its connection with the source is lost
TwoWaiting == {[With3 EXCEPT !.stale = {0, 1}, !.marked = {0, 1}, !.lose = {{1, 3}}]}
\* A merged discard waits for a write when the connection is lost
MergedWaits == {[Zeroes EXCEPT !.lose = {{1, 2}}, !.writes = <<1>>, !.val = <<7, 0, 0>>]}
=============================================================================

---------------------------- MODULE MCDrbdRequest ----------------------------
(***************************************************************************)
(* Instances of DrbdRequest for TLC.                                       *)
(***************************************************************************)
EXTENDS DrbdRequest

OnePeer == {1}
TwoPeers == {1, 2}
ProtoC == [p \in Peers |-> "C"]
ProtoB == [p \in Peers |-> "B"]
ProtoA == [p \in Peers |-> "A"]
ProtoCA == [p \in Peers |-> IF p = 1 THEN "C" ELSE "A"]
TheStateActor == <<"state", 0>>

\* Two writes to different blocks, a read of the second block, a flush, and a
\* third write to the first block.
AllBios == {"b1", "b2", "read", "flush", "b3"}
AllKinds == [b \in Bios |-> IF b \in {"read", "flush"} THEN b ELSE "write"]
TwoBlocks == {"k1", "k2"}
AllBlocks == [b \in Bios |-> IF b \in {"b2", "read"} THEN "k2" ELSE "k1"]

\* Two writes, and nothing fails.
Plain ==
    [peers |-> {1}, bios |-> {"b1", "b2"}, reqs |-> 2, loss |-> 0, mode |-> 0, disk |-> 0, neg |-> 0,
     force |-> FALSE, suspend |-> FALSE, races |-> {}]
TwoConnected == [Plain EXCEPT !.peers = {1, 2}, !.bios = {"b1"}, !.loss = 1]
Loss == [Plain EXCEPT !.loss = 1]
Preempt == [Plain EXCEPT !.races = {"preempt"}]
Suspend == [Loss EXCEPT !.suspend = TRUE]
ModeChanges == [Plain EXCEPT !.mode = 2]
DiskErrors == [Plain EXCEPT !.bios = {"b1", "read"}, !.reqs = 3, !.disk = 1, !.neg = 1]
Abort == [Plain EXCEPT !.peers = {1, 2}, !.bios = {"b1"}, !.disk = 1, !.force = TRUE]
Flush == [Plain EXCEPT !.bios = {"b1", "flush"}]

\* Two writes of one block: of two peers, one with protocol A, or of the latter alone
Overlap == [Plain EXCEPT !.peers = {1, 2}, !.bios = {"b1", "b3"}]
OverlapLost == [Loss EXCEPT !.peers = {2}, !.bios = {"b1", "b3"}, !.neg = 1]

\* The scenarios of the runs.
LossOnly == {Loss}
Everything == {Loss, Preempt, TwoConnected, Suspend, DiskErrors, Abort, Flush, ModeChanges, Overlap,
               OverlapLost}

\* Scenarios in which the code and its comments disagree.
UnsentDagtag == {ModeChanges}
AbortedRead == {[DiskErrors EXCEPT !.neg = 0, !.force = TRUE]}
AbortRace == {[Abort EXCEPT !.races = {"abort"}]}
ResendSize == {[Suspend EXCEPT !.bios = {"b1", "b2", "b3"}, !.reqs = 3]}
ResumeAborted == {[Suspend EXCEPT !.disk = 1, !.force = TRUE]}
ResumeRace == {[Suspend EXCEPT !.races = {"resume"}]}
ReplyRace == {[Plain EXCEPT !.bios = {"b1", "read"}, !.races = {"reply"}]}
NetStates == {[Loss EXCEPT !.neg = 1]}
=============================================================================

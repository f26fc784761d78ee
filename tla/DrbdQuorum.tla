----------------------------- MODULE DrbdQuorum -----------------------------
(***************************************************************************)
(* The vocabulary of DRBD's object states and the quorum calculation of    *)
(* drbd_state.c.  Everything here is an operator on the state one node has *)
(* of itself and of its peers: a record with the fields                    *)
(*    role, disk, have_quorum, members                of the node,          *)
(*    cstate, peer_role, repl, pdsk                   one entry per peer,   *)
(* (DrbdState adds the others).  States are numbers, because the code      *)
(* compares them with < and >.                                             *)
(***************************************************************************)
EXTENDS Integers, FiniteSets

CONSTANTS Nodes,          \* node ids
          Diskless,       \* the nodes configured without a disk (--bitmap=no)
          QuorumSetting,  \* QOU_OFF, QOU_MAJORITY, QOU_ALL or a number of nodes
          MinRedundancy   \* the same for quorum-minimum-redundancy

ASSUME NodesAssumption == IsFiniteSet(Nodes) /\ Nodes \subseteq Nat
ASSUME DisklessAssumption == Diskless \subseteq Nodes

\* enum drbd_disk_state, of the shared headers
D_DISKLESS == 0
D_ATTACHING == 1
D_DETACHING == 2
D_FAILED == 3
D_NEGOTIATING == 4
D_INCONSISTENT == 5
D_OUTDATED == 6
D_UNKNOWN == 7
D_CONSISTENT == 8
D_UP_TO_DATE == 9

\* enum drbd_conn_state, of the shared headers
C_STANDALONE == 0
C_DISCONNECTING == 1
C_UNCONNECTED == 2
C_TIMEOUT == 3
C_NETWORK_FAILURE == 5
C_PROTOCOL_ERROR == 6
C_TEAR_DOWN == 7
C_CONNECTING == 8
C_CONNECTED == 9

\* enum drbd_repl_state, of the shared headers; L_NEGOTIATING and
\* L_NEG_NO_RESULT are values of negotiation_result only
L_NEGOTIATING == 0
L_NEG_NO_RESULT == 1
L_OFF == 9
L_ESTABLISHED == 10
L_STARTING_SYNC_S == 11
L_STARTING_SYNC_T == 12
L_WF_BITMAP_S == 13
L_WF_BITMAP_T == 14
L_WF_SYNC_UUID == 15
L_SYNC_SOURCE == 16
L_SYNC_TARGET == 17
L_VERIFY_S == 18
L_VERIFY_T == 19
L_PAUSED_SYNC_S == 20
L_PAUSED_SYNC_T == 21
L_AHEAD == 22
L_BEHIND == 23

Peers(me) == Nodes \ {me}

\* the values of the quorum options that are no number of nodes
QOU_OFF == 0
QOU_MAJORITY == 512
QOU_ALL == 513

\* mutant: half of the voters are enough
calc_quorum_at_half(setting, voters) ==
  CASE setting = QOU_MAJORITY -> voters \div 2
    [] setting = QOU_ALL -> voters
    [] OTHER -> setting

calc_quorum_at(setting, voters) ==
  CASE setting = QOU_MAJORITY -> voters \div 2 + 1
    [] setting = QOU_ALL -> voters
    [] OTHER -> setting

\* The peers this node has no replication link with, sorted by what it knows
\* of them.  had: have_quorum[NOW]; only a node that has quorum may conclude
\* that a node outside members has none.
Missing(me, s) == {p \in Peers(me) \ Diskless : s.repl[p] = L_OFF}
OutdatedPeers(me, s) ==
  {p \in Missing(me, s) :
     \/ s.pdsk[p] <= D_OUTDATED
     \/ s.disk > D_ATTACHING /\ p \in s.mdout}
QuorumlessPeers(me, s, had) ==
  {p \in Missing(me, s) \ OutdatedPeers(me, s) : had /\ p \notin s.members}

\* A peer with a link counts by its disk.  A node that has a disk counts a
\* configured-diskless peer as diskless and one that lost its disk as present.
LinkedPeers(me, s) == {p \in Peers(me) : s.repl[p] # L_OFF}
DisklessPeers(me, s) ==
  {p \in LinkedPeers(me, s) :
     s.pdsk[p] = D_DISKLESS /\ (s.disk > D_ATTACHING => p \in Diskless)}
UpToDatePeers(me, s) == {p \in LinkedPeers(me, s) : s.pdsk[p] = D_UP_TO_DATE}
PresentPeers(me, s) ==
  (LinkedPeers(me, s) \ DisklessPeers(me, s)) \ UpToDatePeers(me, s)

\* __calc_quorum_with_disk and __calc_quorum_no_disk: how many nodes are in
\* each class, this node included.  quorate: the PEER_QUORATE peers, asked
\* only by a node without a disk.
quorum_detail(me, s, had, quorate) ==
  LET with_disk == s.disk > D_ATTACHING
      self(b) == IF b THEN 1 ELSE 0
      quorumless == QuorumlessPeers(me, s, had)
  IN [outdated |-> Cardinality(OutdatedPeers(me, s)),
      quorumless |-> Cardinality(quorumless),
      unknown |->
        Cardinality((Missing(me, s) \ OutdatedPeers(me, s)) \ quorumless)
          + self(s.disk = D_DISKLESS /\ me \notin Diskless),
      up_to_date |-> Cardinality(UpToDatePeers(me, s))
                       + self(s.disk = D_UP_TO_DATE),
      present |-> Cardinality(PresentPeers(me, s))
                    + self(with_disk /\ s.disk # D_UP_TO_DATE),
      diskless |-> Cardinality(DisklessPeers(me, s))
                     + self(s.disk = D_DISKLESS /\ me \in Diskless),
      missing_diskless |->
        Cardinality({p \in Peers(me) \cap Diskless : s.repl[p] = L_OFF}),
      quorate_peers |->
        IF with_disk THEN 0
        ELSE Cardinality(UpToDatePeers(me, s) \cap quorate)]

\* calc_quorum: the missing nodes may be ignored when each of them is known
\* to be outdated or, unless the missing nodes alone could have quorum, known
\* to be without quorum.
Here(qd) == qd.up_to_date + qd.present
Away(qd) == qd.outdated + qd.quorumless + qd.unknown
Unsure(qd) ==
  \/ qd.unknown > 0
  \/ qd.quorumless > 0 /\ Away(qd) >= calc_quorum_at(QuorumSetting, Away(qd) + Here(qd))
Voters(qd) == IF Unsure(qd) THEN Away(qd) + Here(qd) ELSE Here(qd)

\* An even number of voters that fails by one vote may keep, never gain,
\* quorum with the majority of the diskless nodes.
HasQuorum(qd, voters, had) ==
  \/ qd.quorate_peers > 0
  \/ /\ Here(qd) >= calc_quorum_at(QuorumSetting, voters)
     /\ qd.up_to_date >= calc_quorum_at(MinRedundancy, voters)
  \/ /\ voters # 0 /\ voters % 2 = 0
     /\ Here(qd) = calc_quorum_at(QuorumSetting, voters) - 1
     /\ qd.diskless >= calc_quorum_at(QOU_MAJORITY, qd.diskless + qd.missing_diskless)
     /\ had
QuorumOf(qd, had) == HasQuorum(qd, Voters(qd), had)
calc_quorum(me, s, had, quorate) == QuorumOf(quorum_detail(me, s, had, quorate), had)
=============================================================================
